SPECIFICATION Spec
CONSTANTS
  s1 = s1
  b1 = b1
  Batches <- MCBatches
  Size <- MCSize
  Rated <- MCRated
  Given <- MCGiven
  MaxAccepted = 1
  Singles = {s1}
  Bulks = {b1}
INVARIANTS TypeOK ResultsAligned CancelStopsSends ExitCodeTrue FeedMeansPublished
PROPERTIES SignalEnds RefinesContract
CHECK_DEADLOCK FALSE
