SPECIFICATION FairSpec
CONSTANTS
  k1 = k1
  k2 = k2
  k3 = k3
  Clients = {k1, k2}
  MaxEvents = 3
  BufSize = 1
  MaxConns = 1
  RedisFails = FALSE
PROPERTIES
  FeedDrains
  GoneReleases
  SignalStops
  RefinesFeed
\* The process stops when main returns.
CHECK_DEADLOCK FALSE
