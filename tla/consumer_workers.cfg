SPECIFICATION FairSpec
CONSTANTS
  c1 = c1
  c2 = c2
  p1 = p1
  p2 = p2
  a = a
  b = b
  created = created
  settled = settled
  t1 = t1
  t2 = t2
  Malformed = Malformed
  None = None
  Consumers = {c1}
  Partitions = {p1, p2}
  Payments = {a, b}
  Statuses = {created, settled}
  Times = {t1}
  Events <- Distinct
  Early = {}
  FromUI = {}
  Home <- ByPayment
  MaxLog = 1
  MaxSessions = 1
  WorkerCount = 1
  MaxAttempts = 2
  Faults = {"dynamo", "cancel"}
INVARIANTS
  SlotsHeld
  CountTracksDLQ
PROPERTIES
  MessageSettles
  CancelledSessionEnds
\* The system stops when every message is handled and none arrives.
CHECK_DEADLOCK FALSE
