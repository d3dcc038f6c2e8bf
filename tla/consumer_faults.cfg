SPECIFICATION Spec
CONSTANTS
  c1 = c1
  c2 = c2
  p1 = p1
  p2 = p2
  a = a
  b = b
  created = created
  settled = settled
  t1 = t1
  t2 = t2
  Malformed = Malformed
  None = None
  Consumers = {c1}
  Partitions = {p1}
  Payments = {a}
  Statuses = {created, settled}
  Times = {t1}
  Events <- SameRow
  Early <- Updated
  FromUI <- Opened
  Home <- OnePartition
  MaxLog = 2
  MaxSessions = 2
  WorkerCount = 1
  MaxAttempts = 2
  Faults = {"redis", "dynamo", "kafka", "crash", "cancel"}
INVARIANTS
  TypeOK
  NoSkip
  FrontierSucceeded
  SuccessBacked
  FeedBacked
\* The system stops when every message is handled and none arrives.
CHECK_DEADLOCK FALSE
