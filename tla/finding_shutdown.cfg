SPECIFICATION Spec
CONSTANTS
  c1 = c1
  c2 = c2
  p1 = p1
  p2 = p2
  a = a
  b = b
  created = created
  settled = settled
  t1 = t1
  t2 = t2
  Malformed = Malformed
  None = None
  Consumers = {c1}
  Partitions = {p1}
  Payments = {a}
  Statuses = {created, settled}
  Times = {t1}
  Events <- SameRow
  Early = {}
  FromUI = {}
  Home <- OnePartition
  MaxLog = 1
  MaxSessions = 2
  WorkerCount = 1
  MaxAttempts = 3
  Faults = {"cancel"}
INVARIANTS
  CommittedIsAccounted
\* The system stops when every message is handled and none arrives.
CHECK_DEADLOCK FALSE
