SPECIFICATION Spec
CONSTANTS
  k1 = k1
  k2 = k2
  k3 = k3
  Clients = {k1, k2, k3}
  MaxEvents = 3
  BufSize = 1
  MaxConns = 2
  RedisFails = TRUE
INVARIANTS
  TypeOK
  NoPanic
  SlotsMatchRequests
  FeedInOrder
  FeedGapless
SYMMETRY ClientSymmetry
\* The process stops when main returns.
CHECK_DEADLOCK FALSE
