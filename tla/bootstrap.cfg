SPECIFICATION Spec
CONSTANTS
  consumer = consumer
  ui = ui
  producer = producer
  Procs = {consumer, ui, producer}
  TableUsers = {consumer, ui}
  GroupUsers = {consumer}
  KafkaUsers = {consumer, producer}
  Interruptible = {producer}
  MaxBackoff = 16
  MaxElapsed = 60
  DialTimes = {4}
  MaxFlaps = 1
  MaxLosses = 1
INVARIANTS TypeOK ConnectBounded PassedMeansTable
PROPERTIES AllReady TableReturns
CHECK_DEADLOCK FALSE
