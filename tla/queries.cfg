SPECIFICATION Spec
CONSTANTS
  p1 = p1
  p2 = p2
  Payments = {p1, p2}
  Statuses = {"confirmed", "failed"}
  MaxReturns = 2
  MaxNew = 2
INVARIANTS TypeOK ListComplete RowsTrue MetricsBounds
PROPERTIES RequestEnds
