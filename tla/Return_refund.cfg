SPECIFICATION Spec
CONSTANTS
  r1 = r1
  r2 = r2
  Requests = {r1, r2}
  ItemOf <- OneItem
  TypeOf <- Mixed
  Procs = {p1, p2}
  MaxStops = 1
INVARIANTS ReturnsAreRight CompletedIsRefunded
