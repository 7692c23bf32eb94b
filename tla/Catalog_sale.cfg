SPECIFICATION Spec
CONSTANTS
  Procs = {p1, p2}
  MaxAppeals = 2
SYMMETRY Symmetry
INVARIANTS ListingIsRight SaleIsRight
PROPERTIES DeletedStays
CHECK_DEADLOCK FALSE
