SPECIFICATION FairSpec
CONSTANTS
  i1 = i1
  o1 = o1
  o2 = o2
  Inventories = {i1}
  Orders = {o1, o2}
  ItemsOf <- Competing
  Callers = {c1, c2}
  Workers = {w1}
  MaxReservations = 2
  MaxQuantity = 2
  SupplyQuantities = {3}
  SetQuantities = {0}
  MaxSupplies = 1
  LowStock = 2
INVARIANTS BooksBalance ReleasedXorCommitted
PROPERTIES EventuallyFreed
CHECK_DEADLOCK FALSE
