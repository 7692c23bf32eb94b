SPECIFICATION Spec
CONSTANTS
  n1 = "n1"
  n2 = "n2"
  g1 = "g1"
  p1 = p1
  p2 = p2
  Orders = {o1}
  Procs = {p1, p2}
  Names <- NamesUsed
  Gstins <- GstinsUsed
  Registered <- Companies
SYMMETRY Symmetry
INVARIANTS ToldOfOneDelivery MovesArePath ProfileIsRight
