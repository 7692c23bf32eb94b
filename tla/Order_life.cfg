SPECIFICATION FairSpec
CONSTANTS
  Calls = {c1, c2}
  KeyOf <- OneKey
  UserOf <- OneUser
  Stores = {s1}
  Procs = {p1, p2}
  MaxErrors = 1
INVARIANTS OrderIsTold EventsTellOnce OneCheckout
PROPERTIES EveryCallAnswered
CHECK_DEADLOCK FALSE
