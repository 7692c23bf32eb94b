SPECIFICATION Spec
CONSTANTS
  c1 = c1
  s1 = s1
  i1 = i1
  o1 = o1
  Calls = {c1}
  OrderKeyOf <- OneKey
  UserOf <- OneUser
  Stores = {s1}
  Procs = {"consumer", "api"}
  Consumer = "consumer"
  ByHand = {"PAID", "CONFIRMED"}
  MaxErrors = 0
  Requests = {"event"}
  FromEvents = {"event"}
  PayKeyOf <- OnePayment
  OrderOf <- ForTheOrder
  Price = 1
  Providers = {"RAZORPAY"}
  MaxFaults = 0
  IdOf <- OneId
  Inventories = {i1}
  ItemsOf <- OneUnit
  Callers = {"consumer"}
  Workers = {"w"}
  MaxReservations = 2
  MaxQuantity = 1
  SupplyQuantities = {1}
  LowStock = 0
PROPERTIES ImplementsCheckout
CHECK_DEADLOCK FALSE
