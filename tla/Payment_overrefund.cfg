SPECIFICATION Spec
CONSTANTS
  Requests = {"r3"}
  FromEvents = {}
  KeyOf <- SameKey
  OrderOf <- OneOrder
  Refunds = {"q1", "q2"}
  FromReturns = {"q2"}
  PaymentOf <- AllOfK1
  RefundKeysOf <- OneKeyTwice
  AmountOf <- Amounts
  Price = 2
  Providers = {"MOCK"}
  MaxFaults = 0
INVARIANTS RefundsWithinPrice
CHECK_DEADLOCK FALSE
