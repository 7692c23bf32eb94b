SPECIFICATION BusySpec
CONSTANTS
  Requests = {"r1", "r2", "r3"}
  FromEvents = {"r1", "r2"}
  KeyOf <- SameKey
  OrderOf <- OneOrder
  Refunds = {"q1", "q2", "q3"}
  FromReturns = {"q2"}
  PaymentOf <- AllOfK1
  RefundKeysOf <- OneKeyTwice
  AmountOf <- Amounts
  Price = 2
  Providers = {"MOCK", "RAZORPAY"}
  MaxFaults = 2
INVARIANTS OneGatewayCall PaidWasAccepted OneVerdict RefundsOnce RefundsCover
PROPERTIES CaptureIsRecorded
CHECK_DEADLOCK FALSE
