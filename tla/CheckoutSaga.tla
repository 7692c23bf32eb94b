---------------------------- MODULE CheckoutSaga ----------------------------
(***************************************************************************)
(* The purchase of the orders of one checkout across order-service,        *)
(* payment-service and inventory-service: their modules side by side, each *)
(* with its own database, joined by nothing but domain events.             *)
(*                                                                         *)
(* A handler is enabled once the event it consumes is in the outbox of its *)
(* producer, and stays so: the outbox and the broker deliver late, in any  *)
(* order, more than once or never.  Customers pay by themselves and        *)
(* cancel; operators set any status the order's state machine lets them,   *)
(* PAID and CONFIRMED of an unpaid order included.                         *)
(***************************************************************************)
EXTENDS Naturals, Sequences

CONSTANTS
  Calls, OrderKeyOf, UserOf, Stores, Procs, MaxErrors,
  Consumer,       \* the handler of order-service that runs its event consumer
  ByHand,         \* statuses the operators set
  Requests, FromEvents, PayKeyOf, OrderOf, Price, Providers, MaxFaults,
  IdOf,           \* the id of an order, by which inventory-service knows it
  Inventories, ItemsOf, Callers, Workers, MaxReservations, MaxQuantity,
  SupplyQuantities, LowStock

VARIABLES
  oPhase, oAnswer, oStatus, oPayment, oHistory, oEvents, oProc, oErrors,
  provider, pc, ans, pStatus, pCreated, pEvents, gw, calls, rpc, seen, rfStatus,
  rfEvents, known, gwr, refresh, processed, faults,
  created, available, reserved, supplied, ledger, rStatus, rOrder, rInv, rQty, rDue,
  call, failure, scan, acked, outbox, supplies

oVars == <<oPhase, oAnswer, oStatus, oPayment, oHistory, oEvents, oProc, oErrors>>
pVars == <<provider, pc, ans, pStatus, pCreated, pEvents, gw, calls, rpc, seen, rfStatus,
           rfEvents, known, gwr, refresh, processed, faults>>
iVars == <<created, available, reserved, supplied, ledger, rStatus, rOrder, rInv, rQty,
           rDue, call, failure, scan, acked, outbox, supplies>>
vars == <<oVars, pVars, iVars>>

Orders == Calls \X Stores

O == INSTANCE Order WITH
       KeyOf <- OrderKeyOf, phase <- oPhase, answer <- oAnswer, status <- oStatus,
       payment <- oPayment, history <- oHistory, events <- oEvents, proc <- oProc,
       errors <- oErrors

\* Refunds are the subject of Return and of Payment's own runs.
P == INSTANCE Payment WITH
       KeyOf <- PayKeyOf, status <- pStatus, created <- pCreated, events <- pEvents,
       rStatus <- rfStatus, rEvents <- rfEvents, Refunds <- {}, FromReturns <- {},
       PaymentOf <- <<>>, AmountOf <- <<>>, RefundKeysOf <- <<>>

I == INSTANCE Inventory WITH Orders <- {IdOf[o] : o \in Orders}, SetQuantities <- {}, MaxSupplies <- 0

\* The services' own assumptions hold; ids of orders differ.
ASSUME SagaAssumption ==
  /\ O!OrderAssumption /\ P!PaymentAssumption /\ I!InventoryAssumption
  /\ Consumer \in Procs /\ ByHand \subseteq O!Statuses
  /\ \A o, x \in Orders : IdOf[o] = IdOf[x] => o = x

Init == O!Init /\ P!Init /\ I!Init

-----------------------------------------------------------------------------
(* Events *)

OrderSays(o, e) == \E n \in DOMAIN oEvents[o] : oEvents[o][n] = e

PaymentSays(o, e) == \E k \in P!Keys : OrderOf[k] = o /\ e \in pEvents[k]

-----------------------------------------------------------------------------
(* order-service *)

CreateOrder(c) == O!CreateStep(c) /\ UNCHANGED <<pVars, iVars>>

\* HandleEvent of its consumer.
OrderConsumes(o) ==
  /\ \/ PaymentSays(o, "PaymentSuccessful") /\ O!HandlePaymentSuccessful(Consumer, o)
     \/ PaymentSays(o, "PaymentFailed") /\ O!HandlePaymentFailed(Consumer, o)
  /\ UNCHANGED <<pVars, iVars>>

\* Requests of customers and operators.
OrderRequest(p, o) ==
  /\ p # Consumer
  /\ \/ O!CancelOrder(p, o)
     \/ \E to \in ByHand : O!UpdateOrderStatus(p, o, to)
  /\ UNCHANGED <<pVars, iVars>>

OrderWrites(p) ==
  /\ \E w \in oProc[p] : O!WriteStatus(p, w) \/ O!WriteCancel(p, w)
  /\ UNCHANGED <<pVars, iVars>>

\* The write is no longer allowed, or its transaction fails.
OrderGivesUp(p) == O!GiveUp(p) /\ UNCHANGED <<pVars, iVars>>

-----------------------------------------------------------------------------
(* payment-service *)

\* ProcessPayment asks order-service for the order before anything else.
PaymentRequest(r) ==
  /\ O!Exists(OrderOf[PayKeyOf[r]])
  /\ r \in FromEvents => OrderSays(OrderOf[PayKeyOf[r]], "OrderCreated")
  /\ P!PayStep(r)
  /\ UNCHANGED <<oVars, iVars>>

PaymentAgain(r) == P!Redeliver(r) /\ UNCHANGED <<oVars, iVars>>

PaymentElse(k) ==
  /\ P!CancelPayment(k) \/ P!GatewayDecides(k) \/ P!HandlePaymentWebhook(k)
  /\ UNCHANGED <<oVars, iVars>>

-----------------------------------------------------------------------------
(* inventory-service *)

\* OrderCreated is consumed, or the gateway's reserveStock is called.
InventoryReserves(c) ==
  /\ \/ \E o \in Orders : OrderSays(o, "OrderCreated") /\ I!ReserveCheck(c, IdOf[o])
     \/ I!ReserveFails(c)
     \/ \E r \in I!Reservations : I!ReserveStock(c, r)
  /\ UNCHANGED <<oVars, pVars>>

\* Mutant: the goods of an order are committed as soon as it is placed.
CommitsWhenPlaced(o) ==
  /\ OrderSays(o, "OrderCreated")
  /\ I!HandleOrderConfirmed(IdOf[o])
  /\ UNCHANGED <<oVars, pVars>>

InventoryCommits(o) ==
  /\ OrderSays(o, "OrderConfirmed")
  /\ I!HandleOrderConfirmed(IdOf[o])
  /\ UNCHANGED <<oVars, pVars>>

InventoryReleases(o) ==
  /\ OrderSays(o, "OrderCancelled") \/ PaymentSays(o, "PaymentFailed")
  /\ I!ReleaseStock(I!RowsOfOrder(IdOf[o]))
  /\ UNCHANGED <<oVars, pVars>>

\* The merchant's first stock, and the releaseStock of the gateway.
InventoryRequest ==
  /\ \/ \E i \in Inventories, q \in SupplyQuantities : I!Create(i, q)
     \/ \E r \in I!Reservations : I!ReleaseStock({r})
  /\ UNCHANGED <<oVars, pVars>>

InventoryTime ==
  /\ \/ \E r \in I!Reservations : I!Expires(r)
     \/ \E w \in Workers : I!ExpireScan(w) \/ I!ExpireStep(w)
  /\ UNCHANGED <<oVars, pVars>>

-----------------------------------------------------------------------------
Next ==
  \/ \E c \in Calls : CreateOrder(c)
  \/ \E o \in Orders :
       \/ OrderConsumes(o) \/ InventoryCommits(o) \/ InventoryReleases(o)
       \/ \E p \in Procs : OrderRequest(p, o)
  \/ \E p \in Procs : OrderWrites(p) \/ OrderGivesUp(p)
  \/ \E r \in Requests : PaymentRequest(r) \/ PaymentAgain(r)
  \/ \E k \in P!Keys : PaymentElse(k)
  \/ \E c \in Callers : InventoryReserves(c)
  \/ InventoryRequest
  \/ InventoryTime

Spec == Init /\ [][Next]_vars

-----------------------------------------------------------------------------
(* Properties *)

\* An order is sold when OrderConfirmed is announced: nothing else makes inventory-service
\* hand over goods.
OrderState(o) ==
  LET announced == OrderSays(o, "OrderConfirmed") IN
  CASE oStatus[o] = "none" -> "none"
    [] oStatus[o] \in {"CREATED", "PENDING_PAYMENT"} -> "open"
    [] oStatus[o] \in {"CANCELLED", "PAYMENT_FAILED"} ->
         IF announced THEN "revoked" ELSE "closed"
    [] OTHER -> IF announced THEN "sold" ELSE "granted"

\* payment-service has a payment of order o that counts as paid (what that says of the
\* money at the gateway is P!PaidWasAccepted).
Booked(o) == \E k \in P!Keys : OrderOf[k] = o /\ pStatus[k] \in P!Paid

GoodsState(o) ==
  LET has(s) == \E r \in I!RowsOfOrder(IdOf[o]) : rStatus[r] = s IN
  IF has("CONFIRMED") THEN "gone" ELSE IF has("RESERVED") THEN "held" ELSE "free"

C == INSTANCE Checkout WITH
       order <- [o \in Orders |-> OrderState(o)],
       booked <- [o \in Orders |-> Booked(o)],
       goods <- [o \in Orders |-> GoodsState(o)]

\* The three services implement Checkout, step by step, though the events between them are
\* late, lost, repeated and out of order and operators set statuses by hand: no goods leave
\* for an order whose payment is not booked.
ImplementsCheckout == C!Spec
=============================================================================
