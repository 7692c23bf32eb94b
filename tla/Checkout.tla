------------------------------ MODULE Checkout ------------------------------
(***************************************************************************)
(* What a checkout promises, whichever services keep it: an order is       *)
(* announced as sold only when its payment is booked, and goods leave only *)
(* for an order that was announced.  An operator may move an order along   *)
(* by hand without any payment; that sells nothing.  CheckoutSaga shows    *)
(* that order-service, payment-service and inventory-service, which share  *)
(* no transaction and talk by events, implement it.                        *)
(***************************************************************************)
CONSTANT Orders

VARIABLES
  order,   \* "none", "open", "granted" (moved along by hand), "sold" (OrderConfirmed is
           \* announced), "closed" (never sold) or "revoked" (closed after a sale)
  booked,  \* a payment of the order counts as paid
  goods    \* the stock of the order: "free", "held" or "gone"

vars == <<order, booked, goods>>

Init ==
  /\ order = [o \in Orders |-> "none"]
  /\ booked = [o \in Orders |-> FALSE]
  /\ goods = [o \in Orders |-> "free"]

Place(S) ==
  /\ S # {} /\ \A o \in S : order[o] = "none"
  /\ order' = [o \in Orders |-> IF o \in S THEN "open" ELSE order[o]]
  /\ UNCHANGED <<booked, goods>>

Book(o) ==
  /\ order[o] # "none" /\ ~booked[o]
  /\ booked' = [booked EXCEPT ![o] = TRUE]
  /\ UNCHANGED <<order, goods>>

Sell(o) ==
  /\ order[o] \in {"open", "granted"} /\ booked[o]
  /\ order' = [order EXCEPT ![o] = "sold"]
  /\ UNCHANGED <<booked, goods>>

Grant(o) ==
  /\ order[o] = "open"
  /\ order' = [order EXCEPT ![o] = "granted"]
  /\ UNCHANGED <<booked, goods>>

Close(o) ==
  /\ order[o] \in {"open", "granted", "sold"}
  /\ order' = [order EXCEPT ![o] = IF @ = "sold" THEN "revoked" ELSE "closed"]
  /\ UNCHANGED <<booked, goods>>

Hold(o) ==
  /\ order[o] # "none" /\ goods[o] = "free"
  /\ goods' = [goods EXCEPT ![o] = "held"]
  /\ UNCHANGED <<order, booked>>

Free(o) ==
  /\ goods[o] = "held"
  /\ goods' = [goods EXCEPT ![o] = "free"]
  /\ UNCHANGED <<order, booked>>

HandOver(o) ==
  /\ order[o] \in {"sold", "revoked"} /\ goods[o] = "held"
  /\ goods' = [goods EXCEPT ![o] = "gone"]
  /\ UNCHANGED <<order, booked>>

Next ==
  \/ \E S \in SUBSET Orders : Place(S)
  \/ \E o \in Orders :
       Book(o) \/ Sell(o) \/ Grant(o) \/ Close(o) \/ Hold(o) \/ Free(o) \/ HandOver(o)

Spec == Init /\ [][Next]_vars

-----------------------------------------------------------------------------
TypeOK ==
  /\ order \in [Orders -> {"none", "open", "granted", "sold", "closed", "revoked"}]
  /\ booked \in [Orders -> BOOLEAN]
  /\ goods \in [Orders -> {"free", "held", "gone"}]

\* Goods are gone only from an order that was announced as sold, and no order is announced
\* so before its payment is booked, whatever operators set by hand (HandlePaymentSuccessful,
\* HandleOrderConfirmed of inventory-service).
GoodsArePaid ==
  \A o \in Orders :
    /\ goods[o] = "gone" => order[o] \in {"sold", "revoked"}
    /\ order[o] \in {"sold", "revoked"} => booked[o]

=============================================================================
