----------------------------- MODULE MCCheckout -----------------------------
(* Instances of CheckoutSaga for TLC. *)
EXTENDS CheckoutSaga, TLC

CONSTANTS c1, s1, i1, o1

\* One order, paid on OrderCreated, of one unit.
OneKey == [c \in Calls |-> "key"]
OneUser == [c \in Calls |-> "u"]
OnePayment == "event" :> "k1"
ForTheOrder == "k1" :> <<c1, s1>>
OneId == [o \in Orders |-> o1]
OneUnit == [o \in {o1} |-> <<[row |-> i1, quantity |-> 1]>>]
=============================================================================
