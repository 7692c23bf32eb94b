------------------------------ MODULE MCPayment ------------------------------
(* Instances of Payment for TLC. *)
EXTENDS Payment, TLC

\* OrderCreated is handled twice at once, or a client pays.
SameKey == [r \in Requests |-> "k1"]
OneOrder == "k1" :> "o1"

\* Refunds that exceed the price together; the third repeats the key of the first.
AllOfK1 == [q \in Refunds |-> "k1"]
OneKeyTwice == [q \in Refunds |-> IF q = "q2" THEN {"b"} ELSE {"a"}]
Amounts == [q \in Refunds |-> IF q = "q2" THEN 2 ELSE 1]

Made(payments, refunds) ==
  /\ \A r \in Requests : pc[r] = IF r \in payments THEN "start" ELSE "absent"
  /\ \A q \in Refunds : rpc[q] = IF q \in refunds THEN "start" ELSE "absent"

\* Two deliveries and a refund, with all the faults; or a client's payment and two refunds,
\* with two keys or one, and one fault less.
Busy ==
  \/ Made({"r1", "r2"}, {"q2"}) /\ faults = 0
  \/ /\ Made({"r3"}, {"q1", "q2"}) \/ Made({"r3"}, {"q1", "q3"})
     /\ provider = "RAZORPAY" /\ faults = 1

BusyInit == Init /\ Busy
BusySpec == BusyInit /\ [][Next]_vars /\ Fairness
=============================================================================
