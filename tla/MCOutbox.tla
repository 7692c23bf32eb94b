------------------------------ MODULE MCOutbox ------------------------------
(* Instances of Outbox for TLC. *)
EXTENDS Outbox, TLC

\* Requeue everything, or only the rows of one event type.
AllOrOne == {1..NumEvents, {1}}
=============================================================================
