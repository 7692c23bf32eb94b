------------------------------- MODULE MCOrder -------------------------------
(* Instances of Order for TLC: the requests of one user, all with one key. *)
EXTENDS Order, TLC

OneKey == [c \in Calls |-> "k"]
OneUser == [c \in Calls |-> "u"]
=============================================================================
