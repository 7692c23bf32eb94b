------------------------------ MODULE MCReturn ------------------------------
(* Instances of Return for TLC. *)
EXTENDS Return, TLC

CONSTANTS r1, r2

\* A return and a replacement asked for the same item.
OneItem == [r \in Requests |-> "item"]
Mixed == [r \in Requests |-> IF r = r1 THEN "RETURN" ELSE "REPLACEMENT"]
=============================================================================
