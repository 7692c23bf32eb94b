----------------------------- MODULE MCDelivery -----------------------------
(* delivery-service for TLC: a company with a legal name and a trade name. *)
EXTENDS Delivery, TLC

CONSTANTS n1, n2, g1, p1, p2

NamesUsed == {n1, n2, ""}
GstinsUsed == {g1, ""}
Companies == {<<n1, g1>>, <<n2, g1>>}
Symmetry == Permutations({p1, p2})
=============================================================================
