---------------------------- MODULE MCInventory ----------------------------
(* Instances of Inventory for TLC. *)
EXTENDS Inventory, TLC

CONSTANTS i1, o1, o2

Item(i, n) == [row |-> i, quantity |-> n]

\* Two orders compete for the product.
Competing == [o \in Orders |-> IF o = o1 THEN <<Item(i1, 2)>> ELSE <<Item(i1, 1)>>]
=============================================================================
