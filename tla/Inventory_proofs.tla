--------------------------- MODULE Inventory_proofs ---------------------------
(***************************************************************************)
(* Proofs about Inventory for any rows, orders, callers, workers, bounds   *)
(* and quantities.  StockInv is inductive: the books of a row (available,  *)
(* reserved, ledger) follow the sum of the reservations in each status,    *)
(* and that sum is the cardinality of a set of units, which the library's  *)
(* theorems on finite sets can split and extend.                           *)
(***************************************************************************)
EXTENDS Inventory, FiniteSetTheorems, TLAPS

\* A row that does not exist yet has no stock.
AbsentIsEmpty ==
  \A i \in Inventories : ~created[i] => available[i] = 0 /\ supplied[i] = 0

StockInv ==
  /\ TypeOK
  /\ AbsentIsEmpty
  /\ ReservedIsHeld
  /\ StockConserved
  /\ LedgerBalances

-----------------------------------------------------------------------------
(* Constants *)

LEMMA Bounds ==
  /\ MaxReservations \in Nat /\ MaxQuantity \in Nat /\ MaxSupplies \in Nat
  /\ SupplyQuantities \subseteq Nat /\ SetQuantities \subseteq Nat
BY InventoryAssumption

LEMMA FirstInSeq ==
  ASSUME NEW S, NEW s \in Seq(S), Len(s) > 0
  PROVE  s[1] \in S
OBVIOUS

LEMMA Items ==
  ASSUME NEW o \in Orders
  PROVE  ItemOf(o).row \in Inventories /\ ItemOf(o).quantity \in 1..MaxQuantity
<1>1. ItemsOf[o] \in Seq([row : Inventories, quantity : 1..MaxQuantity])
  BY InventoryAssumption
<1>2. Len(ItemsOf[o]) > 0
  BY InventoryAssumption
<1>3. ItemsOf[o][1] \in [row : Inventories, quantity : 1..MaxQuantity]
  BY <1>1, <1>2, FirstInSeq
<1> QED BY <1>3 DEF ItemOf

-----------------------------------------------------------------------------
(* Sums of quantities, with the two columns they depend on as parameters *)

UnitsOf(inv, qty, R, i) ==
  {u \in R \X (1..MaxQuantity) : inv[u[1]] = i /\ u[2] <= qty[u[1]]}

Sum(inv, qty, R, i) == Cardinality(UnitsOf(inv, qty, R, i))

\* Only finitely many units are held.
LEMMA UnitsFinite ==
  ASSUME NEW inv, NEW qty, NEW R \in SUBSET Reservations, NEW i
  PROVE  IsFiniteSet(UnitsOf(inv, qty, R, i)) /\ Sum(inv, qty, R, i) \in Nat
<1>1. IsFiniteSet(Reservations)
  BY Bounds, FS_Interval DEF Reservations
<1>2. IsFiniteSet(R) /\ IsFiniteSet(1..MaxQuantity)
  BY <1>1, FS_Subset, FS_Interval, Bounds
<1>3. IsFiniteSet(R \X (1..MaxQuantity))
  BY <1>2, FS_Product
<1>4. UnitsOf(inv, qty, R, i) \in SUBSET (R \X (1..MaxQuantity))
  BY DEF UnitsOf
<1>5. IsFiniteSet(UnitsOf(inv, qty, R, i))
  BY <1>3, <1>4, FS_Subset
<1> QED BY <1>5, FS_CardinalityType DEF Sum

\* No reservations hold no units.
LEMMA SumEmpty ==
  ASSUME NEW inv, NEW qty, NEW i
  PROVE  Sum(inv, qty, {}, i) = 0
<1>1. UnitsOf(inv, qty, {}, i) = {}
  BY DEF UnitsOf
<1> QED BY <1>1, FS_EmptySet DEF Sum

\* The sum over a set is the sum over a part and over the rest.
LEMMA SumSplit ==
  ASSUME NEW inv, NEW qty, NEW R \in SUBSET Reservations, NEW A \in SUBSET R, NEW i
  PROVE  Sum(inv, qty, R, i) = Sum(inv, qty, R \ A, i) + Sum(inv, qty, A, i)
<1> DEFINE P == UnitsOf(inv, qty, R \ A, i)
           Q == UnitsOf(inv, qty, A, i)
<1>1. IsFiniteSet(P) /\ IsFiniteSet(Q)
  BY UnitsFinite
<1>2. UnitsOf(inv, qty, R, i) = P \cup Q
  BY DEF UnitsOf
<1>3. P \cap Q = {}
  BY DEF UnitsOf
<1>4. Cardinality(P \cup Q) = Cardinality(P) + Cardinality(Q) - Cardinality(P \cap Q)
  BY <1>1, FS_Union
<1>5. Cardinality(P) \in Nat /\ Cardinality(Q) \in Nat
  BY <1>1, FS_CardinalityType
<1>6. Cardinality(P \cap Q) = 0
  BY <1>3, FS_EmptySet
<1>7. Cardinality(UnitsOf(inv, qty, R, i)) = Cardinality(P) + Cardinality(Q)
  <2> HIDE DEF P, Q
  <2> QED BY <1>2, <1>4, <1>5, <1>6
<1> QED BY <1>7 DEF Sum

\* Only the columns of the reservations in R matter for a sum over R.
LEMMA SumFrame ==
  ASSUME NEW inv, NEW qty, NEW R, NEW i,
         NEW inv2, NEW qty2,
         \A s \in R : inv2[s] = inv[s] /\ qty2[s] = qty[s]
  PROVE  Sum(inv2, qty2, R, i) = Sum(inv, qty, R, i)
<1>1. UnitsOf(inv2, qty2, R, i) = UnitsOf(inv, qty, R, i)
  BY DEF UnitsOf
<1> QED BY <1>1 DEF Sum

\* A single reservation of q units of row j.
LEMMA SumOne ==
  ASSUME NEW inv, NEW qty, NEW r \in Reservations, NEW i,
         qty[r] \in 0..MaxQuantity
  PROVE  Sum(inv, qty, {r}, i) = IF inv[r] = i THEN qty[r] ELSE 0
<1>1. CASE inv[r] = i
  <2>1. UnitsOf(inv, qty, {r}, i) = {r} \X (1..qty[r])
    <3>1. \A n \in 1..MaxQuantity : n <= qty[r] <=> n \in 1..qty[r]
      BY Bounds
    <3>2. \A n \in 1..qty[r] : n \in 1..MaxQuantity
      BY Bounds
    <3> QED BY <1>1, <3>1, <3>2, Zenon DEF UnitsOf
  <2>2. IsFiniteSet({r}) /\ Cardinality({r}) = 1
    BY FS_Singleton
  <2>3. IsFiniteSet(1..qty[r]) /\ Cardinality(1..qty[r]) = qty[r]
    <3>1. qty[r] \in Nat BY Bounds
    <3>2. /\ IsFiniteSet(1..qty[r])
          /\ Cardinality(1..qty[r]) = IF 1 > qty[r] THEN 0 ELSE qty[r] - 1 + 1
      BY <3>1, FS_Interval
    <3> QED BY <3>1, <3>2
  <2>4. Cardinality({r} \X (1..qty[r])) = Cardinality({r}) * Cardinality(1..qty[r])
    BY <2>2, <2>3, FS_Product
  <2>5. qty[r] \in Nat BY Bounds
  <2>6. Cardinality({r} \X (1..qty[r])) = 1 * qty[r]
    BY <2>2, <2>3, <2>4, Zenon
  <2>7. 1 * qty[r] = qty[r]
    BY <2>5
  <2> QED BY <1>1, <2>1, <2>6, <2>7, Zenon DEF Sum
<1>2. CASE inv[r] # i
  <2>1. UnitsOf(inv, qty, {r}, i) = {}
    BY <1>2 DEF UnitsOf
  <2> QED BY <1>2, <2>1, FS_EmptySet DEF Sum
<1> QED BY <1>1, <1>2

\* The model's Quantity is such a sum, before and after a step.
LEMMA QuantityIsSum ==
  /\ \A R, i : Quantity(R, i) = Sum(rInv, rQty, R, i)
  /\ \A s, i : Quantity(RowsIn(s), i)' = Sum(rInv', rQty', RowsIn(s)', i)
BY DEF Quantity, Units, Sum, UnitsOf

LEMMA RowsInReservations ==
  \A s : RowsIn(s) \in SUBSET Reservations /\ RowsIn(s)' \in SUBSET Reservations
BY DEF RowsIn

-----------------------------------------------------------------------------
(* StockInv is inductive *)

LEMMA InitStock == Init => StockInv
<1> SUFFICES ASSUME Init PROVE StockInv
  OBVIOUS
<1>1. TypeOK
  BY Bounds DEF Init, TypeOK, Statuses, Failures
<1>2. RowsIn("RESERVED") = {} /\ RowsIn("CONFIRMED") = {}
  BY DEF Init, RowsIn
<1>3. \A i : Quantity(RowsIn("RESERVED"), i) = 0 /\ Quantity(RowsIn("CONFIRMED"), i) = 0
  BY <1>2, QuantityIsSum, SumEmpty
<1> QED
  BY <1>1, <1>3 DEF Init, StockInv, AbsentIsEmpty, ReservedIsHeld, StockConserved, LedgerBalances

\* A step that leaves the statuses, rows and quantities of reservations alone
\* leaves the sums alone.
LEMMA SameQuantities ==
  ASSUME UNCHANGED <<rStatus, rInv, rQty>>
  PROVE  \A s, i : Quantity(RowsIn(s), i)' = Quantity(RowsIn(s), i)
<1>1. \A s : RowsIn(s)' = RowsIn(s) BY DEF RowsIn
<1> QED BY <1>1, QuantityIsSum

\* So does one that also leaves the stock alone: only types are left to check.
LEMMA SameBooks ==
  ASSUME StockInv, UNCHANGED <<stock, rStatus, rInv, rQty>>, TypeOK'
  PROVE  StockInv'
BY SameQuantities
   DEF StockInv, stock, AbsentIsEmpty, ReservedIsHeld, StockConserved, LedgerBalances

-----------------------------------------------------------------------------
(* Merchants *)

LEMMA CreateStock ==
  ASSUME StockInv, NEW i \in Inventories, NEW q \in SupplyQuantities, Create(i, q)
  PROVE  StockInv'
<1> USE Bounds DEF StockInv, Create, resv, procs
<1>1. TypeOK' BY DEF TypeOK
<1>2. \A s, j : Quantity(RowsIn(s), j)' = Quantity(RowsIn(s), j)
  BY SameQuantities
<1>3. \A j : Quantity(RowsIn("CONFIRMED"), j) \in Nat
  BY QuantityIsSum, UnitsFinite, RowsInReservations
<1>4. AbsentIsEmpty' BY DEF AbsentIsEmpty, TypeOK
<1>5. ReservedIsHeld' BY <1>2 DEF ReservedIsHeld
<1>6. LedgerBalances' BY DEF LedgerBalances
<1>7. available[i] = 0 /\ supplied[i] = 0 BY DEF AbsentIsEmpty
<1>8. reserved[i] = 0 /\ Quantity(RowsIn("CONFIRMED"), i) = 0
  <2>1. available[i] + reserved[i] + Quantity(RowsIn("CONFIRMED"), i) = supplied[i]
    BY DEF StockConserved
  <2>2. reserved[i] \in Nat /\ Quantity(RowsIn("CONFIRMED"), i) \in Nat
    BY <1>3 DEF TypeOK
  <2> QED BY <2>1, <2>2, <1>7
<1>9. StockConserved'
  <2> SUFFICES ASSUME NEW j \in Inventories
               PROVE  available'[j] + reserved[j] + Quantity(RowsIn("CONFIRMED"), j) = supplied'[j]
    BY <1>2 DEF StockConserved
  <2>1. CASE j = i BY <2>1, <1>8 DEF TypeOK
  <2>2. CASE j # i BY <2>2 DEF TypeOK, StockConserved
  <2> QED BY <2>1, <2>2
<1> QED BY <1>1, <1>4, <1>5, <1>6, <1>9

\* Restock and UpdateStock put in the difference that supplied records.
LEMMA SupplyStock ==
  ASSUME StockInv, NEW i \in Inventories, NEW q \in Nat,
         Restock(i, q) \/ UpdateStock(i, q)
  PROVE  StockInv'
<1> USE Bounds DEF StockInv, Restock, UpdateStock, resv, procs
<1>1. TypeOK'
  <2>1. available' \in [Inventories -> Nat]
    <3>1. available \in [Inventories -> Nat] BY DEF TypeOK
    <3>2. CASE Restock(i, q)
      <4>1. available[i] + q \in Nat BY <3>1
      <4> QED BY <3>1, <3>2, <4>1
    <3>3. CASE UpdateStock(i, q) BY <3>1, <3>3
    <3> QED BY <3>2, <3>3
  <2>2. supplied' \in [Inventories -> Int] BY DEF TypeOK
  <2>3. supplies' \in 0..MaxSupplies BY DEF TypeOK
  <2> QED BY <2>1, <2>2, <2>3 DEF TypeOK
<1>2. \A s, j : Quantity(RowsIn(s), j)' = Quantity(RowsIn(s), j)
  BY SameQuantities
<1>3. \A j : Quantity(RowsIn("CONFIRMED"), j) \in Nat
  BY QuantityIsSum, UnitsFinite, RowsInReservations
<1>4. AbsentIsEmpty' BY DEF AbsentIsEmpty, TypeOK
<1>5. ReservedIsHeld' BY <1>2 DEF ReservedIsHeld
<1>6. LedgerBalances' BY DEF LedgerBalances
<1>9. StockConserved'
  <2> SUFFICES ASSUME NEW j \in Inventories
               PROVE  available'[j] + reserved[j] + Quantity(RowsIn("CONFIRMED"), j) = supplied'[j]
    BY <1>2 DEF StockConserved
  <2>1. available[j] + reserved[j] + Quantity(RowsIn("CONFIRMED"), j) = supplied[j]
    BY DEF StockConserved
  <2>2. /\ available[j] \in Nat /\ reserved[j] \in Nat /\ supplied[j] \in Int
        /\ Quantity(RowsIn("CONFIRMED"), j) \in Nat
    BY <1>3 DEF TypeOK
  <2>3. supplied'[j] - available'[j] = supplied[j] - available[j]
    BY <2>2 DEF TypeOK
  <2>4. available'[j] \in Int /\ supplied'[j] \in Int
    BY <1>1 DEF TypeOK
  <2> QED BY <2>1, <2>2, <2>3, <2>4
<1> QED BY <1>1, <1>4, <1>5, <1>6, <1>9

-----------------------------------------------------------------------------
(* ReserveStock *)

\* The look-up and a failure change no stock.
LEMMA CallStock ==
  ASSUME StockInv, NEW c \in Callers,
         (\E o \in Orders : ReserveCheck(c, o)) \/ ReserveFails(c)
  PROVE  StockInv'
<1> USE Bounds DEF ReserveCheck, ReserveFails
<1>1. UNCHANGED <<stock, rStatus, rInv, rQty>> BY DEF resv
<1>2. TypeOK'
  <2>1. TypeOK BY DEF StockInv
  <2>2. CASE \E o \in Orders : ReserveCheck(c, o) BY <2>1, <2>2 DEF TypeOK, stock, resv
  <2>3. CASE ReserveFails(c)
    <3>1. ReserveOutcome(call[c]) \in Failures
      BY DEF ReserveOutcome, SecondItemFailure, Failures
    <3> QED BY <2>1, <2>3, <3>1 DEF TypeOK, stock, resv
  <2> QED BY <2>2, <2>3
<1> QED BY <1>1, <1>2, SameBooks

LEMMA ReserveStockStock ==
  ASSUME StockInv, NEW c \in Callers, NEW r \in Reservations, ReserveStock(c, r)
  PROVE  StockInv'
<1> DEFINE o == call[c]
           i == ItemOf(o).row
           q == ItemOf(o).quantity
<1>1. o \in Orders BY DEF StockInv, TypeOK, ReserveStock
<1>2. i \in Inventories /\ q \in 1..MaxQuantity
  BY <1>1, Items
<1>3. created[i] /\ available[i] >= q
  <2>1. ReserveOutcome(o) = "none" BY DEF ReserveStock
  <2>2. available[i] \in Nat /\ q \in Nat BY <1>2, Bounds DEF StockInv, TypeOK
  <2>3. created[i] /\ ~ShortOf(i, q)
    BY <2>1 DEF ReserveOutcome
  <2> HIDE DEF o, i, q
  <2> QED BY <2>2, <2>3 DEF ShortOf
<1> HIDE DEF o, i, q
<1>4. /\ available' = [available EXCEPT ![i] = @ - q]
      /\ reserved' = [reserved EXCEPT ![i] = @ + q]
      /\ ledger' = [ledger EXCEPT ![i].RESERVE = @ + q]
      /\ rStatus[r] = "none"
      /\ rStatus' = [rStatus EXCEPT ![r] = "RESERVED"]
      /\ rOrder' = [rOrder EXCEPT ![r] = o]
      /\ rInv' = [rInv EXCEPT ![r] = i]
      /\ rQty' = [rQty EXCEPT ![r] = q]
      /\ call' = [call EXCEPT ![c] = NoOrder]
      /\ UNCHANGED <<created, supplied, rDue, failure, scan, acked, supplies>>
  BY DEF ReserveStock, o, i, q
<1>5. TypeOK'
  <2>1. TypeOK BY DEF StockInv
  <2>2. q \in Nat /\ q \in 0..MaxQuantity BY <1>2, Bounds
  <2>3. available' \in [Inventories -> Nat] BY <1>2, <1>3, <1>4, <2>1, <2>2 DEF TypeOK
  <2>4. reserved' \in [Inventories -> Nat] BY <1>2, <1>4, <2>1, <2>2 DEF TypeOK
  <2>5. ledger' \in [Inventories -> [RESERVE : Nat, RELEASE : Nat, COMMIT : Nat]]
    BY <1>2, <1>4, <2>1, <2>2 DEF TypeOK
  <2>6. /\ rStatus' \in [Reservations -> Statuses]
        /\ rOrder' \in [Reservations -> Orders \cup {NoOrder}]
        /\ rInv' \in [Reservations -> Inventories \cup {NoRow}]
        /\ rQty' \in [Reservations -> 0..MaxQuantity]
        /\ call' \in [Callers -> Orders \cup {NoOrder}]
    BY <1>1, <1>2, <1>4, <2>1, <2>2 DEF TypeOK, Statuses
  <2> QED BY <1>4, <2>1, <2>3, <2>4, <2>5, <2>6 DEF TypeOK
<1>6. /\ RowsIn("CONFIRMED")' = RowsIn("CONFIRMED") /\ r \notin RowsIn("CONFIRMED")
      /\ RowsIn("RESERVED")' = RowsIn("RESERVED") \cup {r} /\ r \notin RowsIn("RESERVED")
  BY <1>4 DEF StockInv, TypeOK, RowsIn
<1>7. \A s \in Reservations : s # r => rInv'[s] = rInv[s] /\ rQty'[s] = rQty[s]
  BY <1>4 DEF StockInv, TypeOK
<1>8. rInv'[r] = i /\ rQty'[r] = q
  BY <1>4 DEF StockInv, TypeOK
<1>9. \A j : Quantity(RowsIn("CONFIRMED"), j)' = Quantity(RowsIn("CONFIRMED"), j)
  <2>1. \A s \in RowsIn("CONFIRMED") : rInv'[s] = rInv[s] /\ rQty'[s] = rQty[s]
    BY <1>6, <1>7, RowsInReservations
  <2>2. \A j : Sum(rInv', rQty', RowsIn("CONFIRMED"), j) = Sum(rInv, rQty, RowsIn("CONFIRMED"), j)
    BY <2>1, SumFrame
  <2> QED BY <2>2, <1>6, QuantityIsSum
<1>10. \A j : Quantity(RowsIn("RESERVED"), j)' =
                Quantity(RowsIn("RESERVED"), j) + (IF j = i THEN q ELSE 0)
  <2> TAKE j
  <2> DEFINE R == RowsIn("RESERVED")
  <2>1. \A s \in R : rInv'[s] = rInv[s] /\ rQty'[s] = rQty[s]
    BY <1>6, <1>7, RowsInReservations
  <2>2. Sum(rInv', rQty', R, j) = Sum(rInv, rQty, R, j)
    BY <2>1, SumFrame
  <2>3. Sum(rInv', rQty', {r}, j) = IF i = j THEN q ELSE 0
    <3>1. rQty'[r] \in 0..MaxQuantity BY <1>2, <1>8, Bounds
    <3>2. Sum(rInv', rQty', {r}, j) = IF rInv'[r] = j THEN rQty'[r] ELSE 0
      BY <3>1, SumOne
    <3> QED BY <3>2, <1>8
  <2>4. R \cup {r} \in SUBSET Reservations /\ {r} \in SUBSET (R \cup {r})
    BY RowsInReservations
  <2>5. Sum(rInv', rQty', R \cup {r}, j) =
          Sum(rInv', rQty', (R \cup {r}) \ {r}, j) + Sum(rInv', rQty', {r}, j)
    BY <2>4, SumSplit
  <2>6. (R \cup {r}) \ {r} = R
    BY <1>6
  <2> HIDE DEF R
  <2>7. Quantity(RowsIn("RESERVED"), j)' = Sum(rInv', rQty', R \cup {r}, j)
    BY <1>6, QuantityIsSum DEF R
  <2>8. Quantity(RowsIn("RESERVED"), j) = Sum(rInv, rQty, R, j)
    BY QuantityIsSum DEF R
  <2> QED BY <2>2, <2>3, <2>5, <2>6, <2>7, <2>8
<1>11. \A j : Quantity(RowsIn("RESERVED"), j) \in Nat /\ Quantity(RowsIn("CONFIRMED"), j) \in Nat
  BY QuantityIsSum, UnitsFinite, RowsInReservations
<1>12. q \in Nat BY <1>2, Bounds
<1>13. AbsentIsEmpty' BY <1>2, <1>3, <1>4 DEF StockInv, TypeOK, AbsentIsEmpty
<1>14. ReservedIsHeld'
  BY <1>2, <1>4, <1>10, <1>11, <1>12 DEF StockInv, TypeOK, ReservedIsHeld
<1>15. StockConserved'
  BY <1>2, <1>4, <1>9, <1>11, <1>12 DEF StockInv, TypeOK, StockConserved
<1>16. LedgerBalances'
  BY <1>2, <1>4, <1>12 DEF StockInv, TypeOK, LedgerBalances
<1> QED BY <1>5, <1>13, <1>14, <1>15, <1>16 DEF StockInv

-----------------------------------------------------------------------------
(* ReleaseStock, CommitStock and expiry *)

\* Moving RESERVED reservations A to another status takes exactly their units out
\* of the RESERVED sum, so GREATEST never clamps; the CONFIRMED sum gains them
\* only by a commit.
LEMMA MoveReserved ==
  ASSUME StockInv, NEW A \in SUBSET RowsIn("RESERVED"),
         NEW target \in {"RELEASED", "EXPIRED", "CONFIRMED"},
         rStatus' = [r \in Reservations |-> IF r \in A THEN target ELSE rStatus[r]],
         UNCHANGED <<rInv, rQty>>
  PROVE  \A i \in Inventories :
           /\ Quantity(A, i) \in Nat
           /\ Quantity(RowsIn("CONFIRMED"), i) \in Nat
           /\ reserved[i] >= Quantity(A, i)
           /\ Quantity(RowsIn("RESERVED"), i)' = reserved[i] - Quantity(A, i)
           /\ Quantity(RowsIn("CONFIRMED"), i)' =
                Quantity(RowsIn("CONFIRMED"), i) + (IF target = "CONFIRMED" THEN Quantity(A, i) ELSE 0)
<1> SUFFICES ASSUME NEW i \in Inventories
             PROVE  /\ Quantity(A, i) \in Nat
                    /\ Quantity(RowsIn("CONFIRMED"), i) \in Nat
                    /\ reserved[i] >= Quantity(A, i)
                    /\ Quantity(RowsIn("RESERVED"), i)' = reserved[i] - Quantity(A, i)
                    /\ Quantity(RowsIn("CONFIRMED"), i)' =
                         Quantity(RowsIn("CONFIRMED"), i)
                           + (IF target = "CONFIRMED" THEN Quantity(A, i) ELSE 0)
  OBVIOUS
<1> DEFINE R == RowsIn("RESERVED")
           C == RowsIn("CONFIRMED")
<1>1. /\ R \in SUBSET Reservations /\ C \in SUBSET Reservations
      /\ A \in SUBSET R /\ A \in SUBSET Reservations /\ A \cap C = {}
  BY DEF RowsIn
<1>2. R' = R \ A
  BY DEF RowsIn
<1>3. C' = IF target = "CONFIRMED" THEN C \cup A ELSE C
  BY DEF RowsIn
<1>4. /\ Sum(rInv, rQty, A, i) \in Nat
      /\ Sum(rInv, rQty, C, i) \in Nat
      /\ Sum(rInv, rQty, R \ A, i) \in Nat
  BY <1>1, UnitsFinite
<1>5. Sum(rInv, rQty, R, i) = Sum(rInv, rQty, R \ A, i) + Sum(rInv, rQty, A, i)
  BY <1>1, SumSplit
<1>6. reserved[i] = Sum(rInv, rQty, R, i)
  BY QuantityIsSum DEF StockInv, ReservedIsHeld
<1>7. Quantity(A, i) = Sum(rInv, rQty, A, i) /\ Quantity(C, i) = Sum(rInv, rQty, C, i)
  BY QuantityIsSum
<1>8. Quantity(RowsIn("RESERVED"), i)' = Sum(rInv, rQty, R \ A, i)
  BY <1>2, QuantityIsSum
<1>9. Quantity(RowsIn("CONFIRMED"), i)' =
        Sum(rInv, rQty, C, i) + (IF target = "CONFIRMED" THEN Sum(rInv, rQty, A, i) ELSE 0)
  <2>1. Quantity(RowsIn("CONFIRMED"), i)' = Sum(rInv, rQty, C', i)
    BY QuantityIsSum
  <2>2. CASE target = "CONFIRMED"
    <3>1. /\ C \cup A \in SUBSET Reservations /\ A \in SUBSET (C \cup A)
          /\ (C \cup A) \ A = C
      BY <1>1
    <3>2. Sum(rInv, rQty, C \cup A, i) = Sum(rInv, rQty, (C \cup A) \ A, i) + Sum(rInv, rQty, A, i)
      BY <3>1, SumSplit
    <3>3. C' = C \cup A BY <2>2, <1>3
    <3> HIDE DEF C
    <3> QED BY <2>1, <2>2, <3>1, <3>2, <3>3
  <2>3. CASE target # "CONFIRMED"
    <3>1. C' = C BY <2>3, <1>3
    <3> HIDE DEF C
    <3> QED BY <2>1, <2>3, <3>1, <1>4
  <2> QED BY <2>2, <2>3
<1>10. Quantity(C, i) \in Nat BY <1>4, <1>7
<1> HIDE DEF R
<1>11. reserved[i] >= Quantity(A, i) /\ Sum(rInv, rQty, R \ A, i) = reserved[i] - Quantity(A, i)
  BY <1>4, <1>5, <1>6, <1>7
<1> QED BY <1>4, <1>7, <1>8, <1>9, <1>10, <1>11

LEMMA ReleaseStockInv ==
  ASSUME StockInv, NEW A \in SUBSET RowsIn("RESERVED"),
         NEW target \in {"RELEASED", "EXPIRED"},
         ReleaseActive(A, target),
         scan' \in [Workers -> SUBSET Reservations], acked' \subseteq Orders
  PROVE  StockInv'
<1>1. \A i \in Inventories :
        /\ Quantity(A, i) \in Nat
        /\ Quantity(RowsIn("CONFIRMED"), i) \in Nat
        /\ reserved[i] >= Quantity(A, i)
        /\ Quantity(RowsIn("RESERVED"), i)' = reserved[i] - Quantity(A, i)
        /\ Quantity(RowsIn("CONFIRMED"), i)' = Quantity(RowsIn("CONFIRMED"), i)
  <2>1. target # "CONFIRMED" /\ target \in {"RELEASED", "EXPIRED", "CONFIRMED"}
    OBVIOUS
  <2> QED BY <2>1, MoveReserved DEF ReleaseActive
<1>2. TypeOK BY DEF StockInv
<1>3. \A i \in Inventories :
        /\ available'[i] = available[i] + Quantity(A, i)
        /\ reserved'[i] = reserved[i] - Quantity(A, i)
        /\ ledger'[i] = [ledger[i] EXCEPT !.RELEASE = @ + Quantity(A, i)]
  BY <1>1, <1>2 DEF ReleaseActive, Greatest0, TypeOK
<1>4. TypeOK'
  <2>1. available' \in [Inventories -> Nat] /\ reserved' \in [Inventories -> Nat]
    BY <1>1, <1>2 DEF ReleaseActive, Greatest0, TypeOK
  <2>2. ledger' \in [Inventories -> [RESERVE : Nat, RELEASE : Nat, COMMIT : Nat]]
    <3>1. \A i \in Inventories : /\ ledger[i] \in [RESERVE : Nat, RELEASE : Nat, COMMIT : Nat]
                                 /\ ledger[i].RELEASE + Quantity(A, i) \in Nat
      BY <1>1, <1>2 DEF TypeOK
    <3>2. \A i \in Inventories : [ledger[i] EXCEPT !.RELEASE = @ + Quantity(A, i)]
                                   \in [RESERVE : Nat, RELEASE : Nat, COMMIT : Nat]
      BY <3>1
    <3> QED BY <3>2 DEF ReleaseActive
  <2>3. rStatus' \in [Reservations -> Statuses]
    BY <1>2 DEF ReleaseActive, TypeOK, Statuses
  <2> QED BY <1>2, <2>1, <2>2, <2>3 DEF ReleaseActive, TypeOK
<1>5. AbsentIsEmpty'
  <2> SUFFICES ASSUME NEW i \in Inventories, ~created[i]
               PROVE  available'[i] = 0 /\ supplied[i] = 0
    BY DEF ReleaseActive, AbsentIsEmpty
  <2>1. available[i] = 0 /\ supplied[i] = 0 BY DEF StockInv, AbsentIsEmpty
  <2>2. available[i] + reserved[i] + Quantity(RowsIn("CONFIRMED"), i) = supplied[i]
    BY DEF StockInv, StockConserved
  <2>3. /\ reserved[i] \in Nat /\ reserved[i] >= Quantity(A, i)
        /\ Quantity(A, i) \in Nat /\ Quantity(RowsIn("CONFIRMED"), i) \in Nat
    BY <1>1, <1>2 DEF TypeOK
  <2>4. available'[i] = available[i] + Quantity(A, i)
    BY <1>3
  <2> QED BY <2>1, <2>2, <2>3, <2>4
<1>6. ReservedIsHeld' BY <1>1, <1>3 DEF ReservedIsHeld
<1>7. StockConserved'
  <2> SUFFICES ASSUME NEW i \in Inventories
               PROVE  available'[i] + reserved'[i] + Quantity(RowsIn("CONFIRMED"), i)' = supplied'[i]
    BY DEF StockConserved
  <2>1. available[i] + reserved[i] + Quantity(RowsIn("CONFIRMED"), i) = supplied[i]
    BY DEF StockInv, StockConserved
  <2>2. supplied' = supplied BY DEF ReleaseActive
  <2>3. /\ available[i] \in Nat /\ reserved[i] \in Nat
        /\ Quantity(A, i) \in Nat /\ Quantity(RowsIn("CONFIRMED"), i) \in Nat
    BY <1>1, <1>2 DEF TypeOK
  <2>4. /\ reserved'[i] = reserved[i] - Quantity(A, i)
        /\ available'[i] = available[i] + Quantity(A, i)
        /\ Quantity(RowsIn("CONFIRMED"), i)' = Quantity(RowsIn("CONFIRMED"), i)
    BY <1>1, <1>3, <2>2
  <2>5. supplied'[i] = supplied[i] BY <2>2
  <2> QED BY <2>1, <2>3, <2>4, <2>5
<1>8. LedgerBalances'
  <2> SUFFICES ASSUME NEW i \in Inventories
               PROVE  reserved'[i] = ledger'[i].RESERVE - ledger'[i].RELEASE - ledger'[i].COMMIT
    BY DEF LedgerBalances
  <2>1. reserved[i] = ledger[i].RESERVE - ledger[i].RELEASE - ledger[i].COMMIT
    BY DEF StockInv, LedgerBalances
  <2>2. /\ ledger[i] \in [RESERVE : Nat, RELEASE : Nat, COMMIT : Nat]
        /\ reserved[i] \in Nat /\ Quantity(A, i) \in Nat
    BY <1>1, <1>2 DEF TypeOK
  <2>3. /\ reserved'[i] = reserved[i] - Quantity(A, i)
        /\ ledger'[i] = [ledger[i] EXCEPT !.RELEASE = @ + Quantity(A, i)]
    BY <1>3
  <2> QED BY <2>1, <2>2, <2>3
<1> QED BY <1>4, <1>5, <1>6, <1>7, <1>8 DEF StockInv

LEMMA CommitStockInv ==
  ASSUME StockInv, NEW A \in SUBSET RowsIn("RESERVED"),
         CommitActive(A), acked' \subseteq Orders
  PROVE  StockInv'
<1>1. \A i \in Inventories :
        /\ Quantity(A, i) \in Nat
        /\ Quantity(RowsIn("CONFIRMED"), i) \in Nat
        /\ reserved[i] >= Quantity(A, i)
        /\ Quantity(RowsIn("RESERVED"), i)' = reserved[i] - Quantity(A, i)
        /\ Quantity(RowsIn("CONFIRMED"), i)' = Quantity(RowsIn("CONFIRMED"), i) + Quantity(A, i)
  <2>1. "CONFIRMED" \in {"RELEASED", "EXPIRED", "CONFIRMED"}
    OBVIOUS
  <2> QED BY <2>1, MoveReserved DEF CommitActive
<1>2. TypeOK BY DEF StockInv
<1>3. \A i \in Inventories :
        /\ reserved'[i] = reserved[i] - Quantity(A, i)
        /\ ledger'[i] = [ledger[i] EXCEPT !.COMMIT = @ + Quantity(A, i)]
  BY <1>1, <1>2 DEF CommitActive, Greatest0, TypeOK
<1>4. TypeOK'
  <2>1. reserved' \in [Inventories -> Nat]
    BY <1>1, <1>2 DEF CommitActive, Greatest0, TypeOK
  <2>2. ledger' \in [Inventories -> [RESERVE : Nat, RELEASE : Nat, COMMIT : Nat]]
    <3>1. \A i \in Inventories : /\ ledger[i] \in [RESERVE : Nat, RELEASE : Nat, COMMIT : Nat]
                                 /\ ledger[i].COMMIT + Quantity(A, i) \in Nat
      BY <1>1, <1>2 DEF TypeOK
    <3>2. \A i \in Inventories : [ledger[i] EXCEPT !.COMMIT = @ + Quantity(A, i)]
                                   \in [RESERVE : Nat, RELEASE : Nat, COMMIT : Nat]
      BY <3>1
    <3> QED BY <3>2 DEF CommitActive
  <2>3. rStatus' \in [Reservations -> Statuses]
    BY <1>2 DEF CommitActive, TypeOK, Statuses
  <2> QED BY <1>2, <2>1, <2>2, <2>3 DEF CommitActive, TypeOK
<1>5. AbsentIsEmpty' BY DEF StockInv, CommitActive, AbsentIsEmpty
<1>6. ReservedIsHeld' BY <1>1, <1>3 DEF ReservedIsHeld
<1>7. StockConserved'
  <2> SUFFICES ASSUME NEW i \in Inventories
               PROVE  available'[i] + reserved'[i] + Quantity(RowsIn("CONFIRMED"), i)' = supplied'[i]
    BY DEF StockConserved
  <2>1. available[i] + reserved[i] + Quantity(RowsIn("CONFIRMED"), i) = supplied[i]
    BY DEF StockInv, StockConserved
  <2>2. supplied' = supplied /\ available' = available BY DEF CommitActive
  <2>3. /\ available[i] \in Nat /\ reserved[i] \in Nat
        /\ Quantity(A, i) \in Nat /\ Quantity(RowsIn("CONFIRMED"), i) \in Nat
    BY <1>1, <1>2 DEF TypeOK
  <2>4. /\ reserved'[i] = reserved[i] - Quantity(A, i)
        /\ available'[i] = available[i]
        /\ Quantity(RowsIn("CONFIRMED"), i)' = Quantity(RowsIn("CONFIRMED"), i) + Quantity(A, i)
    BY <1>1, <1>3, <2>2
  <2>5. supplied'[i] = supplied[i] BY <2>2
  <2> QED BY <2>1, <2>3, <2>4, <2>5
<1>8. LedgerBalances'
  <2> SUFFICES ASSUME NEW i \in Inventories
               PROVE  reserved'[i] = ledger'[i].RESERVE - ledger'[i].RELEASE - ledger'[i].COMMIT
    BY DEF LedgerBalances
  <2>1. reserved[i] = ledger[i].RESERVE - ledger[i].RELEASE - ledger[i].COMMIT
    BY DEF StockInv, LedgerBalances
  <2>2. /\ ledger[i] \in [RESERVE : Nat, RELEASE : Nat, COMMIT : Nat]
        /\ reserved[i] \in Nat /\ Quantity(A, i) \in Nat
    BY <1>1, <1>2 DEF TypeOK
  <2>3. /\ reserved'[i] = reserved[i] - Quantity(A, i)
        /\ ledger'[i] = [ledger[i] EXCEPT !.COMMIT = @ + Quantity(A, i)]
    BY <1>3
  <2> QED BY <2>1, <2>2, <2>3
<1> QED BY <1>4, <1>5, <1>6, <1>7, <1>8 DEF StockInv

\* What the handlers pass on is RESERVED.
LEMMA ActiveIsReserved ==
  \A R \in SUBSET Reservations : Active(R) \in SUBSET RowsIn("RESERVED")
BY DEF Active, RowsIn

LEMMA SettleStock ==
  ASSUME StockInv, Settle
  PROVE  StockInv'
<1> USE ActiveIsReserved
<1>1. TypeOK BY DEF StockInv
<1>2. ASSUME NEW R \in SUBSET Reservations, ReleaseStock(R) PROVE StockInv'
  <2>1. ReleaseActive(Active(R), "RELEASED") /\ UNCHANGED <<scan, acked>>
    BY <1>2 DEF ReleaseStock
  <2>2. scan' \in [Workers -> SUBSET Reservations] /\ acked' \subseteq Orders
    BY <1>1, <2>1 DEF TypeOK
  <2> QED BY <2>1, <2>2, ReleaseStockInv
<1>3. ASSUME NEW R \in SUBSET Reservations, CommitStock(R) PROVE StockInv'
  <2>1. CommitActive(Active(R)) /\ UNCHANGED acked
    BY <1>3 DEF CommitStock
  <2>2. acked' \subseteq Orders
    BY <1>1, <2>1 DEF TypeOK
  <2> QED BY <2>1, <2>2, CommitStockInv
<1>4. ASSUME NEW o \in Orders, HandleOrderConfirmed(o) PROVE StockInv'
  <2>1. acked' \subseteq Orders
    BY <1>1, <1>4 DEF TypeOK, HandleOrderConfirmed
  <2>2. CASE CommitActive(Active(RowsOfOrder(o)))
    <3>1. RowsOfOrder(o) \in SUBSET Reservations BY DEF RowsOfOrder
    <3> QED BY <2>1, <2>2, <3>1, CommitStockInv
  <2>3. CASE UNCHANGED <<stock, resv, call, failure, scan, outbox, supplies>>
    <3>1. TypeOK' BY <1>1, <2>1, <2>3 DEF TypeOK, stock, resv
    <3> QED BY <2>3, <3>1, SameBooks DEF resv
  <2> QED BY <1>4, <2>2, <2>3 DEF HandleOrderConfirmed
<1>5. \A o \in Orders : RowsOfOrder(o) \in SUBSET Reservations BY DEF RowsOfOrder
<1>6. \A r \in Reservations : {r} \in SUBSET Reservations OBVIOUS
<1> QED BY <1>2, <1>3, <1>4, <1>5, <1>6 DEF Settle

LEMMA ExpiryStock ==
  ASSUME StockInv,
         \/ \E r \in Reservations : Expires(r)
         \/ \E w \in Workers : ExpireScan(w) \/ ExpireStep(w)
  PROVE  StockInv'
<1>1. TypeOK BY DEF StockInv
<1>2. ASSUME NEW r \in Reservations, Expires(r) PROVE StockInv'
  <2>1. TypeOK' BY <1>1, <1>2 DEF TypeOK, Expires, stock, procs
  <2> QED BY <1>2, <2>1, SameBooks DEF Expires
<1>3. ASSUME NEW w \in Workers, ExpireScan(w) PROVE StockInv'
  <2>1. Overdue \in SUBSET Reservations BY DEF Overdue
  <2>2. TypeOK' BY <1>1, <1>3, <2>1 DEF TypeOK, ExpireScan, stock, resv
  <2> QED BY <1>3, <2>2, SameBooks DEF ExpireScan, resv
<1>4. ASSUME NEW w \in Workers, NEW r \in Reservations, ReleaseExpired(w, r) PROVE StockInv'
  <2>1. scan' \in [Workers -> SUBSET Reservations] /\ acked' \subseteq Orders
    BY <1>1, <1>4 DEF TypeOK, ReleaseExpired
  <2>2. CASE Active({r}) # {}
    <3>1. {r} \in SUBSET RowsIn("RESERVED") BY <2>2 DEF Active, RowsIn
    <3>2. ReleaseActive({r}, "EXPIRED") BY <1>4, <2>2 DEF ReleaseExpired
    <3> QED BY <2>1, <3>1, <3>2, ReleaseStockInv
  <2>3. CASE Active({r}) = {}
    <3>1. UNCHANGED <<stock, resv, call, failure, outbox, supplies>>
      BY <1>4, <2>3 DEF ReleaseExpired
    <3>2. TypeOK' BY <1>1, <2>1, <3>1 DEF TypeOK, stock, resv
    <3> QED BY <3>1, <3>2, SameBooks DEF resv
  <2> QED BY <2>2, <2>3
<1> QED BY <1>2, <1>3, <1>4 DEF ExpireStep

\* StockInv holds in every state, for any rows, orders, callers and workers.
THEOREM StockInvariant == Spec => []StockInv
<1>1. Init => StockInv BY InitStock
<1>2. StockInv /\ [Next]_vars => StockInv'
  <2> SUFFICES ASSUME StockInv, [Next]_vars PROVE StockInv'
    OBVIOUS
  <2>1. CASE Supply
    <3>1. \A i \in Inventories, q \in SupplyQuantities : Create(i, q) => StockInv'
      BY CreateStock
    <3>2. \A i \in Inventories, q \in Nat :
            Restock(i, q) \/ UpdateStock(i, q) => StockInv'
      BY SupplyStock
    <3> QED BY <2>1, <3>1, <3>2, Bounds DEF Supply
  <2>2. CASE Reserve
    BY <2>2, CallStock, ReserveStockStock DEF Reserve
  <2>3. CASE Settle
    BY <2>3, SettleStock
  <2>4. CASE \/ \E r \in Reservations : Expires(r)
             \/ \E w \in Workers : ExpireScan(w) \/ ExpireStep(w)
    BY <2>4, ExpiryStock
  <2>5. CASE UNCHANGED vars
    <3>1. TypeOK' BY <2>5 DEF vars, stock, resv, procs, StockInv, TypeOK
    <3> QED BY <2>5, <3>1, SameBooks DEF vars, resv
  <2> QED BY <2>1, <2>2, <2>3, <2>4, <2>5 DEF Next
<1> QED BY <1>1, <1>2, PTL DEF Spec

\* Types; in particular available_quantity and reserved_quantity never go below
\* zero, so neither CHECK of the inventories table is ever hit.
THEOREM InventoryTypeCorrect == Spec => []TypeOK
<1>1. StockInv => TypeOK BY DEF StockInv
<1> QED BY <1>1, StockInvariant, PTL

\* reserved_quantity is the sum of the RESERVED reservations: GREATEST(..., 0) in
\* ReleaseStock and CommitStock never hides a difference.
THEOREM ReservedIsAlwaysHeld == Spec => []ReservedIsHeld
<1>1. StockInv => ReservedIsHeld BY DEF StockInv
<1> QED BY <1>1, StockInvariant, PTL

\* No unit is lost or made by racing reservations, releases, commits and expiry.
THEOREM StockIsConserved == Spec => []StockConserved
<1>1. StockInv => StockConserved BY DEF StockInv
<1> QED BY <1>1, StockInvariant, PTL

\* The ledger of inventory_transactions accounts for reserved_quantity.
THEOREM LedgerAlwaysBalances == Spec => []LedgerBalances
<1>1. StockInv => LedgerBalances BY DEF StockInv
<1> QED BY <1>1, StockInvariant, PTL

-----------------------------------------------------------------------------
(* Settled reservations and the events about them *)

SettleOnce ==
  \A r \in Reservations :
    rStatus[r] \in {"CONFIRMED", "RELEASED", "EXPIRED"} => rStatus'[r] = rStatus[r]

\* No step changes a settled reservation.
LEMMA StepSettlesOnce ==
  ASSUME TypeOK, [Next]_vars
  PROVE  SettleOnce
<1> SUFFICES ASSUME NEW s \in Reservations,
                    rStatus[s] \in {"CONFIRMED", "RELEASED", "EXPIRED"}
             PROVE  rStatus'[s] = rStatus[s]
  BY DEF SettleOnce
<1> USE DEF TypeOK
<1>1. CASE Supply BY <1>1 DEF Supply, Create, Restock, UpdateStock, resv
<1>2. CASE Reserve BY <1>2 DEF Reserve, ReserveCheck, ReserveFails, ReserveStock, resv
<1>3. CASE Settle
  <2>1. \A R : s \notin Active(R) BY DEF Active
  <2>2. ASSUME NEW R, ReleaseStock(R) PROVE rStatus'[s] = rStatus[s]
    BY <2>1, <2>2 DEF ReleaseStock, ReleaseActive
  <2>3. ASSUME NEW R, CommitStock(R) PROVE rStatus'[s] = rStatus[s]
    BY <2>1, <2>3 DEF CommitStock, CommitActive
  <2>4. ASSUME NEW o \in Orders, HandleOrderConfirmed(o) PROVE rStatus'[s] = rStatus[s]
    BY <2>1, <2>4 DEF HandleOrderConfirmed, CommitActive, resv
  <2> QED BY <1>3, <2>2, <2>3, <2>4 DEF Settle
<1>4. CASE \E r \in Reservations : Expires(r) BY <1>4 DEF Expires
<1>5. CASE \E w \in Workers : ExpireScan(w) \/ ExpireStep(w)
  <2>1. ASSUME NEW w \in Workers, ExpireScan(w) PROVE rStatus'[s] = rStatus[s]
    BY <2>1 DEF ExpireScan, resv
  <2>2. ASSUME NEW w \in Workers, NEW r \in Reservations, ReleaseExpired(w, r)
        PROVE  rStatus'[s] = rStatus[s]
    <3>1. r = s => Active({r}) = {} BY DEF Active
    <3> QED BY <2>2, <3>1 DEF ReleaseExpired, ReleaseActive, resv
  <2> QED BY <1>5, <2>1, <2>2 DEF ExpireStep
<1>6. CASE UNCHANGED vars BY <1>6 DEF vars, resv
<1> QED BY <1>1, <1>2, <1>3, <1>4, <1>5, <1>6 DEF Next

\* A settled reservation never changes again, however release, commit and expiry
\* of it race.
THEOREM ReservationsSettleOnce == Spec => SettledStays
<1>1. TypeOK /\ [Next]_vars => SettleOnce BY StepSettlesOnce
<1> QED BY <1>1, InventoryTypeCorrect, PTL DEF Spec, SettledStays, SettleOnce

\* An event about a reservation says how it was settled.
EventsMatch ==
  \A r \in Reservations :
    /\ <<"InventoryReleased", r>> \in outbox => rStatus[r] \in {"RELEASED", "EXPIRED"}
    /\ <<"InventoryCommitted", r>> \in outbox => rStatus[r] = "CONFIRMED"

\* The two kinds of event are written with the change they report only.
LEMMA StepEvents ==
  ASSUME TypeOK, [Next]_vars, NEW s \in Reservations
  PROVE  /\ <<"InventoryReleased", s>> \in outbox' =>
              <<"InventoryReleased", s>> \in outbox \/ rStatus'[s] \in {"RELEASED", "EXPIRED"}
         /\ <<"InventoryCommitted", s>> \in outbox' =>
              <<"InventoryCommitted", s>> \in outbox \/ rStatus'[s] = "CONFIRMED"
<1> DEFINE Goal ==
      /\ <<"InventoryReleased", s>> \in outbox' =>
           <<"InventoryReleased", s>> \in outbox \/ rStatus'[s] \in {"RELEASED", "EXPIRED"}
      /\ <<"InventoryCommitted", s>> \in outbox' =>
           <<"InventoryCommitted", s>> \in outbox \/ rStatus'[s] = "CONFIRMED"
<1> SUFFICES Goal OBVIOUS
<1>1. CASE Supply BY <1>1 DEF Supply, Create, Restock, UpdateStock, LowEvents
<1>2. CASE Reserve BY <1>2 DEF Reserve, ReserveCheck, ReserveFails, ReserveStock, LowEvents
<1>3. CASE Settle
  <2>1. ASSUME NEW R, ReleaseStock(R) PROVE Goal
    BY <2>1 DEF ReleaseStock, ReleaseActive
  <2>2. ASSUME NEW R, CommitStock(R) PROVE Goal
    BY <2>2 DEF CommitStock, CommitActive
  <2>3. ASSUME NEW o \in Orders, HandleOrderConfirmed(o) PROVE Goal
    BY <2>3 DEF HandleOrderConfirmed, CommitActive
  <2> QED BY <1>3, <2>1, <2>2, <2>3 DEF Settle
<1>4. CASE \E r \in Reservations : Expires(r) BY <1>4 DEF Expires
<1>5. CASE \E w \in Workers : ExpireScan(w) \/ ExpireStep(w)
  <2>1. ASSUME NEW w \in Workers, ExpireScan(w) PROVE Goal
    BY <2>1 DEF ExpireScan
  <2>2. ASSUME NEW w \in Workers, NEW r \in Reservations, ReleaseExpired(w, r) PROVE Goal
    <3>1. CASE outbox' = outbox BY <3>1
    <3>2. CASE ReleaseActive({r}, "EXPIRED") BY <3>2 DEF ReleaseActive
    <3> QED BY <2>2, <3>1, <3>2 DEF ReleaseExpired
  <2> QED BY <1>5, <2>1, <2>2 DEF ExpireStep
<1>6. CASE UNCHANGED vars BY <1>6 DEF vars
<1> QED BY <1>1, <1>2, <1>3, <1>4, <1>5, <1>6 DEF Next

\* No reservation is announced both as released and as committed.
THEOREM NeverReleasedAndCommitted == Spec => []ReleasedXorCommitted
<1>1. Init => EventsMatch BY DEF Init, EventsMatch
<1>2. TypeOK /\ EventsMatch /\ [Next]_vars => EventsMatch'
  <2> SUFFICES ASSUME TypeOK, EventsMatch, [Next]_vars, NEW s \in Reservations
               PROVE  /\ <<"InventoryReleased", s>> \in outbox' =>
                           rStatus'[s] \in {"RELEASED", "EXPIRED"}
                      /\ <<"InventoryCommitted", s>> \in outbox' => rStatus'[s] = "CONFIRMED"
    BY DEF EventsMatch
  <2>1. SettleOnce BY StepSettlesOnce
  <2> QED BY <2>1, StepEvents DEF EventsMatch, SettleOnce
<1>3. EventsMatch => ReleasedXorCommitted BY DEF EventsMatch, ReleasedXorCommitted
<1> QED BY <1>1, <1>2, <1>3, InventoryTypeCorrect, PTL DEF Spec

\* The books of every row agree, with any number of rows, orders, callers and workers.
THEOREM BooksAlwaysBalance == Spec => []BooksBalance
<1>1. StockInv => BooksBalance BY DEF StockInv, BooksBalance
<1> QED BY <1>1, StockInvariant, PTL

-----------------------------------------------------------------------------
(***************************************************************************)
(* inventory-service in the purchase of an order.  order-service,          *)
(* payment-service and inventory-service share no transaction; whatever    *)
(* their steps and their late, repeated and reordered events do, together  *)
(* they implement Checkout, for any number of orders, requests, handlers   *)
(* and reservations.                                                       *)
(*                                                                         *)
(* SagaInv says what each service may rely on: a handler that is about to  *)
(* announce a sale has a payment that is booked, an order that announced   *)
(* one is past payment or closed, and payments and reservations are only   *)
(* made for orders that were placed.  That a payment announced as          *)
(* successful counts as paid is ChargeInvariant of Payment_proofs, whose   *)
(* specification the payment steps refine.                                 *)
(***************************************************************************)

CONSTANTS Calls, OrderKeyOf, UserOf, Stores, Procs, MaxErrors, Consumer, ByHand, Requests,
          FromEvents, PayKeyOf, OrderOf, Price, Providers, MaxFaults, IdOf
VARIABLES oPhase, oAnswer, oStatus, oPayment, oHistory, oEvents, oProc, oErrors, provider, pc,
          ans, pStatus, pCreated, pEvents, gw, calls, rpc, seen, rfStatus, rfEvents, known, gwr,
          refresh, processed, faults

S == INSTANCE CheckoutSaga

\* The state of Checkout: the refinement mapping of CheckoutSaga.
orderOf == [o \in S!Orders |-> S!OrderState(o)]
bookedOf == [o \in S!Orders |-> S!Booked(o)]
goodsOf == [o \in S!Orders |-> S!GoodsState(o)]

-----------------------------------------------------------------------------
(* order-service *)

Open == {"CREATED", "PENDING_PAYMENT"}
Closed == {"CANCELLED", "PAYMENT_FAILED"}
Past == S!O!Statuses \ (Open \cup Closed)

\* What an order announces about its sale fits its status.
OrderFits(o) ==
  /\ oStatus[o] = "none" => oEvents[o] = <<>>
  /\ S!OrderSays(o, "OrderConfirmed") => oStatus[o] \in Past \cup Closed

\* A write that announces a sale is for an order whose payment is booked.
WriteFits(w) ==
  /\ w \in S!O!Writes
  /\ w.event = "OrderConfirmed" => w.to = "CONFIRMED" /\ bookedOf[w.order]
  /\ w.event = "OrderCancelled" => w.to = "CANCELLED"

SalesInv ==
  /\ oStatus \in [S!Orders -> S!O!Statuses \cup {"none"}]
  /\ oEvents \in [S!Orders -> Seq(S!O!EventTypes)]
  /\ oProc \in [Procs -> SUBSET S!O!Writes]
  /\ \A o \in S!Orders : OrderFits(o)
  /\ \A p \in Procs : \A w \in oProc[p] : WriteFits(w)

\* OrderState by the status and the events.
StateIs(st, announced) ==
  IF st = "none" THEN "none"
  ELSE IF st \in Open THEN "open"
  ELSE IF st \in Closed THEN IF announced THEN "revoked" ELSE "closed"
  ELSE IF announced THEN "sold" ELSE "granted"

LEMMA OrderStates ==
  ASSUME NEW o \in S!Orders
  PROVE  /\ S!OrderState(o) = StateIs(oStatus[o], S!OrderSays(o, "OrderConfirmed"))
         /\ S!OrderState(o)' = StateIs(oStatus'[o], S!OrderSays(o, "OrderConfirmed")')
BY DEF S!OrderState, StateIs, Open, Closed

\* One more event, or none.
LEMMA Says ==
  ASSUME NEW o \in S!Orders, NEW e \in S!O!EventTypes \cup {"none"}, NEW f \in S!O!EventTypes,
         oEvents[o] \in Seq(S!O!EventTypes),
         oEvents'[o] = IF e = "none" THEN oEvents[o] ELSE Append(oEvents[o], e)
  PROVE  /\ S!OrderSays(o, f)' <=> (S!OrderSays(o, f) \/ f = e)
         /\ oEvents'[o] \in Seq(S!O!EventTypes)
<1>1. CASE e = "none"
  BY <1>1 DEF S!OrderSays, S!O!EventTypes
<1>2. CASE e # "none"
  <2>1. Len(oEvents'[o]) = Len(oEvents[o]) + 1 /\ DOMAIN oEvents'[o] = 1..(Len(oEvents[o]) + 1)
        /\ oEvents'[o][Len(oEvents[o]) + 1] = e /\ DOMAIN oEvents[o] = 1..Len(oEvents[o])
        /\ \A n \in 1..Len(oEvents[o]) : oEvents'[o][n] = oEvents[o][n]
        /\ Len(oEvents[o]) \in Nat
    BY <1>2
  <2>2. oEvents'[o] \in Seq(S!O!EventTypes)
    BY <1>2
  <2> QED BY <2>1, <2>2 DEF S!OrderSays
<1> QED BY <1>1, <1>2

\* The state machine, seen from the sale.
LEMMA SaleMoves ==
  ASSUME NEW s, NEW t \in S!O!Successors(s)
  PROVE  \/ s \in Open /\ t \in S!O!Statuses
         \/ s \in Past /\ t \in Past \cup {"CANCELLED"}
BY DEF S!O!Successors, Open, Closed, Past, S!O!Statuses

\* What Checkout says of an order that is written: it is granted by hand, sold when it is
\* paid, or closed.
SaleMove(o) ==
  \/ orderOf' = orderOf
  \/ orderOf[o] = "open" /\ orderOf' = [orderOf EXCEPT ![o] = "granted"]
  \/ /\ orderOf[o] \in {"open", "granted"} /\ bookedOf[o]
     /\ orderOf' = [orderOf EXCEPT ![o] = "sold"]
  \/ /\ orderOf[o] \in {"open", "granted"}
     /\ orderOf' = [orderOf EXCEPT ![o] = "closed"]
  \/ orderOf[o] = "sold" /\ orderOf' = [orderOf EXCEPT ![o] = "revoked"]

LEMMA WriteSale ==
  ASSUME SalesInv, NEW p \in Procs, NEW w \in oProc[p],
         S!O!WriteStatus(p, w) \/ S!O!WriteCancel(p, w), bookedOf' = bookedOf
  PROVE  /\ SalesInv' /\ SaleMove(w.order) /\ w.order \in S!Orders
         /\ \A o \in S!Orders : oStatus[o] # "none" => oStatus'[o] # "none"
<1> DEFINE o == w.order
           s == oStatus[o]
           said == S!OrderSays(o, "OrderConfirmed")
<1>1. WriteFits(w) /\ w \in S!O!Writes /\ o \in S!Orders /\ w.to \in S!O!Statuses
      /\ w.event \in S!O!EventTypes \cup {"none"}
  BY DEF SalesInv, WriteFits, S!O!Writes, S!O!None, S!Orders, S!O!Orders
<1>2. w.to \in S!O!Successors(s)
  <2>1. S!O!CanCancel(s) => "CANCELLED" \in S!O!Successors(s)
    BY DEF S!O!CanCancel, S!O!Successors
  <2> QED BY <1>1, <2>1 DEF S!O!WriteStatus, S!O!WriteCancel, S!O!IsValidTransition, WriteFits
<1>3. /\ oStatus' = [oStatus EXCEPT ![o] = w.to]
      /\ oEvents' = [oEvents EXCEPT ![o] =
                       IF w.event = "none" THEN oEvents[o] ELSE Append(oEvents[o], w.event)]
      /\ oProc' = [oProc EXCEPT ![p] = {}]
  BY DEF S!O!WriteStatus, S!O!WriteCancel, S!O!Change, S!O!None
<1>4. /\ oStatus'[o] = w.to
      /\ oEvents'[o] = IF w.event = "none" THEN oEvents[o] ELSE Append(oEvents[o], w.event)
      /\ \A x \in S!Orders \ {o} : oStatus'[x] = oStatus[x] /\ oEvents'[x] = oEvents[x]
      /\ oStatus' \in [S!Orders -> S!O!Statuses \cup {"none"}]
      /\ DOMAIN oEvents' = S!Orders
  BY <1>1, <1>3 DEF SalesInv
<1>5. /\ said' <=> (said \/ w.event = "OrderConfirmed")
      /\ oEvents'[o] \in Seq(S!O!EventTypes)
  <2>1. oEvents[o] \in Seq(S!O!EventTypes) /\ "OrderConfirmed" \in S!O!EventTypes
    BY <1>1 DEF SalesInv, S!O!EventTypes
  <2> QED BY <1>1, <1>4, <2>1, Says
<1>6. \A x \in S!Orders \ {o} :
        /\ S!OrderSays(x, "OrderConfirmed")' <=> S!OrderSays(x, "OrderConfirmed")
        /\ S!OrderState(x)' = S!OrderState(x)
  BY <1>4 DEF S!OrderSays, S!OrderState
<1>7. s \in Open \/ (s \in Past /\ w.to \in Past \cup {"CANCELLED"})
  BY <1>2, SaleMoves
<1>8. SalesInv'
  <2>1. oEvents' \in [S!Orders -> Seq(S!O!EventTypes)]
    <3>1. oEvents' = [x \in S!Orders |-> oEvents'[x]]
      BY <1>3 DEF SalesInv
    <3>2. \A x \in S!Orders : oEvents'[x] \in Seq(S!O!EventTypes)
      BY <1>4, <1>5 DEF SalesInv
    <3> QED BY <3>1, <3>2
  <2>2. oProc' \in [Procs -> SUBSET S!O!Writes] /\ \A q \in Procs : oProc'[q] \subseteq oProc[q]
    BY <1>3 DEF SalesInv
  <2>3. \A q \in Procs : \A v \in oProc'[q] : WriteFits(v)'
    BY <2>2 DEF SalesInv, WriteFits
  <2>4. \A x \in S!Orders \ {o} : OrderFits(x)'
    BY <1>4, <1>6 DEF SalesInv, OrderFits
  <2>5. OrderFits(o)'
    BY <1>1, <1>4, <1>5, <1>7 DEF SalesInv, OrderFits, WriteFits, Open, Closed, Past, S!O!Statuses
  <2> QED BY <1>4, <2>1, <2>2, <2>3, <2>4, <2>5 DEF SalesInv
<1>9. /\ S!OrderState(o) = StateIs(s, said)
      /\ S!OrderState(o)' = StateIs(w.to, said')
  BY <1>1, <1>4, OrderStates
<1>10. orderOf' = [orderOf EXCEPT ![o] = S!OrderState(o)'] /\ orderOf[o] = S!OrderState(o)
  BY <1>1, <1>6 DEF orderOf
<1>11. \/ S!OrderState(o)' = S!OrderState(o)
       \/ S!OrderState(o) = "open" /\ S!OrderState(o)' = "granted"
       \/ S!OrderState(o) \in {"open", "granted"} /\ bookedOf[o] /\ S!OrderState(o)' = "sold"
       \/ S!OrderState(o) \in {"open", "granted"} /\ S!OrderState(o)' = "closed"
       \/ S!OrderState(o) = "sold" /\ S!OrderState(o)' = "revoked"
  <2>1. /\ said => s \in Past \cup Closed
        /\ w.event = "OrderConfirmed" => w.to = "CONFIRMED" /\ bookedOf[o]
    BY <1>1 DEF SalesInv, OrderFits, WriteFits
  <2>2. CASE s \in Open
    <3>1. ~said /\ StateIs(s, said) = "open"
      BY <2>1, <2>2 DEF Open, Closed, Past, StateIs
    <3>2. CASE w.event = "OrderConfirmed"
      BY <1>5, <1>9, <2>1, <3>1, <3>2 DEF StateIs, Open, Closed
    <3>3. CASE w.event # "OrderConfirmed"
      <4>1. StateIs(w.to, said') \in {"open", "closed", "granted"}
        BY <1>1, <1>5, <3>1, <3>3 DEF StateIs, S!O!Statuses
      <4> QED BY <1>9, <3>1, <4>1
    <3> QED BY <3>2, <3>3
  <2>3. CASE s \in Past
    <3>1. StateIs(s, said) = IF said THEN "sold" ELSE "granted"
      BY <2>3 DEF StateIs, Past, Open, Closed, S!O!Statuses
    <3>2. CASE w.to = "CANCELLED"
      BY <1>5, <1>9, <2>1, <3>1, <3>2 DEF StateIs, Open, Closed
    <3>3. CASE w.to \in Past
      <4>1. StateIs(w.to, said') = IF said' THEN "sold" ELSE "granted"
        BY <3>3 DEF StateIs, Past, Open, Closed, S!O!Statuses
      <4> QED BY <1>5, <1>9, <2>1, <3>1, <4>1
    <3> QED BY <1>7, <2>3, <3>2, <3>3 DEF Past
  <2> QED BY <1>7, <2>2, <2>3
<1>12. \A x \in S!Orders : oStatus[x] # "none" => oStatus'[x] # "none"
  BY <1>1, <1>4 DEF S!O!Statuses
<1>13. SaleMove(o)
  <2>1. S!OrderState(o)' = S!OrderState(o) => orderOf' = orderOf
    BY <1>10 DEF orderOf
  <2> HIDE DEF o
  <2> QED BY <1>10, <1>11, <2>1 DEF SaleMove
<1> QED BY <1>1, <1>8, <1>12, <1>13

\* CreateOrdersWithOutbox places the orders of the call, which nobody has placed before.
LEMMA CreateSale ==
  ASSUME S!SagaAssumption, SalesInv, NEW c \in Calls, S!O!CreateStep(c), bookedOf' = bookedOf
  PROVE  /\ SalesInv'
         /\ \/ orderOf' = orderOf
            \/ \E new \in SUBSET S!Orders :
                 /\ new # {} /\ \A o \in new : orderOf[o] = "none"
                 /\ orderOf' = [o \in S!Orders |-> IF o \in new THEN "open" ELSE orderOf[o]]
         /\ \A o \in S!Orders : oStatus[o] # "none" => oStatus'[o] # "none"
<1>1. CASE S!O!CheckKey(c) \/ S!O!InsertRejected(c)
  BY <1>1 DEF S!O!CheckKey, S!O!InsertRejected, S!O!life, SalesInv, OrderFits, WriteFits,
     S!OrderSays, orderOf,
     S!OrderState
<1>2. CASE S!O!CreateOrdersWithOutbox(c)
  <2> DEFINE own == {o \in S!Orders : o[1] = c}
  <2>1. /\ oStatus' = [o \in S!Orders |-> IF o \in own THEN "CREATED" ELSE oStatus[o]]
        /\ oEvents' = [o \in S!Orders |-> IF o \in own THEN <<"OrderCreated">> ELSE oEvents[o]]
        /\ oProc' = oProc
    BY <1>2 DEF S!O!CreateOrdersWithOutbox, S!O!Orders, S!Orders
  <2>2. \A o \in own : oStatus[o] = "none"
    <3>1. S!O!HoldersOf(OrderKeyOf[c]) = {}
      BY <1>2 DEF S!O!CreateOrdersWithOutbox, S!O!KeyTaken
    <3>2. \A s \in Stores : oStatus[<<c, s>>] = "none"
      BY <3>1 DEF S!O!HoldersOf, S!O!Exists, S!O!None
    <3> QED BY <3>2 DEF S!Orders
  <2>3. own # {} /\ own \in SUBSET S!Orders
    <3>1. PICK s \in Stores : TRUE
      BY DEF S!SagaAssumption, S!O!OrderAssumption
    <3>2. <<c, s>> \in own
      BY <3>1 DEF S!Orders
    <3> QED BY <3>2
  <2>4. \A o \in S!Orders :
          S!OrderSays(o, "OrderConfirmed")' <=> (o \notin own /\ S!OrderSays(o, "OrderConfirmed"))
    <3> TAKE o \in S!Orders
    <3>1. CASE o \in own
      <4>1. oEvents'[o] = <<"OrderCreated">>
        BY <2>1, <3>1
      <4> QED BY <3>1, <4>1 DEF S!OrderSays
    <3>2. CASE o \notin own
      BY <3>2, <2>1 DEF S!OrderSays
    <3> QED BY <3>1, <3>2
  <2>5. \A o \in S!Orders : OrderFits(o)'
    BY <2>1, <2>4 DEF SalesInv, OrderFits, Open, Closed, Past, S!O!Statuses
  <2>6. oEvents' \in [S!Orders -> Seq(S!O!EventTypes)]
    <3>1. <<"OrderCreated">> \in Seq(S!O!EventTypes)
      BY DEF S!O!EventTypes
    <3> QED BY <2>1, <3>1 DEF SalesInv
  <2>7. oStatus' \in [S!Orders -> S!O!Statuses \cup {"none"}]
    BY <2>1 DEF SalesInv, S!O!Statuses
  <2>8. SalesInv'
    BY <2>1, <2>5, <2>6, <2>7 DEF SalesInv, WriteFits
  <2>9. \A o \in S!Orders : S!OrderState(o)' = IF o \in own THEN "open" ELSE S!OrderState(o)
    BY <2>1, <2>4 DEF S!OrderState
  <2>10. /\ \A o \in own : orderOf[o] = "none"
         /\ orderOf' = [o \in S!Orders |-> IF o \in own THEN "open" ELSE orderOf[o]]
    BY <2>2, <2>9 DEF orderOf, S!OrderState
  <2>11. \A o \in S!Orders : oStatus[o] # "none" => oStatus'[o] # "none"
    BY <2>1
  <2> QED BY <2>3, <2>8, <2>10, <2>11
<1> QED BY <1>1, <1>2 DEF S!O!CreateStep

\* A handler that has read an order will write what fits.
LEMMA ReadSale ==
  ASSUME SalesInv, NEW p \in Procs, NEW o \in S!Orders, NEW to \in S!O!Statuses,
         NEW e \in S!O!EventTypes \cup {"none"}, S!O!ReadFor(p, o, to, e),
         e = "OrderConfirmed" => to = "CONFIRMED" /\ bookedOf[o], e = "OrderCancelled" => to = "CANCELLED",
         bookedOf' = bookedOf
  PROVE  SalesInv' /\ orderOf' = orderOf /\ oStatus' = oStatus
<1>1. /\ UNCHANGED <<oStatus, oEvents>>
      /\ oProc' = [oProc EXCEPT ![p] = {[order |-> o, to |-> to, event |-> e]}]
  BY DEF S!O!ReadFor, S!O!life
<1>2. [order |-> o, to |-> to, event |-> e] \in S!O!Writes
  BY DEF S!O!Writes, S!O!Orders, S!Orders, S!O!None
<1>3. WriteFits([order |-> o, to |-> to, event |-> e])'
  BY <1>2 DEF WriteFits
<1>4. oProc' \in [Procs -> SUBSET S!O!Writes]
  BY <1>1, <1>2 DEF SalesInv
<1>5. ASSUME NEW q \in Procs, NEW w \in oProc'[q] PROVE WriteFits(w)'
  <2>1. CASE q = p
    BY <1>1, <1>3, <2>1 DEF SalesInv
  <2>2. CASE q # p
    BY <1>1, <2>2 DEF SalesInv, WriteFits
  <2> QED BY <2>1, <2>2
<1> QED BY <1>1, <1>4, <1>5 DEF SalesInv, OrderFits, S!OrderSays, orderOf, S!OrderState

LEMMA GiveUpSale ==
  ASSUME SalesInv, NEW p \in Procs, S!O!GiveUp(p), bookedOf' = bookedOf
  PROVE  SalesInv' /\ orderOf' = orderOf /\ oStatus' = oStatus
<1>1. UNCHANGED <<oStatus, oEvents>> /\ oProc' = [oProc EXCEPT ![p] = {}]
  BY DEF S!O!GiveUp, S!O!life
<1>2. oProc' \in [Procs -> SUBSET S!O!Writes] /\ \A q \in Procs : oProc'[q] \subseteq oProc[q]
  BY <1>1 DEF SalesInv
<1> QED BY <1>1, <1>2 DEF SalesInv, OrderFits, WriteFits, S!OrderSays, orderOf, S!OrderState

\* The other services write no order, and what is booked stays so.
LEMMA ElsewhereSale ==
  ASSUME SalesInv, UNCHANGED S!oVars, \A o \in S!Orders : bookedOf[o] => bookedOf'[o]
  PROVE  SalesInv' /\ orderOf' = orderOf /\ oStatus' = oStatus
<1>1. UNCHANGED <<oStatus, oEvents, oProc>>
  BY DEF S!oVars
<1>2. \A p \in Procs : \A w \in oProc[p] : w.order \in S!Orders
  BY DEF SalesInv, S!O!Writes, S!O!Orders, S!Orders
<1>3. ASSUME NEW p \in Procs, NEW w \in oProc[p] PROVE WriteFits(w)'
  BY <1>2 DEF SalesInv, WriteFits
<1> QED BY <1>1, <1>3 DEF SalesInv, OrderFits, S!OrderSays, orderOf, S!OrderState


\* payment-service, as CheckoutSaga runs it: without refunds.
PP == INSTANCE Payment_proofs WITH
       KeyOf <- PayKeyOf, status <- pStatus, created <- pCreated, events <- pEvents,
       rStatus <- rfStatus, rEvents <- rfEvents, Refunds <- {}, FromReturns <- {},
       PaymentOf <- <<>>, AmountOf <- <<>>, RefundKeysOf <- <<>>

\* P of CheckoutSaga and PP are one specification.
LEMMA SameRows == 
  /\ S!pVars' = S!pVars => PP!vars' = PP!vars
  /\ S!P!Keys = PP!Keys
BY DEF S!pVars, PP!vars, PP!pay, PP!rows, PP!gateway, PP!refund, PP!hooks, PP!stored, S!P!Keys,
   PP!Keys

LEMMA SameUpdate ==
  ASSUME NEW k, NEW s
  PROVE  S!P!TryUpdate(k, s) <=> PP!TryUpdate(k, s)
BY DEF S!P!TryUpdate, S!P!CanUpdate, S!P!UpdatePaymentStatus, S!P!Transitions, S!P!EventOf,
   S!P!rows, S!P!None,
  PP!TryUpdate, PP!CanUpdate, PP!UpdatePaymentStatus, PP!Transitions, PP!EventOf, PP!rows, PP!None

LEMMA SamePayStep ==
  ASSUME NEW r \in Requests, S!P!PayStep(r)
  PROVE  PP!PayStep(r)
<1> USE DEF S!P!pay, S!P!rows, S!P!gateway, S!P!refund, S!P!hooks, S!P!stored, S!P!None, PP!pay,
PP!rows, PP!gateway, PP!refund, PP!hooks, PP!stored, PP!None
<1>0. ASSUME NEW o PROVE S!P!Latest(o) = PP!Latest(o)
  BY DEF S!P!Latest, PP!Latest, S!P!Last, PP!Last
<1>1. S!P!CheckExisting(r) <=> PP!CheckExisting(r)
  BY <1>0 DEF S!P!CheckExisting, PP!CheckExisting, S!P!MayFail, PP!MayFail
<1>2. S!P!CreatePayment(r) <=> PP!CreatePayment(r)
  BY DEF S!P!CreatePayment, PP!CreatePayment, S!P!PaymentKeyTaken, PP!PaymentKeyTaken
<1>3. S!P!MarkPending(r) <=> PP!MarkPending(r)
  BY SameUpdate DEF S!P!MarkPending, PP!MarkPending, S!P!CanUpdate, PP!CanUpdate, S!P!Transitions,
     PP!Transitions
<1>4. S!P!CallGateway(r) <=> PP!CallGateway(r)
  BY DEF S!P!CallGateway, PP!CallGateway, S!P!Outcomes, PP!Outcomes
<1>5. S!P!RecordAnswer(r) <=> PP!RecordAnswer(r)
  BY SameUpdate DEF S!P!RecordAnswer, PP!RecordAnswer, S!P!StatusOf, PP!StatusOf
<1> QED BY <1>1, <1>2, <1>3, <1>4, <1>5 DEF S!P!PayStep, PP!PayStep

LEMMA SameElse ==
  ASSUME NEW k \in S!P!Keys,
         S!P!CancelPayment(k) \/ S!P!GatewayDecides(k) \/ S!P!HandlePaymentWebhook(k)
  PROVE  PP!CancelPayment(k) \/ PP!GatewayDecides(k) \/ PP!HandlePaymentWebhook(k)
<1> USE DEF S!P!pay, S!P!rows, S!P!gateway, S!P!refund, S!P!hooks, S!P!stored, S!P!None, PP!pay,
PP!rows, PP!gateway, PP!refund, PP!hooks, PP!stored, PP!None
<1>1. S!P!CancelPayment(k) <=> PP!CancelPayment(k)
  BY DEF S!P!CancelPayment, PP!CancelPayment, S!P!UpdatePaymentStatus, PP!UpdatePaymentStatus,
     S!P!EventOf, PP!EventOf
<1>2. S!P!GatewayDecides(k) <=> PP!GatewayDecides(k)
  BY DEF S!P!GatewayDecides, PP!GatewayDecides
<1>3. S!P!HandlePaymentWebhook(k) <=> PP!HandlePaymentWebhook(k)
  BY SameUpdate DEF S!P!HandlePaymentWebhook, PP!HandlePaymentWebhook
<1> QED BY <1>1, <1>2, <1>3

\* Whatever step is made, payment-service makes a step of its own or none.
LEMMA SameNext == [S!Next]_S!vars => [PP!Next]_PP!vars
<1> SUFFICES ASSUME [S!Next]_S!vars PROVE [PP!Next]_PP!vars
  OBVIOUS
<1>1. CASE UNCHANGED S!pVars
  BY <1>1, SameRows
<1>2. ASSUME NEW r \in Requests, S!PaymentRequest(r) \/ S!PaymentAgain(r) PROVE PP!Next
  <2>1. S!P!Redeliver(r) => PP!Redeliver(r)
    BY DEF S!P!Redeliver, PP!Redeliver, S!P!rows, S!P!gateway, S!P!refund, S!P!hooks, S!P!stored,
       PP!rows, PP!gateway, PP!refund, PP!hooks, PP!stored
  <2> QED BY <1>2, <2>1, SamePayStep DEF S!PaymentRequest, S!PaymentAgain, PP!Next
<1>3. ASSUME NEW k \in S!P!Keys, S!PaymentElse(k) PROVE PP!Next
  BY <1>3, SameElse, SameRows DEF S!PaymentElse, PP!Next
<1>4. CASE \E c \in Calls : S!CreateOrder(c)
  BY <1>4, <1>1 DEF S!CreateOrder
<1>5. CASE \E o \in S!Orders :
             \/ S!OrderConsumes(o) \/ S!InventoryCommits(o) \/ S!InventoryReleases(o)
             \/ \E p \in Procs : S!OrderRequest(p, o)
  BY <1>5, <1>1 DEF S!OrderConsumes, S!InventoryCommits, S!InventoryReleases, S!OrderRequest
<1>6. CASE \E p \in Procs : S!OrderWrites(p) \/ S!OrderGivesUp(p)
  BY <1>6, <1>1 DEF S!OrderWrites, S!OrderGivesUp
<1>7. CASE (\E c \in Callers : S!InventoryReserves(c)) \/ S!InventoryRequest \/ S!InventoryTime
  BY <1>7, <1>1 DEF S!InventoryReserves, S!InventoryRequest, S!InventoryTime
<1>8. CASE UNCHANGED S!vars
  BY <1>8, <1>1 DEF S!vars
<1> QED BY <1>2, <1>3, <1>4, <1>5, <1>6, <1>7, <1>8 DEF S!Next

\* So the invariant of Payment_proofs holds in the saga.
LEMMA PayInvariant == S!SagaAssumption => (S!Spec => []PP!Inv)
<1>1. S!P!Init => PP!Init
  BY DEF S!P!Init, PP!Init, S!P!Keys, PP!Keys, S!P!None, PP!None
<1>2. S!SagaAssumption => PP!PaymentAssumption
  BY DEF S!SagaAssumption, S!P!PaymentAssumption, PP!PaymentAssumption, S!P!Keys, PP!Keys,
     S!P!IsFiniteSet, PP!IsFiniteSet
<1>3. PP!PaymentAssumption => (PP!Init /\ [][PP!Next]_PP!vars => []PP!Inv)
  BY PP!ChargeInvariant DEF PP!Spec
<1> QED BY <1>1, <1>2, <1>3, SameNext, PTL DEF S!Spec, S!Init

-----------------------------------------------------------------------------
(* payment-service *)

\* Payments are made for orders that were placed.
PlacedInv ==
  \A k \in S!P!Keys :
    pStatus[k] # "none" /\ OrderOf[k] \in S!Orders => oStatus[OrderOf[k]] # "none"

\* Who is told PaymentSuccessful may count on a booked payment.
LEMMA SuccessIsBooked ==
  ASSUME PP!Inv, NEW o \in S!Orders, S!PaymentSays(o, "PaymentSuccessful")
  PROVE  bookedOf[o]
<1>1. PICK k \in S!P!Keys : OrderOf[k] = o /\ "PaymentSuccessful" \in pEvents[k]
  BY DEF S!PaymentSays
<1>2. pStatus[k] \in S!P!Paid
  BY <1>1, SameRows DEF PP!Inv, PP!VerdictInv, PP!Paid, S!P!Paid
<1> QED BY <1>1, <1>2 DEF bookedOf, S!Booked

\* What a step may do to the payments: nothing, or one of them is created for an order that
\* exists or moves, and one that counts as paid stays so.
PaymentMove ==
  \/ pStatus' = pStatus
  \/ \E k \in S!P!Keys : \E s :
       /\ pStatus' = [pStatus EXCEPT ![k] = s]
       /\ pStatus[k] = "none" => s = "INITIATED" /\ oStatus[OrderOf[k]] # "none"
       /\ pStatus[k] \in S!P!Paid => s \in S!P!Paid

LEMMA UpdateMove == ASSUME NEW k \in S!P!Keys, NEW s, S!P!TryUpdate(k, s) PROVE PaymentMove
<1>1. CASE S!P!CanUpdate(k, s)
  <2>1. pStatus' = [pStatus EXCEPT ![k] = s] /\ pStatus[k] # "none"
    BY <1>1 DEF S!P!TryUpdate, S!P!UpdatePaymentStatus, S!P!CanUpdate, S!P!None
  <2>2. pStatus[k] \in S!P!Paid => s \in S!P!Paid
    BY <1>1 DEF S!P!CanUpdate, S!P!Transitions, S!P!Paid
  <2> QED BY <2>1, <2>2 DEF PaymentMove
<1>2. CASE ~S!P!CanUpdate(k, s)
  BY <1>2 DEF S!P!TryUpdate, S!P!rows, PaymentMove
<1> QED BY <1>1, <1>2

LEMMA PaymentMoves ==
  ASSUME \/ \E r \in Requests : S!PaymentRequest(r) \/ S!PaymentAgain(r)
         \/ \E k \in S!P!Keys : S!PaymentElse(k)
  PROVE  PaymentMove
<1>1. CASE pStatus' = pStatus
  BY <1>1 DEF PaymentMove
<1>2. ASSUME NEW r \in Requests, S!PaymentRequest(r) PROVE PaymentMove
  <2>1. PayKeyOf[r] \in S!P!Keys
    BY DEF S!P!Keys
  <2>2. CASE S!P!CreatePayment(r)
    <3>1. \/ pStatus' = pStatus
          \/ pStatus[PayKeyOf[r]] = "none" /\ pStatus' = [pStatus EXCEPT ![PayKeyOf[r]] = "INITIATED"]
      BY <2>2 DEF S!P!CreatePayment, S!P!PaymentKeyTaken, S!P!rows, S!P!None
    <3>2. oStatus[OrderOf[PayKeyOf[r]]] # "none" /\ "none" \notin S!P!Paid
      BY <1>2 DEF S!PaymentRequest, S!O!Exists, S!O!None, S!P!Paid
    <3> QED BY <1>1, <2>1, <3>1, <3>2 DEF PaymentMove
  <2>3. CASE S!P!MarkPending(r) BY <2>1, <2>3, UpdateMove DEF S!P!MarkPending
  <2>4. CASE S!P!RecordAnswer(r) BY <2>1, <2>4, UpdateMove DEF S!P!RecordAnswer
  <2>5. CASE S!P!CheckExisting(r) \/ S!P!CallGateway(r)
    BY <1>1, <2>5 DEF S!P!CheckExisting, S!P!CallGateway, S!P!rows
  <2> QED BY <1>2, <2>2, <2>3, <2>4, <2>5 DEF S!PaymentRequest, S!P!PayStep
<1>3. ASSUME NEW r \in Requests, S!PaymentAgain(r) PROVE PaymentMove
  BY <1>1, <1>3 DEF S!PaymentAgain, S!P!Redeliver, S!P!rows
<1>4. ASSUME NEW k \in S!P!Keys, S!PaymentElse(k) PROVE PaymentMove
  <2>1. CASE S!P!CancelPayment(k)
    <3>1. pStatus[k] \in {"INITIATED", "PENDING"} /\ pStatus' = [pStatus EXCEPT ![k] = "CANCELLED"]
      BY <2>1 DEF S!P!CancelPayment, S!P!UpdatePaymentStatus
    <3> QED BY <3>1 DEF PaymentMove, S!P!Paid
  <2>2. CASE S!P!GatewayDecides(k) BY <1>1, <2>2 DEF S!P!GatewayDecides, S!P!rows
  <2>3. CASE S!P!HandlePaymentWebhook(k)
    BY <1>1, <2>3, UpdateMove DEF S!P!HandlePaymentWebhook, S!P!rows
  <2> QED BY <1>4, <2>1, <2>2, <2>3 DEF S!PaymentElse
<1> QED BY <1>2, <1>3, <1>4

\* At most one order gets its payment booked, and it was placed.
LEMMA BookMove ==
  ASSUME PP!Inv, PlacedInv, UNCHANGED oStatus, PaymentMove
  PROVE  /\ PlacedInv'
         /\ \/ bookedOf' = bookedOf
            \/ \E o \in S!Orders : /\ oStatus[o] # "none" /\ ~bookedOf[o]
                                   /\ bookedOf' = [bookedOf EXCEPT ![o] = TRUE]
<1>1. CASE pStatus' = pStatus
  BY <1>1 DEF PlacedInv, bookedOf, S!Booked
<1>2. ASSUME NEW k \in S!P!Keys, NEW s, pStatus' = [pStatus EXCEPT ![k] = s],
             pStatus[k] = "none" => s = "INITIATED" /\ oStatus[OrderOf[k]] # "none",
             pStatus[k] \in S!P!Paid => s \in S!P!Paid
      PROVE  /\ PlacedInv'
             /\ \/ bookedOf' = bookedOf
                \/ \E o \in S!Orders : /\ oStatus[o] # "none" /\ ~bookedOf[o]
                                       /\ bookedOf' = [bookedOf EXCEPT ![o] = TRUE]
  <2>1. DOMAIN pStatus = S!P!Keys
    BY SameRows DEF PP!Inv, PP!TypeInv
  <2>2. /\ pStatus'[k] = s /\ \A x \in S!P!Keys \ {k} : pStatus'[x] = pStatus[x]
        /\ OrderOf[k] \in S!Orders => oStatus[OrderOf[k]] # "none"
    BY <1>2, <2>1 DEF PlacedInv
  <2>3. PlacedInv'
    BY <2>2 DEF PlacedInv
  <2>4. \A o \in S!Orders : bookedOf'[o] <=> (bookedOf[o] \/ (o = OrderOf[k] /\ s \in S!P!Paid))
    BY <1>2, <2>2 DEF bookedOf, S!Booked
  <2>5. /\ bookedOf = [o \in S!Orders |-> bookedOf[o]] /\ bookedOf' = [o \in S!Orders |-> bookedOf'[o]]
        /\ \A o \in S!Orders : bookedOf[o] \in BOOLEAN /\ bookedOf'[o] \in BOOLEAN
    BY DEF bookedOf, S!Booked
  <2> QED BY <2>2, <2>3, <2>4, <2>5
<1> QED BY <1>1, <1>2 DEF PaymentMove

\* Whatever leaves the payments alone books nothing.
LEMMA QuietBooks ==
  ASSUME PlacedInv, UNCHANGED S!pVars,
         \A o \in S!Orders : oStatus[o] # "none" => oStatus'[o] # "none"
  PROVE  PlacedInv' /\ bookedOf' = bookedOf
<1>1. pStatus' = pStatus BY DEF S!pVars
<1> QED BY <1>1 DEF PlacedInv, bookedOf, S!Booked

-----------------------------------------------------------------------------
(* inventory-service *)

RowOf(r, o) == rStatus[r] # "none" /\ rOrder[r] = IdOf[o]

Has(o, s) == \E r \in S!I!Reservations : RowOf(r, o) /\ rStatus[r] = s

\* A call that will reserve is for an order that was placed.
GoodsInv ==
  /\ rStatus \in [S!I!Reservations -> S!I!Statuses]
  /\ DOMAIN rOrder = S!I!Reservations /\ rOrder = [r \in S!I!Reservations |-> rOrder[r]]
  /\ DOMAIN call = Callers
  /\ \A c \in Callers : call[c] # S!I!NoOrder =>
       \E o \in S!Orders : IdOf[o] = call[c] /\ oStatus[o] # "none"

\* GoodsState by the rows.
LEMMA GoodsAre ==
  ASSUME NEW o \in S!Orders
  PROVE  /\ S!GoodsState(o) = IF Has(o, "CONFIRMED") THEN "gone"
                            ELSE IF Has(o, "RESERVED") THEN "held" ELSE "free"
         /\ S!GoodsState(o)' = IF Has(o, "CONFIRMED")' THEN "gone"
                             ELSE IF Has(o, "RESERVED")' THEN "held" ELSE "free"
BY DEF S!GoodsState, Has, RowOf, S!I!RowsOfOrder

\* Only the rows of order o change.
LEMMA GoodsFrame ==
  ASSUME NEW o \in S!Orders, NEW g,
         \A x \in S!Orders \ {o} : S!GoodsState(x)' = S!GoodsState(x),
         S!GoodsState(o)' = g
  PROVE  goodsOf' = [goodsOf EXCEPT ![o] = g]
BY DEF goodsOf

LEMMA GoodsSame ==
  ASSUME \A x \in S!Orders : S!GoodsState(x)' = S!GoodsState(x)
  PROVE  goodsOf' = goodsOf
BY DEF goodsOf

\* The rows of one order say nothing about another.
LEMMA Others ==
  ASSUME S!SagaAssumption, GoodsInv, NEW o \in S!Orders, rOrder' = rOrder,
         \A r \in S!I!Reservations : rStatus'[r] # rStatus[r] =>
           rStatus[r] # "none" /\ rStatus'[r] # "none" /\ rOrder[r] = IdOf[o]
  PROVE  \A x \in S!Orders \ {o} : S!GoodsState(x)' = S!GoodsState(x)
<1> TAKE x \in S!Orders \ {o}
<1>1. IdOf[x] # IdOf[o]
  BY DEF S!SagaAssumption
<1>2. \A s \in {"CONFIRMED", "RESERVED"} : Has(x, s)' <=> Has(x, s)
  BY <1>1 DEF Has, RowOf, GoodsInv
<1> QED BY <1>2, GoodsAre

\* Rows of an order are released: what is committed stays gone.
LEMMA ReleaseGoods ==
  ASSUME S!SagaAssumption, GoodsInv, NEW o \in S!Orders, rOrder' = rOrder,
         \A r \in S!I!Reservations : rStatus'[r] # rStatus[r] =>
           /\ rStatus[r] = "RESERVED" /\ rOrder[r] = IdOf[o]
           /\ rStatus'[r] \in {"RELEASED", "EXPIRED"},
         \E r \in S!I!Reservations : rStatus[r] = "RESERVED" /\ rOrder[r] = IdOf[o]
  PROVE  \/ goodsOf' = goodsOf
         \/ goodsOf[o] = "held" /\ goodsOf' = [goodsOf EXCEPT ![o] = "free"]
<1>1. \A x \in S!Orders \ {o} : S!GoodsState(x)' = S!GoodsState(x)
  BY Others
<1>2. Has(o, "RESERVED")
  BY DEF Has, RowOf
<1>3. Has(o, "CONFIRMED")' <=> Has(o, "CONFIRMED")
  BY DEF Has, RowOf, GoodsInv
<1>4. S!GoodsState(o)' = S!GoodsState(o) \/ (S!GoodsState(o) = "held" /\ S!GoodsState(o)' = "free")
  BY <1>2, <1>3, GoodsAre
<1>5. CASE S!GoodsState(o)' = S!GoodsState(o)
  BY <1>1, <1>5, GoodsSame
<1>6. CASE S!GoodsState(o) = "held" /\ S!GoodsState(o)' = "free"
  <2>1. goodsOf[o] = "held"
    BY <1>6 DEF goodsOf
  <2> QED BY <1>1, <1>6, <2>1, GoodsFrame
<1> QED BY <1>4, <1>5, <1>6

LEMMA ReleaseOne ==
  ASSUME S!SagaAssumption, GoodsInv, NEW r \in S!I!Reservations, rStatus[r] = "RESERVED",
         NEW t \in {"RELEASED", "EXPIRED"},
         \A s \in S!I!Reservations : rStatus'[s] = IF s \in {r} THEN t ELSE rStatus[s],
         rOrder' = rOrder
  PROVE  \/ goodsOf' = goodsOf
         \/ \E o \in S!Orders : goodsOf[o] = "held" /\ goodsOf' = [goodsOf EXCEPT ![o] = "free"]
<1>1. CASE \E o \in S!Orders : rOrder[r] = IdOf[o]
  <2>1. PICK o \in S!Orders : rOrder[r] = IdOf[o]
    BY <1>1
  <2>2. \A s \in S!I!Reservations : rStatus'[s] # rStatus[s] =>
          /\ rStatus[s] = "RESERVED" /\ rOrder[s] = IdOf[o]
          /\ rStatus'[s] \in {"RELEASED", "EXPIRED"}
    BY <2>1
  <2> QED BY <2>1, <2>2, ReleaseGoods
<1>2. CASE \A o \in S!Orders : rOrder[r] # IdOf[o]
  <2>1. ASSUME NEW x \in S!Orders PROVE S!GoodsState(x)' = S!GoodsState(x)
    <3>1. \A s \in {"CONFIRMED", "RESERVED"} : Has(x, s)' <=> Has(x, s)
      BY <1>2 DEF Has, RowOf, GoodsInv
    <3> QED BY <3>1, GoodsAre
  <2> QED BY <2>1, GoodsSame
<1> QED BY <1>1, <1>2

\* The active rows of an order are committed.
LEMMA CommitGoods ==
  ASSUME S!SagaAssumption, GoodsInv, NEW o \in S!Orders, rOrder' = rOrder,
         \A r \in S!I!Reservations : rStatus'[r] # rStatus[r] =>
           rStatus[r] = "RESERVED" /\ rStatus'[r] = "CONFIRMED" /\ rOrder[r] = IdOf[o],
         \E r \in S!I!Reservations :
           rStatus[r] = "RESERVED" /\ rStatus'[r] = "CONFIRMED" /\ rOrder[r] = IdOf[o]
  PROVE  \/ goodsOf' = goodsOf
         \/ goodsOf[o] = "held" /\ goodsOf' = [goodsOf EXCEPT ![o] = "gone"]
<1>1. \A x \in S!Orders \ {o} : S!GoodsState(x)' = S!GoodsState(x)
  BY Others
<1>2. Has(o, "RESERVED") /\ Has(o, "CONFIRMED")'
  BY DEF Has, RowOf, GoodsInv
<1>3. S!GoodsState(o)' = "gone" /\ S!GoodsState(o) \in {"held", "gone"}
  BY <1>2, GoodsAre
<1>4. CASE S!GoodsState(o) = "gone"
  BY <1>1, <1>3, <1>4, GoodsSame
<1>5. CASE S!GoodsState(o) = "held"
  <2>1. goodsOf[o] = "held"
    BY <1>5 DEF goodsOf
  <2> QED BY <1>1, <1>3, <2>1, GoodsFrame
<1> QED BY <1>3, <1>4, <1>5

\* An order gets one more active row.
LEMMA ReserveGoods ==
  ASSUME S!SagaAssumption, GoodsInv, NEW o \in S!Orders, NEW n \in S!I!Reservations,
         rStatus[n] = "none",
         rStatus' = [rStatus EXCEPT ![n] = "RESERVED"], rOrder' = [rOrder EXCEPT ![n] = IdOf[o]]
  PROVE  \/ goodsOf' = goodsOf
         \/ goodsOf[o] = "free" /\ goodsOf' = [goodsOf EXCEPT ![o] = "held"]
<1>1. ASSUME NEW x \in S!Orders \ {o} PROVE S!GoodsState(x)' = S!GoodsState(x)
  <2>1. IdOf[x] # IdOf[o]
    BY DEF S!SagaAssumption
  <2>2. \A s \in {"CONFIRMED", "RESERVED"} : Has(x, s)' <=> Has(x, s)
    BY <2>1 DEF Has, RowOf, GoodsInv
  <2> QED BY <2>2, GoodsAre
<1>2. Has(o, "RESERVED")' /\ (Has(o, "CONFIRMED")' <=> Has(o, "CONFIRMED"))
  BY DEF Has, RowOf, GoodsInv
<1>3. S!GoodsState(o)' = S!GoodsState(o) \/ (S!GoodsState(o) = "free" /\ S!GoodsState(o)' = "held")
  BY <1>2, GoodsAre
<1>4. CASE S!GoodsState(o)' = S!GoodsState(o)
  BY <1>1, <1>4, GoodsSame
<1>5. CASE S!GoodsState(o) = "free" /\ S!GoodsState(o)' = "held"
  <2>1. goodsOf[o] = "free"
    BY <1>5 DEF goodsOf
  <2> QED BY <1>1, <1>5, <2>1, GoodsFrame
<1> QED BY <1>3, <1>4, <1>5

\* Nothing that the goods of an order depend on changes.
LEMMA QuietGoods ==
  ASSUME GoodsInv, UNCHANGED <<rStatus, rOrder, call>>,
         \A o \in S!Orders : oStatus[o] # "none" => oStatus'[o] # "none"
  PROVE  GoodsInv' /\ goodsOf' = goodsOf
<1>1. GoodsInv' BY DEF GoodsInv
<1>2. \A x \in S!Orders : S!GoodsState(x)' = S!GoodsState(x) BY GoodsAre DEF Has, RowOf
<1> QED BY <1>1, <1>2, GoodsSame

\* What Checkout says of the stock.
GoodsMove ==
  \/ goodsOf' = goodsOf
  \/ \E o \in S!Orders :
       \/ /\ oStatus[o] # "none" /\ goodsOf[o] = "free"
          /\ goodsOf' = [goodsOf EXCEPT ![o] = "held"]
       \/ goodsOf[o] = "held" /\ goodsOf' = [goodsOf EXCEPT ![o] = "free"]
       \/ /\ S!OrderSays(o, "OrderConfirmed") /\ goodsOf[o] = "held"
          /\ goodsOf' = [goodsOf EXCEPT ![o] = "gone"]

LEMMA ReserveMove ==
  ASSUME S!SagaAssumption, SalesInv, GoodsInv, UNCHANGED oStatus, NEW c \in Callers,
         S!InventoryReserves(c)
  PROVE  GoodsInv' /\ GoodsMove
<1>1. ASSUME NEW o \in S!Orders, S!OrderSays(o, "OrderCreated"), S!I!ReserveCheck(c, IdOf[o])
      PROVE  GoodsInv' /\ GoodsMove
  <2>1. UNCHANGED <<rStatus, rOrder>> /\ call' = [call EXCEPT ![c] = IdOf[o]]
    BY <1>1 DEF S!I!ReserveCheck, S!I!resv
  <2>2. oStatus[o] # "none"
    BY <1>1 DEF SalesInv, OrderFits, S!OrderSays
  <2>3. GoodsInv'
    BY <2>1, <2>2 DEF GoodsInv
  <2>4. \A x \in S!Orders : S!GoodsState(x)' = S!GoodsState(x)
    BY <2>1, GoodsAre DEF Has, RowOf
  <2> QED BY <2>3, <2>4, GoodsSame DEF GoodsMove
<1>2. CASE S!I!ReserveFails(c)
  <2>1. UNCHANGED <<rStatus, rOrder>> /\ call' = [call EXCEPT ![c] = S!I!NoOrder]
    BY <1>2 DEF S!I!ReserveFails, S!I!resv
  <2>2. GoodsInv'
    BY <2>1 DEF GoodsInv
  <2>3. \A x \in S!Orders : S!GoodsState(x)' = S!GoodsState(x)
    BY <2>1, GoodsAre DEF Has, RowOf
  <2> QED BY <2>2, <2>3, GoodsSame DEF GoodsMove
<1>3. ASSUME NEW r \in S!I!Reservations, S!I!ReserveStock(c, r) PROVE GoodsInv' /\ GoodsMove
  <2>1. call[c] # S!I!NoOrder /\ rStatus[r] = "none"
        /\ rStatus' = [rStatus EXCEPT ![r] = "RESERVED"]
        /\ rOrder' = [rOrder EXCEPT ![r] = call[c]] /\ call' = [call EXCEPT ![c] = S!I!NoOrder]
    BY <1>3 DEF S!I!ReserveStock
  <2>2. PICK o \in S!Orders : IdOf[o] = call[c] /\ oStatus[o] # "none"
    BY <2>1 DEF GoodsInv
  <2>3. GoodsInv'
    BY <2>1 DEF GoodsInv, S!I!Statuses
  <2>4. \/ goodsOf' = goodsOf
        \/ goodsOf[o] = "free" /\ goodsOf' = [goodsOf EXCEPT ![o] = "held"]
    BY <2>1, <2>2, ReserveGoods
  <2> QED BY <2>2, <2>3, <2>4 DEF GoodsMove
<1> QED BY <1>1, <1>2, <1>3 DEF S!InventoryReserves

\* Statuses that rows get keep the types.
LEMMA RowsKeep ==
  ASSUME GoodsInv, UNCHANGED <<oStatus, rOrder, call>>, NEW A, NEW t \in S!I!Statuses,
         rStatus' = [r \in S!I!Reservations |-> IF r \in A THEN t ELSE rStatus[r]]
  PROVE  GoodsInv'
BY DEF GoodsInv

LEMMA SettleMove ==
  ASSUME S!SagaAssumption, GoodsInv, UNCHANGED oStatus, NEW o \in S!Orders,
         S!InventoryCommits(o) \/ S!InventoryReleases(o)
  PROVE  GoodsInv' /\ GoodsMove
<1> DEFINE A == {r \in S!I!Reservations : RowOf(r, o) /\ rStatus[r] = "RESERVED"}
<1>1. S!I!Active(S!I!RowsOfOrder(IdOf[o])) = A
  BY DEF S!I!Active, S!I!RowsOfOrder, RowOf
<1>2. A \in SUBSET S!I!Reservations /\ \A r \in A : rStatus[r] = "RESERVED" /\ rOrder[r] = IdOf[o]
  BY DEF RowOf
<1> HIDE DEF A
<1>3. CASE S!InventoryReleases(o)
  <2>1. A # {} /\ UNCHANGED <<rOrder, call>>
        /\ rStatus' = [r \in S!I!Reservations |-> IF r \in A THEN "RELEASED" ELSE rStatus[r]]
    BY <1>1, <1>3 DEF S!InventoryReleases, S!I!ReleaseStock, S!I!ReleaseActive
  <2>2. GoodsInv'
    BY <2>1, RowsKeep DEF S!I!Statuses
  <2>3. /\ \A r \in S!I!Reservations : rStatus'[r] # rStatus[r] =>
             /\ rStatus[r] = "RESERVED" /\ rOrder[r] = IdOf[o]
             /\ rStatus'[r] \in {"RELEASED", "EXPIRED"}
        /\ \E r \in S!I!Reservations : rStatus[r] = "RESERVED" /\ rOrder[r] = IdOf[o]
    BY <1>2, <2>1
  <2>4. \/ goodsOf' = goodsOf
        \/ goodsOf[o] = "held" /\ goodsOf' = [goodsOf EXCEPT ![o] = "free"]
    BY <2>1, <2>3, ReleaseGoods
  <2> QED BY <2>2, <2>4 DEF GoodsMove
<1>4. CASE S!InventoryCommits(o)
  <2>1. CASE A = {}
    <3>1. UNCHANGED <<rStatus, rOrder, call>>
      BY <1>1, <1>4, <2>1 DEF S!InventoryCommits, S!I!HandleOrderConfirmed, S!I!resv
    <3> QED BY <3>1, QuietGoods DEF GoodsMove
  <2>2. CASE A # {}
    <3>1. UNCHANGED <<rOrder, call>>
          /\ rStatus' = [r \in S!I!Reservations |-> IF r \in A THEN "CONFIRMED" ELSE rStatus[r]]
      BY <1>1, <1>4, <2>2 DEF S!InventoryCommits, S!I!HandleOrderConfirmed, S!I!CommitActive
    <3>2. GoodsInv'
      BY <3>1, RowsKeep DEF S!I!Statuses
    <3>3. /\ \A r \in S!I!Reservations : rStatus'[r] # rStatus[r] =>
               rStatus[r] = "RESERVED" /\ rStatus'[r] = "CONFIRMED" /\ rOrder[r] = IdOf[o]
          /\ \E r \in S!I!Reservations :
               rStatus[r] = "RESERVED" /\ rStatus'[r] = "CONFIRMED" /\ rOrder[r] = IdOf[o]
      BY <1>2, <2>2, <3>1
    <3>4. \/ goodsOf' = goodsOf
          \/ goodsOf[o] = "held" /\ goodsOf' = [goodsOf EXCEPT ![o] = "gone"]
      BY <3>1, <3>3, CommitGoods
    <3> QED BY <1>4, <3>2, <3>4 DEF GoodsMove, S!InventoryCommits
  <2> QED BY <2>1, <2>2
<1> QED BY <1>3, <1>4

LEMMA OtherMove ==
  ASSUME S!SagaAssumption, GoodsInv, UNCHANGED oStatus, S!InventoryRequest \/ S!InventoryTime
  PROVE  GoodsInv' /\ GoodsMove
<1>1. CASE UNCHANGED <<rStatus, rOrder, call>>
  BY <1>1, QuietGoods DEF GoodsMove
<1>2. ASSUME NEW r \in S!I!Reservations, NEW t \in {"RELEASED", "EXPIRED"}, rStatus[r] = "RESERVED",
             rStatus' = [s \in S!I!Reservations |-> IF s \in {r} THEN t ELSE rStatus[s]],
             UNCHANGED <<rOrder, call>>
      PROVE  GoodsInv' /\ GoodsMove
  <2>1. GoodsInv'
    BY <1>2, RowsKeep DEF S!I!Statuses
  <2>2. \A s \in S!I!Reservations : rStatus'[s] = IF s \in {r} THEN t ELSE rStatus[s]
    BY <1>2
  <2> QED BY <1>2, <2>1, <2>2, ReleaseOne DEF GoodsMove
<1>3. CASE S!InventoryRequest
  <2>1. ASSUME NEW i, NEW q, S!I!Create(i, q) PROVE UNCHANGED <<rStatus, rOrder, call>>
    BY <2>1 DEF S!I!Create, S!I!resv, S!I!procs
  <2>2. ASSUME NEW r \in S!I!Reservations, S!I!ReleaseStock({r}) PROVE GoodsInv' /\ GoodsMove
    <3>1. S!I!Active({r}) = {r} /\ rStatus[r] = "RESERVED"
      BY <2>2 DEF S!I!ReleaseStock, S!I!Active
    <3>2. UNCHANGED <<rOrder, call>>
          /\ rStatus' = [s \in S!I!Reservations |-> IF s \in {r} THEN "RELEASED" ELSE rStatus[s]]
      BY <2>2, <3>1 DEF S!I!ReleaseStock, S!I!ReleaseActive
    <3> QED BY <1>2, <3>1, <3>2
  <2> QED BY <1>1, <1>3, <2>1, <2>2 DEF S!InventoryRequest
<1>4. CASE S!InventoryTime
  <2>1. ASSUME NEW r, S!I!Expires(r) PROVE UNCHANGED <<rStatus, rOrder, call>>
    BY <2>1 DEF S!I!Expires, S!I!procs
  <2>2. ASSUME NEW w, S!I!ExpireScan(w) PROVE UNCHANGED <<rStatus, rOrder, call>>
    BY <2>2 DEF S!I!ExpireScan, S!I!resv
  <2>3. ASSUME NEW w, NEW r \in S!I!Reservations,
               S!I!ReleaseExpired(w, r) PROVE GoodsInv' /\ GoodsMove
    <3>1. CASE rStatus[r] = "RESERVED"
      <4>1. S!I!Active({r}) # {}
        BY <3>1 DEF S!I!Active
      <4>2. UNCHANGED <<rOrder, call>>
            /\ rStatus' = [s \in S!I!Reservations |-> IF s \in {r} THEN "EXPIRED" ELSE rStatus[s]]
        BY <2>3, <4>1 DEF S!I!ReleaseExpired, S!I!ReleaseActive
      <4> QED BY <1>2, <3>1, <4>2
    <3>2. CASE rStatus[r] # "RESERVED"
      <4>1. S!I!Active({r}) = {}
        BY <3>2 DEF S!I!Active
      <4> QED BY <1>1, <2>3, <4>1 DEF S!I!ReleaseExpired, S!I!resv
    <3> QED BY <3>1, <3>2
  <2> QED BY <1>1, <1>4, <2>1, <2>2, <2>3 DEF S!InventoryTime, S!I!ExpireStep
<1> QED BY <1>3, <1>4

-----------------------------------------------------------------------------
(* The refinement *)

SagaInv == S!SagaAssumption /\ SalesInv /\ PlacedInv /\ GoodsInv

\* The state of Checkout, by the names used here.
LEMMA Mapping ==
  /\ S!C!vars = <<orderOf, bookedOf, goodsOf>>
  /\ S!C!vars' = <<orderOf, bookedOf, goodsOf>>'
  /\ S!C!Init <=> /\ orderOf = [o \in S!Orders |-> "none"]
                /\ bookedOf = [o \in S!Orders |-> FALSE]
                /\ goodsOf = [o \in S!Orders |-> "free"]
BY DEF S!C!vars, S!C!Init, orderOf, bookedOf, goodsOf

LEMMA SagaInit == S!SagaAssumption /\ S!Init => SagaInv /\ S!C!Init
<1> SUFFICES ASSUME S!SagaAssumption, S!Init PROVE SagaInv /\ S!C!Init
  OBVIOUS
<1>1. /\ oStatus = [o \in S!Orders |-> "none"] /\ oEvents = [o \in S!Orders |-> <<>>]
      /\ oProc = [p \in Procs |-> {}]
  BY DEF S!Init, S!O!Init, S!O!None, S!O!Orders, S!Orders
<1>2. pStatus = [k \in S!P!Keys |-> "none"]
  BY DEF S!Init, S!P!Init, S!P!None
<1>3. /\ rStatus = [r \in S!I!Reservations |-> "none"]
      /\ rOrder = [r \in S!I!Reservations |-> S!I!NoOrder]
      /\ call = [c \in Callers |-> S!I!NoOrder]
  BY DEF S!Init, S!I!Init
<1>4. SalesInv
  BY <1>1 DEF SalesInv, OrderFits, S!OrderSays
<1>5. PlacedInv
  BY <1>2 DEF PlacedInv
<1>6. GoodsInv
  BY <1>3 DEF GoodsInv, S!I!Statuses
<1>7. orderOf = [o \in S!Orders |-> "none"]
  BY <1>1 DEF orderOf, S!OrderState
<1>8. bookedOf = [o \in S!Orders |-> FALSE]
  BY <1>2 DEF bookedOf, S!Booked, S!P!Paid
<1>9. goodsOf = [o \in S!Orders |-> "free"]
  <2>1. \A o \in S!Orders : S!GoodsState(o) = "free"
    BY <1>3, GoodsAre DEF Has, RowOf
  <2> QED BY <2>1 DEF goodsOf
<1> QED BY <1>4, <1>5, <1>6, <1>7, <1>8, <1>9, Mapping DEF SagaInv

\* A step of order-service: Place, Grant, Sell or Close, or nothing that Checkout sees.
LEMMA OrderStep ==
  ASSUME PP!Inv, SagaInv,
         \/ \E c \in Calls : S!CreateOrder(c)
         \/ \E o \in S!Orders : S!OrderConsumes(o) \/ \E p \in Procs : S!OrderRequest(p, o)
         \/ \E p \in Procs : S!OrderWrites(p) \/ S!OrderGivesUp(p)
  PROVE  SagaInv' /\ [S!C!Next]_S!C!vars
<1>1. UNCHANGED S!pVars /\ UNCHANGED S!iVars
  BY DEF S!CreateOrder, S!OrderConsumes, S!OrderRequest, S!OrderWrites, S!OrderGivesUp
<1>2. bookedOf' = bookedOf
  BY <1>1 DEF S!pVars, bookedOf, S!Booked
<1>3. UNCHANGED <<rStatus, rOrder, call>>
  BY <1>1 DEF S!iVars
<1>4. ASSUME \A o \in S!Orders : oStatus[o] # "none" => oStatus'[o] # "none"
      PROVE  PlacedInv' /\ GoodsInv' /\ goodsOf' = goodsOf
  BY <1>1, <1>3, <1>4, QuietGoods, QuietBooks DEF SagaInv
<1>5. ASSUME SalesInv', orderOf' = orderOf, oStatus' = oStatus
      PROVE  SagaInv' /\ [S!C!Next]_S!C!vars
  <2>1. PlacedInv' /\ GoodsInv' /\ goodsOf' = goodsOf
    BY <1>4, <1>5
  <2> QED BY <1>2, <1>5, <2>1, Mapping DEF SagaInv
<1>6. ASSUME NEW c \in Calls, S!CreateOrder(c) PROVE SagaInv' /\ [S!C!Next]_S!C!vars
  <2>1. /\ SalesInv'
        /\ \/ orderOf' = orderOf
           \/ \E new \in SUBSET S!Orders :
                /\ new # {} /\ \A o \in new : orderOf[o] = "none"
                /\ orderOf' = [o \in S!Orders |-> IF o \in new THEN "open" ELSE orderOf[o]]
        /\ \A o \in S!Orders : oStatus[o] # "none" => oStatus'[o] # "none"
    BY <1>2, <1>6, CreateSale DEF SagaInv, S!CreateOrder
  <2>2. PlacedInv' /\ GoodsInv' /\ goodsOf' = goodsOf
    BY <1>4, <2>1
  <2>3. SagaInv'
    BY <1>2, <2>1, <2>2 DEF SagaInv
  <2>4. CASE orderOf' = orderOf
    BY <1>2, <2>2, <2>3, <2>4, Mapping
  <2>5. ASSUME NEW new \in SUBSET S!Orders, new # {}, \A o \in new : orderOf[o] = "none",
               orderOf' = [o \in S!Orders |-> IF o \in new THEN "open" ELSE orderOf[o]]
        PROVE  S!C!Place(new)
    BY <1>2, <2>2, <2>5 DEF S!C!Place, orderOf, bookedOf, goodsOf
  <2> QED BY <2>1, <2>3, <2>4, <2>5 DEF S!C!Next
<1>7. ASSUME NEW o \in S!Orders, S!OrderConsumes(o) PROVE SagaInv' /\ [S!C!Next]_S!C!vars
  <2>1. Consumer \in Procs
    BY DEF SagaInv, S!SagaAssumption
  <2>2. CASE S!PaymentSays(o, "PaymentSuccessful") /\ S!O!HandlePaymentSuccessful(Consumer, o)
    <3>1. S!O!ReadFor(Consumer, o, "CONFIRMED", "OrderConfirmed") /\ bookedOf[o]
      BY <2>2, SuccessIsBooked DEF S!O!HandlePaymentSuccessful
    <3>2. "CONFIRMED" \in S!O!Statuses /\ "OrderConfirmed" \in S!O!EventTypes
      BY DEF S!O!Statuses, S!O!EventTypes
    <3>3. SalesInv' /\ orderOf' = orderOf /\ oStatus' = oStatus
      BY <1>2, <2>1, <3>1, <3>2, ReadSale DEF SagaInv
    <3> QED BY <1>5, <3>3
  <2>3. CASE S!O!HandlePaymentFailed(Consumer, o)
    <3>1. S!O!ReadFor(Consumer, o, "PAYMENT_FAILED", "OrderPaymentFailed")
      BY <2>3 DEF S!O!HandlePaymentFailed
    <3>2. "PAYMENT_FAILED" \in S!O!Statuses /\ "OrderPaymentFailed" \in S!O!EventTypes
      BY DEF S!O!Statuses, S!O!EventTypes
    <3>3. SalesInv' /\ orderOf' = orderOf /\ oStatus' = oStatus
      BY <1>2, <2>1, <3>1, <3>2, ReadSale DEF SagaInv
    <3> QED BY <1>5, <3>3
  <2> QED BY <1>7, <2>2, <2>3 DEF S!OrderConsumes
<1>8. ASSUME NEW o \in S!Orders, NEW p \in Procs,
             S!OrderRequest(p, o) PROVE SagaInv' /\ [S!C!Next]_S!C!vars
  <2>1. CASE S!O!CancelOrder(p, o)
    <3>1. S!O!ReadFor(p, o, "CANCELLED", "OrderCancelled")
      BY <2>1 DEF S!O!CancelOrder
    <3>2. "CANCELLED" \in S!O!Statuses /\ "OrderCancelled" \in S!O!EventTypes
      BY DEF S!O!Statuses, S!O!EventTypes
    <3>3. SalesInv' /\ orderOf' = orderOf /\ oStatus' = oStatus
      BY <1>2, <3>1, <3>2, ReadSale DEF SagaInv
    <3> QED BY <1>5, <3>3
  <2>2. ASSUME NEW to \in ByHand,
               S!O!UpdateOrderStatus(p, o, to) PROVE SagaInv' /\ [S!C!Next]_S!C!vars
    <3>1. S!O!ReadFor(p, o, to, "none")
      BY <2>2 DEF S!O!UpdateOrderStatus, S!O!None
    <3>2. to \in S!O!Statuses /\ "none" \notin S!O!EventTypes
      BY DEF SagaInv, S!SagaAssumption, S!O!EventTypes
    <3>3. SalesInv' /\ orderOf' = orderOf /\ oStatus' = oStatus
      BY <1>2, <3>1, <3>2, ReadSale DEF SagaInv
    <3> QED BY <1>5, <3>3
  <2> QED BY <1>8, <2>1, <2>2 DEF S!OrderRequest
<1>9. ASSUME NEW p \in Procs, S!OrderGivesUp(p) PROVE SagaInv' /\ [S!C!Next]_S!C!vars
  BY <1>2, <1>5, <1>9, GiveUpSale DEF SagaInv, S!OrderGivesUp
<1>10. ASSUME NEW p \in Procs, NEW w \in oProc[p], S!O!WriteStatus(p, w) \/ S!O!WriteCancel(p, w)
       PROVE  SagaInv' /\ [S!C!Next]_S!C!vars
  <2>1. /\ SalesInv' /\ SaleMove(w.order) /\ w.order \in S!Orders
        /\ \A o \in S!Orders : oStatus[o] # "none" => oStatus'[o] # "none"
    BY <1>2, <1>10, WriteSale DEF SagaInv
  <2>2. PlacedInv' /\ GoodsInv' /\ goodsOf' = goodsOf
    BY <1>4, <2>1
  <2>3. SagaInv'
    BY <1>2, <2>1, <2>2 DEF SagaInv
  <2>4. CASE orderOf' = orderOf
    BY <1>2, <2>2, <2>3, <2>4, Mapping
  <2>5. CASE orderOf[w.order] = "open" /\ orderOf' = [orderOf EXCEPT ![w.order] = "granted"]
    <3>1. S!C!Grant(w.order)
      BY <1>2, <2>2, <2>5 DEF S!C!Grant, orderOf, bookedOf, goodsOf
    <3> QED BY <2>1, <2>3, <3>1 DEF S!C!Next
  <2>6. CASE /\ orderOf[w.order] \in {"open", "granted"} /\ bookedOf[w.order]
             /\ orderOf' = [orderOf EXCEPT ![w.order] = "sold"]
    <3>1. S!C!Sell(w.order)
      BY <1>2, <2>2, <2>6 DEF S!C!Sell, orderOf, bookedOf, goodsOf
    <3> QED BY <2>1, <2>3, <3>1 DEF S!C!Next
  <2>7. CASE \/ /\ orderOf[w.order] \in {"open", "granted"}
                /\ orderOf' = [orderOf EXCEPT ![w.order] = "closed"]
             \/ /\ orderOf[w.order] = "sold"
                /\ orderOf' = [orderOf EXCEPT ![w.order] = "revoked"]
    <3>1. /\ orderOf[w.order] \in {"open", "granted", "sold"}
          /\ orderOf' = [orderOf EXCEPT ![w.order] =
                            IF orderOf[w.order] = "sold" THEN "revoked" ELSE "closed"]
      BY <2>7
    <3>2. S!C!Close(w.order)
      BY <1>2, <2>2, <3>1 DEF S!C!Close, orderOf, bookedOf, goodsOf
    <3> QED BY <2>1, <2>3, <3>2 DEF S!C!Next
  <2> QED BY <2>1, <2>4, <2>5, <2>6, <2>7 DEF SaleMove
<1> QED BY <1>6, <1>7, <1>8, <1>9, <1>10 DEF S!OrderWrites

\* A step of payment-service: Book or nothing.
LEMMA PaymentStep ==
  ASSUME PP!Inv, SagaInv,
         \/ \E r \in Requests : S!PaymentRequest(r) \/ S!PaymentAgain(r)
         \/ \E k \in S!P!Keys : S!PaymentElse(k)
  PROVE  SagaInv' /\ [S!C!Next]_S!C!vars
<1>1. UNCHANGED S!oVars /\ UNCHANGED S!iVars
  BY DEF S!PaymentRequest, S!PaymentAgain, S!PaymentElse
<1>2. GoodsInv' /\ goodsOf' = goodsOf
  BY <1>1, QuietGoods DEF SagaInv, S!oVars, S!iVars
<1>3. /\ PlacedInv'
      /\ \/ bookedOf' = bookedOf
         \/ \E o \in S!Orders : /\ oStatus[o] # "none" /\ ~bookedOf[o]
                             /\ bookedOf' = [bookedOf EXCEPT ![o] = TRUE]
  BY <1>1, PaymentMoves, BookMove DEF SagaInv, S!oVars
<1>4. SalesInv' /\ orderOf' = orderOf
  <2>1. \A o \in S!Orders : bookedOf[o] => bookedOf'[o]
    BY <1>3 DEF bookedOf
  <2> QED BY <1>1, <2>1, ElsewhereSale DEF SagaInv
<1>5. SagaInv'
  BY <1>2, <1>3, <1>4 DEF SagaInv
<1>6. ASSUME NEW o \in S!Orders, oStatus[o] # "none", ~bookedOf[o],
             bookedOf' = [bookedOf EXCEPT ![o] = TRUE]
      PROVE  S!C!Book(o)
  <2>1. orderOf[o] # "none"
    BY <1>6, OrderStates DEF orderOf, StateIs
  <2> QED BY <1>2, <1>4, <1>6, <2>1 DEF S!C!Book, orderOf, bookedOf, goodsOf
<1>7. CASE bookedOf' = bookedOf
  BY <1>2, <1>4, <1>5, <1>7, Mapping
<1> QED BY <1>3, <1>5, <1>6, <1>7 DEF S!C!Next

\* A step of inventory-service: Hold, Free or HandOver, or nothing.
LEMMA InventoryStep ==
  ASSUME PP!Inv, SagaInv,
         \/ \E o \in S!Orders : S!InventoryCommits(o) \/ S!InventoryReleases(o)
         \/ \E c \in Callers : S!InventoryReserves(c)
         \/ S!InventoryRequest \/ S!InventoryTime
  PROVE  SagaInv' /\ [S!C!Next]_S!C!vars
<1>1. UNCHANGED S!oVars /\ UNCHANGED S!pVars
  BY DEF S!InventoryCommits, S!InventoryReleases, S!InventoryReserves, S!InventoryRequest,
     S!InventoryTime
<1>2. PlacedInv' /\ bookedOf' = bookedOf
  BY <1>1, QuietBooks DEF SagaInv, S!oVars
<1>3. SalesInv' /\ orderOf' = orderOf /\ oStatus' = oStatus
  BY <1>1, <1>2, ElsewhereSale DEF SagaInv
<1>4. GoodsInv' /\ GoodsMove
  BY <1>3, ReserveMove, SettleMove, OtherMove DEF SagaInv
<1>5. SagaInv'
  BY <1>2, <1>3, <1>4 DEF SagaInv
<1>6. CASE goodsOf' = goodsOf
  BY <1>2, <1>3, <1>5, <1>6, Mapping
<1>7. ASSUME NEW o \in S!Orders, oStatus[o] # "none", goodsOf[o] = "free",
             goodsOf' = [goodsOf EXCEPT ![o] = "held"]
      PROVE  S!C!Hold(o)
  <2>1. orderOf[o] # "none"
    BY <1>7, OrderStates DEF orderOf, StateIs
  <2> QED BY <1>2, <1>3, <1>7, <2>1 DEF S!C!Hold, orderOf, bookedOf, goodsOf
<1>8. ASSUME NEW o \in S!Orders, goodsOf[o] = "held", goodsOf' = [goodsOf EXCEPT ![o] = "free"]
      PROVE  S!C!Free(o)
  BY <1>2, <1>3, <1>8 DEF S!C!Free, orderOf, bookedOf, goodsOf
<1>9. ASSUME NEW o \in S!Orders, S!OrderSays(o, "OrderConfirmed"), goodsOf[o] = "held",
             goodsOf' = [goodsOf EXCEPT ![o] = "gone"]
      PROVE  S!C!HandOver(o)
  <2>1. orderOf[o] \in {"sold", "revoked"}
    BY <1>9, OrderStates DEF orderOf, SagaInv, SalesInv, OrderFits, StateIs, Past, Open, Closed,
       S!O!Statuses
  <2> QED BY <1>2, <1>3, <1>9, <2>1 DEF S!C!HandOver, orderOf, bookedOf, goodsOf
<1> QED BY <1>4, <1>5, <1>6, <1>7, <1>8, <1>9 DEF GoodsMove, S!C!Next

LEMMA SagaStep == PP!Inv /\ SagaInv /\ [S!Next]_S!vars => SagaInv' /\ [S!C!Next]_S!C!vars
<1> SUFFICES ASSUME PP!Inv, SagaInv, [S!Next]_S!vars PROVE SagaInv' /\ [S!C!Next]_S!C!vars
  OBVIOUS
<1>1. CASE UNCHANGED S!vars
  <2>1. UNCHANGED S!oVars /\ UNCHANGED S!pVars /\ UNCHANGED S!iVars
    BY <1>1 DEF S!vars
  <2>2. PlacedInv' /\ bookedOf' = bookedOf
    BY <2>1, QuietBooks DEF SagaInv, S!oVars
  <2>3. SalesInv' /\ orderOf' = orderOf /\ oStatus' = oStatus
    BY <2>1, <2>2, ElsewhereSale DEF SagaInv
  <2>4. GoodsInv' /\ goodsOf' = goodsOf
    BY <2>1, <2>3, QuietGoods DEF SagaInv, S!iVars
  <2> QED BY <2>2, <2>3, <2>4, Mapping DEF SagaInv
<1> QED BY <1>1, OrderStep, PaymentStep, InventoryStep DEF S!Next

\* order-service, payment-service and inventory-service implement Checkout, for any number
\* of orders, requests, reservations and handlers, late, lost and repeated events, and
\* whatever statuses operators set by hand.
THEOREM SagaImplementsCheckout == S!SagaAssumption => (S!Spec => S!ImplementsCheckout)
<1> QED BY SagaInit, SagaStep, PayInvariant, PTL DEF S!Spec, S!ImplementsCheckout, S!C!Spec

\* What Checkout promises, by the names used here.
PaidFor ==
  \A o \in S!Orders :
    /\ goodsOf[o] = "gone" => orderOf[o] \in {"sold", "revoked"}
    /\ orderOf[o] \in {"sold", "revoked"} => bookedOf[o]

LEMMA PaidForStep == PaidFor /\ [S!C!Next]_S!C!vars => PaidFor'
<1> SUFFICES ASSUME PaidFor, [S!C!Next]_S!C!vars PROVE PaidFor' OBVIOUS
<1>0. /\ DOMAIN orderOf = S!Orders /\ DOMAIN bookedOf = S!Orders /\ DOMAIN goodsOf = S!Orders
  BY DEF orderOf, bookedOf, goodsOf
<1> DEFINE Step == \/ UNCHANGED <<orderOf, bookedOf, goodsOf>>
                   \/ \E new \in SUBSET S!Orders :
                        /\ \A o \in new : orderOf[o] = "none"
                        /\ orderOf' = [o \in S!Orders |-> IF o \in new THEN "open" ELSE orderOf[o]]
                        /\ UNCHANGED <<bookedOf, goodsOf>>
                   \/ \E o \in S!Orders :
                        \/ bookedOf' = [bookedOf EXCEPT ![o] = TRUE] /\ UNCHANGED <<orderOf, goodsOf>>
                        \/ /\ bookedOf[o] /\ orderOf' = [orderOf EXCEPT ![o] = "sold"]
                           /\ UNCHANGED <<bookedOf, goodsOf>>
                        \/ /\ orderOf[o] = "open" /\ orderOf' = [orderOf EXCEPT ![o] = "granted"]
                           /\ UNCHANGED <<bookedOf, goodsOf>>
                        \/ /\ orderOf[o] \in {"open", "granted", "sold"}
                           /\ orderOf' = [orderOf EXCEPT ![o] =
                                             IF orderOf[o] = "sold" THEN "revoked" ELSE "closed"]
                           /\ UNCHANGED <<bookedOf, goodsOf>>
                        \/ /\ \E g \in {"held", "free"} : goodsOf' = [goodsOf EXCEPT ![o] = g]
                           /\ UNCHANGED <<orderOf, bookedOf>>
                        \/ /\ orderOf[o] \in {"sold", "revoked"}
                           /\ goodsOf' = [goodsOf EXCEPT ![o] = "gone"]
                           /\ UNCHANGED <<orderOf, bookedOf>>
<1>1. ASSUME NEW new \in SUBSET S!Orders, S!C!Place(new) PROVE Step
  BY <1>1 DEF S!C!Place, orderOf, bookedOf, goodsOf
<1>2. ASSUME NEW o \in S!Orders, S!C!Book(o) PROVE Step
  BY <1>2 DEF S!C!Book, orderOf, bookedOf, goodsOf
<1>3. ASSUME NEW o \in S!Orders, S!C!Sell(o) PROVE Step
  BY <1>3 DEF S!C!Sell, orderOf, bookedOf, goodsOf
<1>4. ASSUME NEW o \in S!Orders, S!C!Grant(o) PROVE Step
  BY <1>4 DEF S!C!Grant, orderOf, bookedOf, goodsOf
<1>5. ASSUME NEW o \in S!Orders, S!C!Close(o) PROVE Step
  BY <1>5 DEF S!C!Close, orderOf, bookedOf, goodsOf
<1>6. ASSUME NEW o \in S!Orders, S!C!Hold(o) \/ S!C!Free(o) PROVE Step
  BY <1>6 DEF S!C!Hold, S!C!Free, orderOf, bookedOf, goodsOf
<1>7. ASSUME NEW o \in S!Orders, S!C!HandOver(o) PROVE Step
  BY <1>7 DEF S!C!HandOver, orderOf, bookedOf, goodsOf
<1>8. Step
  BY <1>1, <1>2, <1>3, <1>4, <1>5, <1>6, <1>7, Mapping DEF S!C!Next
<1> HIDE DEF Step
<1> QED BY <1>0, <1>8 DEF PaidFor, Step

\* In the three services together, with operators who set statuses by hand: goods leave only
\* for an order that was announced as sold, an order is announced so only when a payment of
\* it counts as paid, and a payment counts as paid only when the gateway accepted it.
THEOREM SagaSafe == S!SagaAssumption => (S!Spec => [](S!C!GoodsArePaid /\ S!P!PaidWasAccepted))
<1>1. S!C!Init => PaidFor
  BY Mapping DEF PaidFor
<1>2. PaidFor => S!C!GoodsArePaid
  BY DEF PaidFor, S!C!GoodsArePaid, orderOf, bookedOf, goodsOf
<1>3. PP!Inv => S!P!PaidWasAccepted
  BY SameRows DEF PP!Inv, PP!BackInv, PP!PaidWasAccepted, PP!Paid, PP!None, S!P!PaidWasAccepted,
     S!P!Paid, S!P!None
<1> QED BY <1>1, <1>2, <1>3, PaidForStep, SagaImplementsCheckout, PayInvariant, PTL
     DEF S!ImplementsCheckout, S!C!Spec
=============================================================================
