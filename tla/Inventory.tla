------------------------------ MODULE Inventory ------------------------------
(***************************************************************************)
(* inventory-service: stock rows, reservations and their ledger, as        *)
(* changed by merchants, by the order and payment events of the consumer,  *)
(* by gRPC callers and by the expiration worker.                           *)
(*                                                                         *)
(* Every repository method is one database transaction that locks the rows *)
(* it writes, so it is one action, with two exceptions that the code reads *)
(* without a lock: ReserveStock's look-up of an existing reservation       *)
(* (ReserveCheck, then ReserveStock) and the worker's list of expired      *)
(* reservations (ExpireScan, then ReleaseExpired for each of them).        *)
(*                                                                         *)
(* A row stands for a product with its variant (or without): the unique    *)
(* indexes of migration 000001 allow one row for each, so the WHERE        *)
(* product_id AND variant_id of the statements select at most one row.     *)
(***************************************************************************)
EXTENDS Integers, FiniteSets, Sequences

CONSTANTS
  Inventories,      \* the products (with variant) that a row can be created for
  Orders,
  ItemsOf,          \* the items of an order: a sequence of [row, quantity]
  Callers,          \* concurrent ReserveStock calls (consumer, gRPC)
  Workers,          \* expiration workers, one for each instance
  MaxReservations,  \* bound: reservations ever inserted
  MaxQuantity,      \* bound on an item's quantity
  SupplyQuantities, \* quantities of Create and Restock
  SetQuantities,    \* quantities of UpdateStock
  MaxSupplies,      \* bound: Restock and UpdateStock calls
  LowStock          \* low_stock_threshold

Reservations == 1..MaxReservations

ASSUME InventoryAssumption ==
  /\ MaxReservations \in Nat
  /\ MaxQuantity \in Nat
  /\ MaxSupplies \in Nat
  /\ LowStock \in Nat
  /\ SupplyQuantities \subseteq Nat
  /\ SetQuantities \subseteq Nat
  /\ ItemsOf \in [Orders -> Seq([row : Inventories, quantity : 1..MaxQuantity])]
  /\ \A o \in Orders : Len(ItemsOf[o]) > 0

VARIABLES
  created,    \* the inventory row exists
  available,  \* available_quantity
  reserved,   \* reserved_quantity
  supplied,   \* net quantity put in by Create, Restock and UpdateStock (history)
  ledger,     \* quantities booked in inventory_transactions, by type
  rStatus,    \* reservation status, "none" before the insert
  rOrder, rInv, rQty,   \* its order_id, product and variant, and quantity
  rDue,       \* its expires_at has passed
  call,       \* the order a ReserveStock call will reserve for, or "idle"
  failure,    \* the error of the last failed ReserveStock for an order
  scan,       \* expired ids a worker has still to release
  acked,      \* orders whose OrderConfirmed was handled without error
  outbox,     \* the domain events written with the changes
  supplies    \* Restock and UpdateStock calls so far

stock == <<created, available, reserved, supplied, ledger>>
resv == <<rStatus, rOrder, rInv, rQty, rDue>>
procs == <<call, failure, scan, acked>>
vars == <<stock, resv, procs, outbox, supplies>>

Statuses == {"none", "RESERVED", "CONFIRMED", "RELEASED", "EXPIRED"}
Failures == {"none", "NotFound", "Conflict", "Internal"}
NoOrder == "no order"
NoRow == "no row"

Init ==
  /\ created = [i \in Inventories |-> FALSE]
  /\ available = [i \in Inventories |-> 0]
  /\ reserved = [i \in Inventories |-> 0]
  /\ supplied = [i \in Inventories |-> 0]
  /\ ledger = [i \in Inventories |-> [RESERVE |-> 0, RELEASE |-> 0, COMMIT |-> 0]]
  /\ rStatus = [r \in Reservations |-> "none"]
  /\ rOrder = [r \in Reservations |-> NoOrder]
  /\ rInv = [r \in Reservations |-> NoRow]
  /\ rQty = [r \in Reservations |-> 0]
  /\ rDue = [r \in Reservations |-> FALSE]
  /\ call = [c \in Callers |-> NoOrder]
  /\ failure = [o \in Orders |-> "none"]
  /\ scan = [w \in Workers |-> {}]
  /\ acked = {}
  /\ outbox = {}
  /\ supplies = 0

-----------------------------------------------------------------------------
(* Helpers *)

RowsOfOrder(o) == {r \in Reservations : rStatus[r] # "none" /\ rOrder[r] = o}

RowsIn(s) == {r \in Reservations : rStatus[r] = s}

\* The single units of row i that the reservations R stand for: their number is
\* the sum of the quantities.
Units(R, i) ==
  {u \in R \X (1..MaxQuantity) : rInv[u[1]] = i /\ u[2] <= rQty[u[1]]}

Quantity(R, i) == Cardinality(Units(R, i))

\* GREATEST(n, 0)
Greatest0(n) == IF n < 0 THEN 0 ELSE n

LowEvents(i, n) == IF n < LowStock THEN {<<"InventoryLow", i>>} ELSE {}

-----------------------------------------------------------------------------
(* Merchants *)

\* CreateInventory with an initial quantity, booked as RESTOCK.
Create(i, q) ==
  /\ ~created[i]
  /\ created' = [created EXCEPT ![i] = TRUE]
  /\ available' = [available EXCEPT ![i] = q]
  /\ supplied' = [supplied EXCEPT ![i] = q]
  /\ outbox' = outbox \cup {<<"InventoryCreated", i>>} \cup LowEvents(i, q)
  /\ UNCHANGED <<reserved, ledger, resv, procs, supplies>>

Restock(i, q) ==
  /\ created[i]
  /\ supplies < MaxSupplies
  /\ q > 0
  /\ available' = [available EXCEPT ![i] = @ + q]
  /\ supplied' = [supplied EXCEPT ![i] = @ + q]
  /\ outbox' = outbox \cup {<<"InventoryRestocked", i>>}
  /\ supplies' = supplies + 1
  /\ UNCHANGED <<created, reserved, ledger, resv, procs>>

\* UpdateStock sets available_quantity whatever is reserved.
UpdateStock(i, q) ==
  /\ created[i]
  /\ supplies < MaxSupplies
  /\ available' = [available EXCEPT ![i] = q]
  /\ supplied' = [supplied EXCEPT ![i] = @ + q - available[i]]
  /\ outbox' = outbox \cup LowEvents(i, q)
  /\ supplies' = supplies + 1
  /\ UNCHANGED <<created, reserved, ledger, resv, procs>>

-----------------------------------------------------------------------------
(* ReserveStock *)

HasActive(o) == \E r \in RowsOfOrder(o) : rStatus[r] \in {"RESERVED", "CONFIRMED"}

\* The look-up that makes ReserveStock idempotent: without a lock, and before
\* the rows are.  A hit returns the existing reservation and changes nothing.
ReserveCheck(c, o) ==
  /\ call[c] = NoOrder
  /\ ~HasActive(o)
  /\ call' = [call EXCEPT ![c] = o]
  /\ UNCHANGED <<stock, resv, failure, scan, acked, outbox, supplies>>

ShortOf(i, q) == available[i] < q

ItemOf(o) == ItemsOf[o][1]

\* All items share one reservation id, the primary key of the table: the insert
\* for a second item fails ("Internal") if the item's own checks do not before it.
\* The loop never gets past that item.
SecondItemFailure(o) ==
  LET item == ItemsOf[o][2]
      left == [available EXCEPT ![ItemOf(o).row] = @ - ItemOf(o).quantity]
  IN  CASE ~created[item.row] -> "NotFound"
        [] created[item.row] /\ left[item.row] < item.quantity -> "Conflict"
        [] OTHER -> "Internal"

\* What ReserveStock returns for order o, "none" when it reserves.
ReserveOutcome(o) ==
  CASE ~created[ItemOf(o).row] -> "NotFound"
    [] created[ItemOf(o).row] /\ ShortOf(ItemOf(o).row, ItemOf(o).quantity) -> "Conflict"
    [] OTHER -> IF Len(ItemsOf[o]) = 1 THEN "none" ELSE SecondItemFailure(o)

\* The transaction is rolled back: only the error is seen.
ReserveFails(c) ==
  /\ call[c] # NoOrder
  /\ ReserveOutcome(call[c]) # "none"
  /\ failure' = [failure EXCEPT ![call[c]] = ReserveOutcome(call[c])]
  /\ call' = [call EXCEPT ![c] = NoOrder]
  /\ UNCHANGED <<stock, resv, scan, acked, outbox, supplies>>

\* The locked part of ReserveStock for a one-item order, with a fresh id r.
ReserveStock(c, r) ==
  LET o == call[c]
      i == ItemOf(o).row
      q == ItemOf(o).quantity
  IN
  /\ call[c] # NoOrder
  /\ ReserveOutcome(o) = "none"
  /\ rStatus[r] = "none"
  /\ \A s \in 1..(r - 1) : rStatus[s] # "none"
  /\ available' = [available EXCEPT ![i] = @ - q]
  /\ reserved' = [reserved EXCEPT ![i] = @ + q]
  /\ ledger' = [ledger EXCEPT ![i].RESERVE = @ + q]
  /\ rStatus' = [rStatus EXCEPT ![r] = "RESERVED"]
  /\ rOrder' = [rOrder EXCEPT ![r] = o]
  /\ rInv' = [rInv EXCEPT ![r] = i]
  /\ rQty' = [rQty EXCEPT ![r] = q]
  /\ call' = [call EXCEPT ![c] = NoOrder]
  /\ outbox' = outbox \cup {<<"InventoryReserved", r>>}
                      \cup LowEvents(i, available[i] - q)
  /\ UNCHANGED <<created, supplied, rDue, failure, scan, acked, supplies>>

-----------------------------------------------------------------------------
(* ReleaseStock and CommitStock on the reservations R *)

\* Mutant: the check of the locked row's status is missing for CONFIRMED rows.
ActiveOrConfirmed(R) == {r \in R : rStatus[r] \in {"RESERVED", "CONFIRMED"}}

Active(R) == {r \in R : rStatus[r] = "RESERVED"}

ReleaseActive(A, target) ==
  /\ available' = [i \in Inventories |-> available[i] + Quantity(A, i)]
  /\ reserved' = [i \in Inventories |-> Greatest0(reserved[i] - Quantity(A, i))]
  /\ ledger' = [i \in Inventories |->
                  [ledger[i] EXCEPT !.RELEASE = @ + Quantity(A, i)]]
  /\ rStatus' = [r \in Reservations |-> IF r \in A THEN target ELSE rStatus[r]]
  /\ outbox' = outbox \cup {<<"InventoryReleased", r>> : r \in A}
  /\ UNCHANGED <<created, supplied, rOrder, rInv, rQty, rDue, call, failure, supplies>>

\* No row: NotFound.  No active row: nil.  Neither changes anything.
ReleaseStock(R) ==
  /\ Active(R) # {}
  /\ ReleaseActive(Active(R), "RELEASED")
  /\ UNCHANGED <<scan, acked>>

CommitActive(A) ==
  /\ reserved' = [i \in Inventories |-> Greatest0(reserved[i] - Quantity(A, i))]
  /\ ledger' = [i \in Inventories |->
                  [ledger[i] EXCEPT !.COMMIT = @ + Quantity(A, i)]]
  /\ rStatus' = [r \in Reservations |-> IF r \in A THEN "CONFIRMED" ELSE rStatus[r]]
  /\ outbox' = outbox \cup {<<"InventoryCommitted", r>> : r \in A}
  /\ UNCHANGED <<created, available, supplied, rOrder, rInv, rQty, rDue,
                 call, failure, scan, supplies>>

CommitStock(R) ==
  /\ Active(R) # {}
  /\ CommitActive(Active(R))
  /\ UNCHANGED acked

\* The consumer's handler of OrderConfirmed: CommitStock by order_id, where
\* NotFound and Conflict count as handled.
HandleOrderConfirmed(o) ==
  LET A == Active(RowsOfOrder(o)) IN
  /\ acked' = acked \cup {o}
  /\ IF A = {} THEN UNCHANGED <<stock, resv, call, failure, scan, outbox, supplies>>
               ELSE CommitActive(A)

-----------------------------------------------------------------------------
(* Expiration *)

Expires(r) ==
  /\ rStatus[r] = "RESERVED"
  /\ ~rDue[r]
  /\ rDue' = [rDue EXCEPT ![r] = TRUE]
  /\ UNCHANGED <<stock, rStatus, rOrder, rInv, rQty, procs, outbox, supplies>>

\* Mutant: the query looks for rows that are already marked EXPIRED.
OverdueMarked == {r \in Reservations : rStatus[r] = "EXPIRED" /\ rDue[r]}

Overdue == {r \in Reservations : rStatus[r] = "RESERVED" /\ rDue[r]}

\* A tick of StartExpirationWorker: the ids are read outside any transaction.
ExpireScan(w) ==
  /\ scan[w] = {}
  /\ Overdue # {}
  /\ scan' = [scan EXCEPT ![w] = Overdue]
  /\ UNCHANGED <<stock, resv, call, failure, acked, outbox, supplies>>

\* ReleaseStock by id with reason EXPIRED, for one id of the list.
ReleaseExpired(w, r) ==
  /\ r \in scan[w]
  /\ scan' = [scan EXCEPT ![w] = @ \ {r}]
  /\ IF Active({r}) = {} THEN UNCHANGED <<stock, resv, call, failure, outbox, supplies>>
                         ELSE ReleaseActive({r}, "EXPIRED")
  /\ UNCHANGED acked

-----------------------------------------------------------------------------
Supply ==
  \E i \in Inventories :
    \/ \E q \in SupplyQuantities : Create(i, q) \/ Restock(i, q)
    \/ \E q \in SetQuantities : UpdateStock(i, q)

Reserve ==
  \E c \in Callers :
    \/ \E o \in Orders : ReserveCheck(c, o)
    \/ ReserveFails(c)
    \/ \E r \in Reservations : ReserveStock(c, r)

\* PaymentFailed and OrderCancelled release by order, gRPC also by id.
Settle ==
  \/ \E o \in Orders :
       \/ ReleaseStock(RowsOfOrder(o))
       \/ CommitStock(RowsOfOrder(o))
       \/ HandleOrderConfirmed(o)
  \/ \E r \in Reservations : ReleaseStock({r}) \/ CommitStock({r})

ExpireStep(w) == \E r \in Reservations : ReleaseExpired(w, r)

Next ==
  \/ Supply
  \/ Reserve
  \/ Settle
  \/ \E r \in Reservations : Expires(r)
  \/ \E w \in Workers : ExpireScan(w) \/ ExpireStep(w)

\* Time passes and the workers' tickers fire.
Fairness ==
  /\ \A r \in Reservations : WF_vars(Expires(r))
  /\ \A w \in Workers : WF_vars(ExpireScan(w)) /\ WF_vars(ExpireStep(w))

Spec == Init /\ [][Next]_vars
FairSpec == Spec /\ Fairness

-----------------------------------------------------------------------------
(* Properties *)

TypeOK ==
  /\ created \in [Inventories -> BOOLEAN]
  /\ available \in [Inventories -> Nat]
  /\ reserved \in [Inventories -> Nat]
  /\ supplied \in [Inventories -> Int]
  /\ ledger \in [Inventories -> [RESERVE : Nat, RELEASE : Nat, COMMIT : Nat]]
  /\ rStatus \in [Reservations -> Statuses]
  /\ rOrder \in [Reservations -> Orders \cup {NoOrder}]
  /\ rInv \in [Reservations -> Inventories \cup {NoRow}]
  /\ rQty \in [Reservations -> 0..MaxQuantity]
  /\ rDue \in [Reservations -> BOOLEAN]
  /\ call \in [Callers -> Orders \cup {NoOrder}]
  /\ failure \in [Orders -> Failures]
  /\ scan \in [Workers -> SUBSET Reservations]
  /\ acked \subseteq Orders
  /\ supplies \in 0..MaxSupplies

\* reserved_quantity is what the RESERVED reservations hold, so that no GREATEST
\* ever hides a difference.
ReservedIsHeld ==
  \A i \in Inventories : reserved[i] = Quantity(RowsIn("RESERVED"), i)

\* No unit is lost or made: what was put in is available, reserved or committed,
\* however reservations, releases, commits and expiry interleave.
StockConserved ==
  \A i \in Inventories :
    available[i] + reserved[i] + Quantity(RowsIn("CONFIRMED"), i) = supplied[i]

\* inventory_transactions accounts for reserved_quantity.
LedgerBalances ==
  \A i \in Inventories :
    reserved[i] = ledger[i].RESERVE - ledger[i].RELEASE - ledger[i].COMMIT

\* The books of a row agree, and no quantity in them is negative (TypeOK): what is held, what
\* was supplied and what inventory_transactions tells, at once.
BooksBalance ==
  /\ TypeOK
  /\ ReservedIsHeld
  /\ StockConserved
  /\ LedgerBalances

\* What other services see: no reservation is both released and committed.
ReleasedXorCommitted ==
  \A r \in Reservations :
    ~(<<"InventoryReleased", r>> \in outbox /\ <<"InventoryCommitted", r>> \in outbox)

\* An action property: a settled reservation never changes again, though release,
\* commit and expiry of it race.
SettledStays ==
  [][\A r \in Reservations :
       rStatus[r] \in {"CONFIRMED", "RELEASED", "EXPIRED"} => rStatus'[r] = rStatus[r]]_vars

\* The worker's purpose: stock is not held for ever.
EventuallyFreed ==
  \A r \in Reservations : rStatus[r] = "RESERVED" ~> rStatus[r] # "RESERVED"
=============================================================================
