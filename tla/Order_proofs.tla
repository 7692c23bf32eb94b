----------------------------- MODULE Order_proofs -----------------------------
(***************************************************************************)
(* Proofs about Order for any requests, keys, users, stores and handlers.  *)
(* LifeInv carries the life of an order (its history, payment status and   *)
(* events follow its status); KeyInv carries the idempotency of checkout.  *)
(***************************************************************************)
EXTENDS Order, SequenceTheorems, TLAPS

\* An event goes with the status its handler asks for.
WriteShape ==
  \A p \in Procs : \A w \in proc[p] :
    /\ w.event = "OrderConfirmed" => w.to = "CONFIRMED"
    /\ w.event = "OrderPaymentFailed" => w.to = "PAYMENT_FAILED"
    /\ w.event = "OrderCancelled" => w.to = "CANCELLED"
    /\ w.event # "OrderCreated"

\* What was announced bounds where the order can be.
EventsFitStatus ==
  \A o \in Orders :
    LET e == events[o] IN
    \/ status[o] = None /\ e = <<>>
    \/ status[o] # None /\ e = <<"OrderCreated">>
    \/ /\ e = <<"OrderCreated", "OrderConfirmed">>
       /\ status[o] \notin {None, "CREATED", "PENDING_PAYMENT", "PAID", "PAYMENT_FAILED"}
    \/ /\ status[o] = "CANCELLED"
       /\ e \in {<<"OrderCreated", "OrderCancelled">>,
                 <<"OrderCreated", "OrderConfirmed", "OrderCancelled">>}
    \/ status[o] = "PAYMENT_FAILED" /\ e = <<"OrderCreated", "OrderPaymentFailed">>

\* The inductive invariant.
LifeInv ==
  /\ TypeOK
  /\ WriteShape
  /\ HistoryIsChain
  /\ PaymentMatchesStatus
  /\ EventsFitStatus

-----------------------------------------------------------------------------
(* Facts about the state machine *)

\* Statuses are closed under the transitions.
LEMMA SuccessorsInStatuses == \A s : Successors(s) \subseteq Statuses
BY DEF Successors, Statuses

\* A stored order is told from one that is not.
LEMMA NoneIsNoStatus == None \notin Statuses
BY DEF None, Statuses

\* Nothing follows a closed status.
LEMMA ClosedHasNoSuccessor ==
  \A s \in {"CANCELLED", "PAYMENT_FAILED", "REFUNDED", None} : Successors(s) = {}
BY DEF Successors, None

\* CONFIRMED and PAYMENT_FAILED are entered from the first statuses only, and
\* nothing enters CREATED; what follows CONFIRMED is never an earlier status.
LEMMA TransitionFacts ==
  ASSUME NEW s, NEW t, t \in Successors(s)
  PROVE  /\ t = "CONFIRMED" => s \in {"CREATED", "PENDING_PAYMENT", "PAID"}
         /\ t = "PAYMENT_FAILED" => s \in {"CREATED", "PENDING_PAYMENT"}
         /\ t = "PENDING_PAYMENT" => s = "CREATED"
         /\ t = "PAID" => s \in {"CREATED", "PENDING_PAYMENT"}
         /\ t # "CREATED"
         /\ t = "CANCELLED" => CanCancel(s)
         /\ t = "PROCESSING" => s \in {"PAID", "CONFIRMED"}
         /\ t = "SHIPPED" => s = "PROCESSING"
         /\ t = "OUT_FOR_DELIVERY" => s = "SHIPPED"
         /\ t = "DELIVERED" => s = "OUT_FOR_DELIVERY"
         /\ t = "RETURN_REQUESTED" => s = "DELIVERED"
         /\ t = "RETURNED" => s = "RETURN_REQUESTED"
         /\ t = "REFUNDED" => s \in {"RETURN_REQUESTED", "RETURNED"}
BY DEF Successors, CanCancel

\* CanCancel agrees with the table of transitions.
LEMMA CancelIsTransition == \A s : CanCancel(s) => "CANCELLED" \in Successors(s)
BY DEF Successors, CanCancel

\* Append on the short sequences of events.
LEMMA AppendToTuple ==
  /\ \A x, y : Append(<<x>>, y) = <<x, y>>
  /\ \A x, y, z : Append(<<x, y>>, z) = <<x, y, z>>
<1>1. ASSUME NEW x, NEW y PROVE Append(<<x>>, y) = <<x, y>>
  <2> DEFINE S == {x, y}
  <2>1. <<x>> \in Seq(S) /\ <<x, y>> \in Seq(S) /\ y \in S OBVIOUS
  <2>2. /\ Append(<<x>>, y) \in Seq(S) /\ Len(Append(<<x>>, y)) = 2
        /\ Append(<<x>>, y)[1] = x /\ Append(<<x>>, y)[2] = y
    BY <2>1
  <2>3. Len(<<x, y>>) = 2 /\ <<x, y>>[1] = x /\ <<x, y>>[2] = y OBVIOUS
  <2>4. \A i \in 1..2 : i = 1 \/ i = 2 OBVIOUS
  <2> HIDE DEF S
  <2> QED BY <2>1, <2>2, <2>3, <2>4, SeqEqual
<1>2. ASSUME NEW x, NEW y, NEW z PROVE Append(<<x, y>>, z) = <<x, y, z>>
  <2> DEFINE S == {x, y, z}
  <2>1. <<x, y>> \in Seq(S) /\ <<x, y, z>> \in Seq(S) /\ z \in S OBVIOUS
  <2>2. /\ Append(<<x, y>>, z) \in Seq(S) /\ Len(Append(<<x, y>>, z)) = 3
        /\ Append(<<x, y>>, z)[1] = x /\ Append(<<x, y>>, z)[2] = y
        /\ Append(<<x, y>>, z)[3] = z
    BY <2>1
  <2>3. /\ Len(<<x, y, z>>) = 3 /\ <<x, y, z>>[1] = x /\ <<x, y, z>>[2] = y
        /\ <<x, y, z>>[3] = z
    OBVIOUS
  <2>4. \A i \in 1..3 : i = 1 \/ i = 2 \/ i = 3 OBVIOUS
  <2> HIDE DEF S
  <2> QED BY <2>1, <2>2, <2>3, <2>4, SeqEqual
<1> QED BY <1>1, <1>2

-----------------------------------------------------------------------------
(* A change of status *)

\* What WriteStatus and WriteCancel have in common: a valid transition, booked.
Changed(p, w) ==
  /\ w \in proc[p]
  /\ w.to \in Successors(status[w.order])
  /\ \E new \in PaymentStatuses :
       /\ new = IF w.to = "CANCELLED" THEN payment[w.order]
                ELSE NewPaymentStatus(w.to, payment[w.order])
       /\ Change(p, w, new)

\* Both writes of the repository are such changes.
LEMMA WriteChanges ==
  ASSUME LifeInv, NEW p \in Procs, NEW w \in Writes, WriteStatus(p, w) \/ WriteCancel(p, w)
  PROVE  Changed(p, w)
<1> USE DEF LifeInv, TypeOK, Writes
<1>1. payment[w.order] \in PaymentStatuses OBVIOUS
<1>2. \A t : NewPaymentStatus(t, payment[w.order]) \in PaymentStatuses
  BY <1>1 DEF NewPaymentStatus, PaymentStatuses
<1>3. NewPaymentStatus("CANCELLED", payment[w.order]) = payment[w.order]
  BY DEF NewPaymentStatus
<1>4. CASE WriteStatus(p, w)
  BY <1>1, <1>2, <1>3, <1>4 DEF WriteStatus, Changed, IsValidTransition
<1>5. CASE WriteCancel(p, w)
  <2>1. w.to = "CANCELLED" BY <1>5 DEF WriteCancel, WriteShape
  <2> QED BY <1>1, <1>5, <2>1, CancelIsTransition DEF WriteCancel, Changed
<1> QED BY <1>4, <1>5

\* A change keeps the history, payment status and events in step.
LEMMA ChangeLife ==
  ASSUME LifeInv, NEW p \in Procs, NEW w \in Writes, Changed(p, w)
  PROVE  LifeInv'
<1> DEFINE o == w.order
           row == [from |-> status[o], to |-> w.to]
<1>1. PICK new \in PaymentStatuses :
        /\ new = IF w.to = "CANCELLED" THEN payment[o] ELSE NewPaymentStatus(w.to, payment[o])
        /\ Change(p, w, new)
  BY DEF Changed
<1>2. o \in Orders /\ w.to \in Statuses /\ w.event \in EventTypes \cup {None}
  BY DEF Writes
<1>3. TypeOK /\ w.to \in Successors(status[o]) /\ w \in proc[p]
  BY DEF LifeInv, Changed
<1>4. status[o] \in Statuses
  <2>1. status[o] # None BY <1>3, ClosedHasNoSuccessor
  <2> QED BY <1>2, <1>3, <2>1 DEF TypeOK
<1> HIDE DEF o
<1>5. /\ status' = [status EXCEPT ![o] = w.to]
      /\ payment' = [payment EXCEPT ![o] = new]
      /\ history' = [history EXCEPT ![o] = Append(@, row)]
      /\ events' = [events EXCEPT ![o] = IF w.event = None THEN @ ELSE Append(@, w.event)]
      /\ proc' = [proc EXCEPT ![p] = {}]
      /\ UNCHANGED <<phase, answer, errors>>
  BY <1>1 DEF Change, create, o
<1>6. row \in [from : Statuses \cup {None}, to : Statuses]
  BY <1>2, <1>4
<1>7. TypeOK'
  <2>1. status' \in [Orders -> Statuses \cup {None}] BY <1>2, <1>3, <1>5 DEF TypeOK
  <2>2. payment' \in [Orders -> PaymentStatuses] BY <1>1, <1>2, <1>3, <1>5 DEF TypeOK
  <2>3. history' \in [Orders -> Seq([from : Statuses \cup {None}, to : Statuses])]
    <3> DEFINE S == [from : Statuses \cup {None}, to : Statuses]
    <3>1. history \in [Orders -> Seq(S)] BY <1>3 DEF TypeOK
    <3>0. row \in S BY <1>6
    <3> HIDE DEF S, row
    <3>2. Append(history[o], row) \in Seq(S) BY <1>2, <3>0, <3>1
    <3> QED BY <1>2, <1>5, <3>1, <3>2 DEF S
  <2>4. events' \in [Orders -> Seq(EventTypes)]
    <3>1. events \in [Orders -> Seq(EventTypes)] BY <1>3 DEF TypeOK
    <3>2. w.event # None => Append(events[o], w.event) \in Seq(EventTypes)
      BY <1>2, <3>1
    <3> QED BY <1>2, <1>5, <3>1, <3>2
  <2>5. proc' \in [Procs -> SUBSET Writes] BY <1>3, <1>5 DEF TypeOK
  <2> QED BY <1>3, <1>5, <2>1, <2>2, <2>3, <2>4, <2>5 DEF TypeOK
<1>8. WriteShape'
  BY <1>3, <1>5 DEF LifeInv, TypeOK, WriteShape
<1>9. HistoryIsChain'
  <2> SUFFICES ASSUME NEW q \in Orders, Exists(q)'
               PROVE  /\ history'[q] # <<>> /\ history'[q][1] = [from |-> None, to |-> "CREATED"]
                      /\ history'[q][Len(history'[q])].to = status'[q]
                      /\ \A n \in 2..Len(history'[q]) :
                           /\ history'[q][n].from = history'[q][n - 1].to
                           /\ history'[q][n].to \in Successors(history'[q][n].from)
    BY DEF HistoryIsChain
  <2>1. CASE q # o
    <3>1. history'[q] = history[q] /\ status'[q] = status[q]
      BY <1>3, <1>5, <2>1 DEF TypeOK
    <3> QED BY <2>1, <3>1 DEF LifeInv, HistoryIsChain, Exists
  <2>2. CASE q = o
    <3> DEFINE h == history[o]
               g == history'[o]
    <3>1. /\ h # <<>> /\ h[1] = [from |-> None, to |-> "CREATED"]
          /\ h[Len(h)].to = status[o]
          /\ \A n \in 2..Len(h) : h[n].from = h[n - 1].to /\ h[n].to \in Successors(h[n].from)
      BY <1>2, <1>4, NoneIsNoStatus DEF LifeInv, HistoryIsChain, Exists
    <3>2. g = Append(h, row) /\ status'[o] = w.to
      BY <1>2, <1>3, <1>5 DEF TypeOK
    <3>3. h \in Seq([from : Statuses \cup {None}, to : Statuses])
      BY <1>2, <1>3 DEF TypeOK
    <3> HIDE DEF h, g, row
    <3>4. /\ Len(h) \in Nat /\ Len(h) > 0 /\ Len(g) = Len(h) + 1
          /\ g[Len(h) + 1] = row
          /\ \A n \in 1..Len(h) : g[n] = h[n]
      BY <3>1, <3>2, <3>3
    <3>5. row.from = status[o] /\ row.to = w.to BY DEF row
    <3>6. \A n \in 2..Len(g) : g[n].from = g[n - 1].to /\ g[n].to \in Successors(g[n].from)
      <4> TAKE n \in 2..Len(g)
      <4>1. CASE n \in 2..Len(h)
        <5>1. n \in 1..Len(h) /\ n - 1 \in 1..Len(h) BY <4>1, <3>4
        <5> QED BY <4>1, <5>1, <3>1, <3>4
      <4>2. CASE n = Len(h) + 1
        <5>1. g[n] = row /\ g[n - 1] = h[Len(h)] BY <4>2, <3>4
        <5> QED BY <5>1, <3>1, <3>5, <1>3
      <4> QED BY <4>1, <4>2, <3>4
    <3>7. g # <<>> /\ g[1] = h[1] /\ g[Len(g)] = row BY <3>4
    <3> QED BY <2>2, <3>1, <3>2, <3>5, <3>6, <3>7 DEF g
  <2> QED BY <2>1, <2>2
<1>10. PaymentMatchesStatus'
  <2> SUFFICES ASSUME NEW q \in Orders
               PROVE  /\ status'[q] \in {"PAID", "CONFIRMED", "PROCESSING", "SHIPPED",
                                         "OUT_FOR_DELIVERY", "DELIVERED", "RETURN_REQUESTED",
                                         "RETURNED"} => payment'[q] = "PAID"
                      /\ status'[q] \in {"CREATED", "PENDING_PAYMENT", None} =>
                           payment'[q] = "PENDING"
                      /\ status'[q] = "PAYMENT_FAILED" <=> payment'[q] = "FAILED"
                      /\ status'[q] = "REFUNDED" <=> payment'[q] = "REFUNDED"
    BY DEF PaymentMatchesStatus
  <2>1. CASE q # o
    <3>1. status'[q] = status[q] /\ payment'[q] = payment[q] BY <1>3, <1>5, <2>1 DEF TypeOK
    <3> QED BY <3>1 DEF LifeInv, PaymentMatchesStatus
  <2>2. CASE q = o
    <3>1. status'[o] = w.to /\ payment'[o] = new BY <1>2, <1>3, <1>5 DEF TypeOK
    <3>2. w.to # None BY <1>2, NoneIsNoStatus
    <3>3. new = IF w.to = "CANCELLED" THEN payment[o] ELSE NewPaymentStatus(w.to, payment[o])
      BY <1>1
    <3>4. CanCancel(status[o]) => payment[o] \in {"PENDING", "PAID"}
      BY <1>2 DEF LifeInv, PaymentMatchesStatus, CanCancel
    <3>5. CASE w.to = "CANCELLED"
      BY <2>2, <1>3, <3>1, <3>3, <3>4, <3>5, TransitionFacts DEF None
    <3>6. CASE w.to \in {"PAID", "CONFIRMED", "PAYMENT_FAILED", "REFUNDED", "PENDING_PAYMENT"}
      BY <2>2, <3>1, <3>3, <3>6 DEF NewPaymentStatus, None
    <3>7. CASE w.to \in {"PROCESSING", "SHIPPED", "OUT_FOR_DELIVERY", "DELIVERED",
                         "RETURN_REQUESTED", "RETURNED"}
      <4>1. new = payment[o] BY <3>3, <3>7 DEF NewPaymentStatus
      <4>2. status[o] \in {"PAID", "CONFIRMED", "PROCESSING", "SHIPPED", "OUT_FOR_DELIVERY",
                           "DELIVERED", "RETURN_REQUESTED"}
        BY <1>3, <3>7, TransitionFacts
      <4>3. payment[o] = "PAID" BY <1>2, <4>2 DEF LifeInv, PaymentMatchesStatus
      <4> QED BY <2>2, <3>1, <3>7, <4>1, <4>3 DEF None
    <3>8. w.to # "CREATED" BY <1>3, TransitionFacts
    <3> QED BY <1>2, <3>5, <3>6, <3>7, <3>8 DEF Statuses
  <2> QED BY <2>1, <2>2
<1>11. EventsFitStatus'
  <2> SUFFICES ASSUME NEW q \in Orders
               PROVE  LET e == events'[q] IN
                      \/ status'[q] = None /\ e = <<>>
                      \/ status'[q] # None /\ e = <<"OrderCreated">>
                      \/ /\ e = <<"OrderCreated", "OrderConfirmed">>
                         /\ status'[q] \notin {None, "CREATED", "PENDING_PAYMENT", "PAID", "PAYMENT_FAILED"}
                      \/ /\ status'[q] = "CANCELLED"
                         /\ e \in {<<"OrderCreated", "OrderCancelled">>,
                                   <<"OrderCreated", "OrderConfirmed", "OrderCancelled">>}
                      \/ status'[q] = "PAYMENT_FAILED" /\ e = <<"OrderCreated", "OrderPaymentFailed">>
    BY DEF EventsFitStatus
  <2>1. CASE q # o
    <3>1. status'[q] = status[q] /\ events'[q] = events[q] BY <1>3, <1>5, <2>1 DEF TypeOK
    <3> QED BY <3>1 DEF LifeInv, EventsFitStatus
  <2>2. CASE q = o
    <3>1. status'[o] = w.to /\ w.to # None
      BY <1>2, <1>3, <1>5, NoneIsNoStatus DEF TypeOK
    <3>2. events'[o] = IF w.event = None THEN events[o] ELSE Append(events[o], w.event)
      BY <1>2, <1>3, <1>5 DEF TypeOK
    <3>3. /\ w.event = "OrderConfirmed" => w.to = "CONFIRMED"
          /\ w.event = "OrderPaymentFailed" => w.to = "PAYMENT_FAILED"
          /\ w.event = "OrderCancelled" => w.to = "CANCELLED"
          /\ w.event # "OrderCreated"
      BY <1>3 DEF LifeInv, WriteShape
    <3>4. \/ events[o] = <<"OrderCreated">>
          \/ /\ events[o] = <<"OrderCreated", "OrderConfirmed">>
             /\ status[o] \notin {"CREATED", "PENDING_PAYMENT", "PAID"}
      <4>1. status[o] \notin {None, "CANCELLED", "PAYMENT_FAILED"}
        BY <1>3, ClosedHasNoSuccessor
      <4> QED BY <1>2, <4>1 DEF LifeInv, EventsFitStatus
    <3>5. CASE events[o] = <<"OrderCreated">>
      <4>1. CASE w.event = None BY <2>2, <3>1, <3>2, <3>5, <4>1
      <4>2. CASE w.event = "OrderConfirmed"
        BY <2>2, <3>1, <3>2, <3>3, <3>5, <4>2, AppendToTuple DEF None
      <4>3. CASE w.event = "OrderPaymentFailed"
        BY <2>2, <3>1, <3>2, <3>3, <3>5, <4>3, AppendToTuple DEF None
      <4>4. CASE w.event = "OrderCancelled"
        BY <2>2, <3>1, <3>2, <3>3, <3>5, <4>4, AppendToTuple DEF None
      <4> QED BY <1>2, <3>3, <4>1, <4>2, <4>3, <4>4 DEF EventTypes
    <3>6. CASE /\ events[o] = <<"OrderCreated", "OrderConfirmed">>
               /\ status[o] \notin {"CREATED", "PENDING_PAYMENT", "PAID"}
      <4>1. w.to \notin {"CREATED", "PENDING_PAYMENT", "PAID", "CONFIRMED", "PAYMENT_FAILED"}
        BY <1>3, <3>6, TransitionFacts
      <4>2. CASE w.event = None BY <2>2, <3>1, <3>2, <3>6, <4>1, <4>2
      <4>3. CASE w.event = "OrderCancelled"
        BY <2>2, <3>1, <3>2, <3>3, <3>6, <4>3, AppendToTuple DEF None
      <4> QED BY <1>2, <3>3, <4>1, <4>2, <4>3 DEF EventTypes
    <3> QED BY <3>4, <3>5, <3>6
  <2> QED BY <2>1, <2>2
<1> QED BY <1>7, <1>8, <1>9, <1>10, <1>11 DEF LifeInv
-----------------------------------------------------------------------------
(* LifeInv *)

\* Nothing is stored at first.
LEMMA InitLife == Init => LifeInv
<1> SUFFICES ASSUME Init PROVE LifeInv OBVIOUS
<1> USE DEF Init
<1>1. TypeOK
  <2>1. errors \in 0..MaxErrors BY OrderAssumption
  <2>2. history \in [Orders -> Seq([from : Statuses \cup {None}, to : Statuses])]
    <3> DEFINE S == [from : Statuses \cup {None}, to : Statuses]
    <3> HIDE DEF S
    <3>1. <<>> \in Seq(S) OBVIOUS
    <3> QED BY <3>1 DEF S
  <2>3. events \in [Orders -> Seq(EventTypes)] OBVIOUS
  <2> QED BY <2>1, <2>2, <2>3 DEF TypeOK, Phases, PaymentStatuses
<1>2. WriteShape BY DEF WriteShape
<1>3. HistoryIsChain BY DEF HistoryIsChain, Exists
<1>4. PaymentMatchesStatus BY DEF PaymentMatchesStatus, None
<1>5. EventsFitStatus BY DEF EventsFitStatus
<1> QED BY <1>1, <1>2, <1>3, <1>4, <1>5 DEF LifeInv

\* Steps that leave the orders alone.
LEMMA SameOrders ==
  ASSUME LifeInv, TypeOK', WriteShape', UNCHANGED life
  PROVE  LifeInv'
<1>1. HistoryIsChain' BY DEF LifeInv, life, HistoryIsChain, Exists
<1>2. PaymentMatchesStatus' BY DEF LifeInv, life, PaymentMatchesStatus
<1>3. EventsFitStatus' BY DEF LifeInv, life, EventsFitStatus
<1> QED BY <1>1, <1>2, <1>3 DEF LifeInv

\* A request that stores nothing.
LEMMA RequestLife ==
  ASSUME LifeInv, NEW c \in Calls, CheckKey(c) \/ CreateFails(c) \/ InsertRejected(c)
  PROVE  LifeInv'
<1> USE DEF LifeInv, life
<1>1. WriteShape'
  BY DEF CheckKey, CreateFails, InsertRejected, WriteShape
<1>2. TypeOK'
  <2>1. CASE CheckKey(c)
    <3>1. HoldersOf(KeyOf[c]) \subseteq Calls BY DEF HoldersOf
    <3>2. answer' \in [Calls -> SUBSET Calls]
      BY <2>1, <3>1 DEF CheckKey, Lookup, TypeOK
    <3>3. phase' \in [Calls -> Phases] BY <2>1 DEF CheckKey, TypeOK, Phases
    <3> QED BY <2>1, <3>2, <3>3 DEF CheckKey, TypeOK
  <2>2. CASE CreateFails(c)
    <3>1. errors' \in 0..MaxErrors BY <2>2, OrderAssumption DEF CreateFails, TypeOK
    <3>2. phase' \in [Calls -> Phases] BY <2>2 DEF CreateFails, TypeOK, Phases
    <3> QED BY <2>2, <3>1, <3>2 DEF CreateFails, TypeOK
  <2>3. CASE InsertRejected(c)
    <3>1. phase' \in [Calls -> Phases] BY <2>3 DEF InsertRejected, TypeOK, Phases
    <3> QED BY <2>3, <3>1 DEF InsertRejected, TypeOK
  <2> QED BY <2>1, <2>2, <2>3
<1>3. UNCHANGED life BY DEF CheckKey, CreateFails, InsertRejected
<1> QED BY <1>1, <1>2, <1>3, SameOrders

\* The insert: the constraint says that none of the orders was stored.
LEMMA CreateLife ==
  ASSUME LifeInv, NEW c \in Calls, CreateOrdersWithOutbox(c)
  PROVE  LifeInv'
<1> DEFINE own == {o \in Orders : o[1] = c}
           first == [from |-> None, to |-> "CREATED"]
<1>1. /\ phase' = [phase EXCEPT ![c] = "created"]
      /\ answer' = [answer EXCEPT ![c] = {c}]
      /\ status' = [o \in Orders |-> IF o \in own THEN "CREATED" ELSE status[o]]
      /\ history' = [o \in Orders |-> IF o \in own THEN <<first>> ELSE history[o]]
      /\ events' = [o \in Orders |-> IF o \in own THEN <<"OrderCreated">> ELSE events[o]]
      /\ UNCHANGED <<payment, proc, errors>>
  BY DEF CreateOrdersWithOutbox
<1>2. \A o \in own : status[o] = None
  <2> SUFFICES ASSUME NEW o \in own PROVE status[o] = None OBVIOUS
  <2>1. o = <<c, o[2]>> /\ o[2] \in Stores BY DEF Orders
  <2>2. HoldersOf(KeyOf[c]) = {} BY DEF CreateOrdersWithOutbox, KeyTaken
  <2>3. ~Exists(<<c, o[2]>>) BY <2>1, <2>2 DEF HoldersOf
  <2> QED BY <2>1, <2>3 DEF Exists
<1> HIDE DEF own
<1>3. TypeOK'
  <2>1. phase' \in [Calls -> Phases] BY <1>1 DEF LifeInv, TypeOK, Phases
  <2>2. answer' \in [Calls -> SUBSET Calls] BY <1>1 DEF LifeInv, TypeOK
  <2>3. status' \in [Orders -> Statuses \cup {None}] BY <1>1 DEF LifeInv, TypeOK, Statuses
  <2>4. history' \in [Orders -> Seq([from : Statuses \cup {None}, to : Statuses])]
    <3> DEFINE S == [from : Statuses \cup {None}, to : Statuses]
    <3>1. first \in S BY DEF Statuses
    <3>2. history \in [Orders -> Seq(S)] BY DEF LifeInv, TypeOK
    <3> HIDE DEF S, first
    <3>3. <<first>> \in Seq(S) BY <3>1
    <3> QED BY <1>1, <3>2, <3>3 DEF S
  <2>5. events' \in [Orders -> Seq(EventTypes)]
    <3>1. <<"OrderCreated">> \in Seq(EventTypes) BY DEF EventTypes
    <3> QED BY <1>1, <3>1 DEF LifeInv, TypeOK
  <2> QED BY <1>1, <2>1, <2>2, <2>3, <2>4, <2>5 DEF LifeInv, TypeOK
<1>4. WriteShape' BY <1>1 DEF LifeInv, WriteShape
<1>5. HistoryIsChain'
  <2> SUFFICES ASSUME NEW q \in Orders, Exists(q)'
               PROVE  /\ history'[q] # <<>> /\ history'[q][1] = [from |-> None, to |-> "CREATED"]
                      /\ history'[q][Len(history'[q])].to = status'[q]
                      /\ \A n \in 2..Len(history'[q]) :
                           /\ history'[q][n].from = history'[q][n - 1].to
                           /\ history'[q][n].to \in Successors(history'[q][n].from)
    BY DEF HistoryIsChain
  <2>1. CASE q \in own
    <3>1. history'[q] = <<first>> /\ status'[q] = "CREATED" BY <1>1, <2>1
    <3>2. Len(<<first>>) = 1 /\ <<first>>[1] = first /\ <<first>> # <<>> OBVIOUS
    <3>3. 2..1 = {} OBVIOUS
    <3> QED BY <3>1, <3>2, <3>3
  <2>2. CASE q \notin own
    <3>1. history'[q] = history[q] /\ status'[q] = status[q] BY <1>1, <2>2
    <3> QED BY <3>1 DEF LifeInv, HistoryIsChain, Exists
  <2> QED BY <2>1, <2>2
<1>6. PaymentMatchesStatus'
  <2>1. \A q \in own : status'[q] = "CREATED" /\ payment'[q] = "PENDING"
    BY <1>1, <1>2 DEF LifeInv, PaymentMatchesStatus, own
  <2>2. \A q \in Orders \ own : status'[q] = status[q] /\ payment'[q] = payment[q]
    BY <1>1
  <2> QED BY <2>1, <2>2 DEF LifeInv, PaymentMatchesStatus
<1>7. EventsFitStatus'
  <2>1. \A q \in own : status'[q] # None /\ events'[q] = <<"OrderCreated">>
    BY <1>1 DEF own, None
  <2>2. \A q \in Orders \ own : status'[q] = status[q] /\ events'[q] = events[q]
    BY <1>1
  <2> QED BY <2>1, <2>2 DEF LifeInv, EventsFitStatus
<1> QED BY <1>3, <1>4, <1>5, <1>6, <1>7 DEF LifeInv

\* A service reads an order.
Reads(p, o) ==
  \/ \E to \in Statuses : UpdateOrderStatus(p, o, to)
  \/ HandleEvent(p, o)
  \/ CancelOrder(p, o)

\* A read prepares a write of the right shape.
LEMMA ReadLife ==
  ASSUME LifeInv, NEW p \in Procs, NEW o \in Orders, Reads(p, o)
  PROVE  LifeInv'
<1>1. PICK w \in Writes :
        /\ proc' = [proc EXCEPT ![p] = {w}]
        /\ UNCHANGED <<create, life>>
        /\ w.event = "OrderConfirmed" => w.to = "CONFIRMED"
        /\ w.event = "OrderPaymentFailed" => w.to = "PAYMENT_FAILED"
        /\ w.event = "OrderCancelled" => w.to = "CANCELLED"
        /\ w.event # "OrderCreated"
  <2>1. CASE \E to \in Statuses : UpdateOrderStatus(p, o, to)
    <3> PICK to \in Statuses : UpdateOrderStatus(p, o, to) BY <2>1
    <3> DEFINE w == [order |-> o, to |-> to, event |-> None]
    <3>1. w \in Writes BY DEF Writes
    <3> QED BY <3>1 DEF UpdateOrderStatus, ReadFor, None
  <2>2. CASE HandlePaymentSuccessful(p, o)
    <3> DEFINE w == [order |-> o, to |-> "CONFIRMED", event |-> "OrderConfirmed"]
    <3>1. w \in Writes BY DEF Writes, Statuses, EventTypes
    <3> QED BY <2>2, <3>1 DEF HandlePaymentSuccessful, ReadFor
  <2>3. CASE HandlePaymentFailed(p, o)
    <3> DEFINE w == [order |-> o, to |-> "PAYMENT_FAILED", event |-> "OrderPaymentFailed"]
    <3>1. w \in Writes BY DEF Writes, Statuses, EventTypes
    <3> QED BY <2>3, <3>1 DEF HandlePaymentFailed, ReadFor
  <2>4. CASE CancelOrder(p, o)
    <3> DEFINE w == [order |-> o, to |-> "CANCELLED", event |-> "OrderCancelled"]
    <3>1. w \in Writes BY DEF Writes, Statuses, EventTypes
    <3> QED BY <2>4, <3>1 DEF CancelOrder, ReadFor
  <2> QED BY <2>1, <2>2, <2>3, <2>4 DEF Reads, HandleEvent
<1>2. TypeOK' BY <1>1 DEF LifeInv, TypeOK, create, life
<1>3. WriteShape' BY <1>1 DEF LifeInv, TypeOK, WriteShape
<1> QED BY <1>1, <1>2, <1>3, SameOrders

\* A handler that ends without a write changes no order.
LEMMA GiveUpLife ==
  ASSUME LifeInv, NEW p \in Procs, GiveUp(p)
  PROVE  LifeInv'
<1>1. TypeOK' BY DEF LifeInv, TypeOK, GiveUp, create, life
<1>2. WriteShape' BY DEF LifeInv, TypeOK, WriteShape, GiveUp
<1> QED BY <1>1, <1>2, SameOrders DEF GiveUp

\* Every step keeps LifeInv.
LEMMA StepLife == LifeInv /\ [Next]_vars => LifeInv'
<1> SUFFICES ASSUME LifeInv, [Next]_vars PROVE LifeInv' OBVIOUS
<1>0. \A p \in Procs : proc[p] \subseteq Writes BY DEF LifeInv, TypeOK
<1>1. ASSUME NEW c \in Calls, CreateStep(c) \/ CreateFails(c) PROVE LifeInv'
  BY <1>1, RequestLife, CreateLife DEF CreateStep
<1>2. ASSUME NEW p \in Procs, NEW o \in Orders, Reads(p, o) PROVE LifeInv'
  BY <1>2, ReadLife
<1>3. ASSUME NEW p \in Procs, NEW w \in Writes, WriteStatus(p, w) \/ WriteCancel(p, w)
      PROVE  LifeInv'
  BY <1>3, WriteChanges, ChangeLife
<1>4. ASSUME NEW p \in Procs, GiveUp(p) PROVE LifeInv'
  BY <1>4, GiveUpLife
<1>5. CASE UNCHANGED vars
  <2>1. TypeOK' BY <1>5 DEF LifeInv, TypeOK, vars, create, life
  <2>2. WriteShape' BY <1>5 DEF LifeInv, WriteShape, vars
  <2> QED BY <1>5, <2>1, <2>2, SameOrders DEF vars
<1> QED BY <1>0, <1>1, <1>2, <1>3, <1>4, <1>5 DEF Next, Reads

\* The inductive invariant of the life of an order: what its history, payment status
\* and events have to do with its status after any handlers.
THEOREM LifeInvariant == Spec => []LifeInv
<1> QED BY InitLife, StepLife, PTL DEF Spec
\* The types of all rows and requests are kept by every operation.
THEOREM OrderTypeCorrect == Spec => []TypeOK
<1> QED BY LifeInvariant, PTL DEF LifeInv

\* Stale reads in UpdateOrderStatus and the event handlers never break the chain in
\* order_status_history.
THEOREM HistoryIsAlwaysChain == Spec => []HistoryIsChain
<1> QED BY LifeInvariant, PTL DEF LifeInv

\* payment_status follows status in UpdateOrderStatusWithOutbox and CancelOrder.
THEOREM PaymentAlwaysMatches == Spec => []PaymentMatchesStatus
<1> QED BY LifeInvariant, PTL DEF LifeInv

\* Redelivered and racing payment events, cancellations and administrators never
\* make order-service announce an order twice or contradict itself.
THEOREM EventsToldOnce == Spec => []EventsTellOnce
<1>1. LifeInv => EventsTellOnce BY DEF LifeInv, EventsFitStatus, EventsTellOnce
<1> QED BY <1>1, LifeInvariant, PTL

\* No interleaving reopens a closed order or cancels a shipped one.
THEOREM ClosedForGood == Spec => Irrevocable
<1> DEFINE A == \A o \in Orders :
       /\ status[o] \in {"CANCELLED", "PAYMENT_FAILED", "REFUNDED"} => status'[o] = status[o]
       /\ status[o] \in {"SHIPPED", "OUT_FOR_DELIVERY", "DELIVERED"} => status'[o] # "CANCELLED"
<1>1. LifeInv /\ [Next]_vars => [A]_vars
  <2> SUFFICES ASSUME LifeInv, Next PROVE A OBVIOUS
  <2>1. CASE UNCHANGED status BY <2>1
  <2>2. ASSUME NEW c \in Calls, CreateOrdersWithOutbox(c) PROVE A
    <3> SUFFICES ASSUME NEW o \in Orders, status[o] # None PROVE status'[o] = status[o]
      BY DEF None
    <3>1. o[1] # c
      <4> SUFFICES ASSUME o[1] = c PROVE FALSE OBVIOUS
      <4>1. o = <<c, o[2]>> /\ o[2] \in Stores BY DEF Orders
      <4>2. HoldersOf(KeyOf[c]) = {} BY <2>2 DEF CreateOrdersWithOutbox, KeyTaken
      <4> QED BY <4>1, <4>2 DEF HoldersOf, Exists
    <3> QED BY <2>2, <3>1 DEF CreateOrdersWithOutbox
  <2>3. ASSUME NEW p \in Procs, NEW w \in Writes, WriteStatus(p, w) \/ WriteCancel(p, w)
        PROVE  A
    <3>1. /\ status' = [status EXCEPT ![w.order] = w.to]
          /\ w.to \in Successors(status[w.order])
          /\ w.order \in Orders
      BY <2>3, WriteChanges DEF Changed, Change, Writes
    <3>2. status[w.order] \notin {"CANCELLED", "PAYMENT_FAILED", "REFUNDED"}
      BY <3>1, ClosedHasNoSuccessor
    <3>3. w.to = "CANCELLED" => status[w.order] \notin {"SHIPPED", "OUT_FOR_DELIVERY", "DELIVERED"}
      BY <3>1, TransitionFacts DEF CanCancel
    <3> QED BY <3>1, <3>2, <3>3 DEF LifeInv, TypeOK
  <2>0. \A p \in Procs : proc[p] \subseteq Writes BY DEF LifeInv, TypeOK
  <2>4. \/ UNCHANGED status
        \/ \E c \in Calls : CreateOrdersWithOutbox(c)
        \/ \E p \in Procs, w \in Writes : WriteStatus(p, w) \/ WriteCancel(p, w)
    BY <2>0 DEF Next, CreateStep, CheckKey, CreateFails, InsertRejected, UpdateOrderStatus,
           HandleEvent, HandlePaymentSuccessful,
           HandlePaymentFailed, CancelOrder, ReadFor, GiveUp, life
  <2> QED BY <2>1, <2>2, <2>3, <2>4
<1> HIDE DEF A
<1>2. Spec => [][A]_vars BY <1>1, LifeInvariant, PTL DEF Spec
<1> QED BY <1>2 DEF A, Irrevocable

-----------------------------------------------------------------------------
(* Idempotent checkout *)

\* A successful request holds the stored checkout of its key.
AnswerIsHolder ==
  \A c \in Calls :
    phase[c] \in {"created", "duplicate"} =>
      answer[c] = HoldersOf(KeyOf[c]) /\ HoldersOf(KeyOf[c]) # {}

KeyInv == OneCheckoutPerKey /\ AnswerIsHolder

\* What is stored under a key never changes except by the insert.
LEMMA HoldersStable ==
  ASSUME LifeInv, [Next]_vars, ~ \E c \in Calls : CreateOrdersWithOutbox(c), NEW k
  PROVE  HoldersOf(k)' = HoldersOf(k)
<1>1. \A o \in Orders : (status'[o] = None) <=> (status[o] = None)
  <2>1. CASE UNCHANGED status BY <2>1
  <2>2. ASSUME NEW p \in Procs, NEW w \in Writes, WriteStatus(p, w) \/ WriteCancel(p, w)
        PROVE  <1>1
    <3>1. /\ status' = [status EXCEPT ![w.order] = w.to]
          /\ w.to \in Successors(status[w.order])
          /\ w.order \in Orders /\ w.to \in Statuses
      BY <2>2, WriteChanges DEF Changed, Change, Writes
    <3> QED BY <3>1, ClosedHasNoSuccessor, NoneIsNoStatus DEF LifeInv, TypeOK
  <2>0. \A p \in Procs : proc[p] \subseteq Writes BY DEF LifeInv, TypeOK
  <2>3. \/ UNCHANGED status
        \/ \E p \in Procs, w \in Writes : WriteStatus(p, w) \/ WriteCancel(p, w)
    BY <2>0 DEF Next, CreateStep, CheckKey, CreateFails, InsertRejected, UpdateOrderStatus,
           HandleEvent, HandlePaymentSuccessful,
           HandlePaymentFailed, CancelOrder, ReadFor, GiveUp, life,
           vars
  <2> QED BY <2>1, <2>2, <2>3
<1>2. \A c \in Calls, s \in Stores : Exists(<<c, s>>)' <=> Exists(<<c, s>>)
  BY <1>1 DEF Exists, Orders
<1> QED BY <1>2 DEF HoldersOf

\* The insert takes a free key.
LEMMA CreateKey ==
  ASSUME LifeInv, KeyInv, NEW c \in Calls, CreateOrdersWithOutbox(c)
  PROVE  KeyInv'
<1>1. HoldersOf(KeyOf[c]) = {} BY DEF CreateOrdersWithOutbox, KeyTaken
<1>2. \A d \in Calls, s \in Stores :
        status'[<<d, s>>] = IF d = c THEN "CREATED" ELSE status[<<d, s>>]
  BY DEF CreateOrdersWithOutbox, Orders
<1>3. \A d \in Calls : (\E s \in Stores : Exists(<<d, s>>)') <=>
                       (d = c \/ \E s \in Stores : Exists(<<d, s>>))
  BY <1>2, OrderAssumption DEF Exists, None
<1>4. \A k : HoldersOf(k)' = IF k = KeyOf[c] THEN {c} ELSE HoldersOf(k)
  <2> TAKE k
  <2>1. HoldersOf(k)' = {d \in Calls : KeyOf[d] = k /\ (d = c \/ \E s \in Stores : Exists(<<d, s>>))}
    BY <1>3 DEF HoldersOf
  <2>2. CASE k = KeyOf[c] BY <1>1, <2>1, <2>2 DEF HoldersOf
  <2>3. CASE k # KeyOf[c] BY <2>1, <2>3 DEF HoldersOf
  <2> QED BY <2>2, <2>3
<1>5. OneCheckoutPerKey' BY <1>4 DEF KeyInv, OneCheckoutPerKey, Keys
<1>6. AnswerIsHolder'
  <2> SUFFICES ASSUME NEW d \in Calls, phase'[d] \in {"created", "duplicate"}
               PROVE  answer'[d] = HoldersOf(KeyOf[d])' /\ HoldersOf(KeyOf[d])' # {}
    BY DEF AnswerIsHolder
  <2>1. CASE d = c
    BY <2>1, <1>4 DEF CreateOrdersWithOutbox, LifeInv, TypeOK
  <2>2. CASE d # c
    <3>1. phase'[d] = phase[d] /\ answer'[d] = answer[d]
      BY <2>2 DEF CreateOrdersWithOutbox, LifeInv, TypeOK
    <3>2. answer[d] = HoldersOf(KeyOf[d]) /\ HoldersOf(KeyOf[d]) # {}
      BY <3>1 DEF KeyInv, AnswerIsHolder
    <3> QED BY <1>1, <1>4, <3>1, <3>2
  <2> QED BY <2>1, <2>2
<1> QED BY <1>5, <1>6 DEF KeyInv

\* Every other step changes at most where one request is.
LEMMA StepKey == LifeInv /\ KeyInv /\ [Next]_vars => KeyInv'
<1> SUFFICES ASSUME LifeInv, KeyInv, [Next]_vars PROVE KeyInv' OBVIOUS
<1>1. CASE \E c \in Calls : CreateOrdersWithOutbox(c) BY <1>1, CreateKey
<1>2. CASE ~ \E c \in Calls : CreateOrdersWithOutbox(c)
  <2>1. \A k : HoldersOf(k)' = HoldersOf(k) BY <1>2, HoldersStable
  <2>2. OneCheckoutPerKey' BY <2>1 DEF KeyInv, OneCheckoutPerKey
  <2>3. ASSUME NEW c \in Calls, CheckKey(c) PROVE AnswerIsHolder'
    <3> SUFFICES ASSUME NEW d \in Calls, phase'[d] \in {"created", "duplicate"}
                 PROVE  answer'[d] = HoldersOf(KeyOf[d])' /\ HoldersOf(KeyOf[d])' # {}
      BY DEF AnswerIsHolder
    <3>1. CASE d = c BY <2>1, <2>3, <3>1 DEF CheckKey, Lookup, LifeInv, TypeOK
    <3>2. CASE d # c
      BY <2>1, <2>3, <3>2 DEF CheckKey, LifeInv, TypeOK, KeyInv, AnswerIsHolder
    <3> QED BY <3>1, <3>2
  <2>4. ASSUME NEW c \in Calls, CreateFails(c) \/ InsertRejected(c) PROVE AnswerIsHolder'
    BY <2>1, <2>4 DEF CreateFails, InsertRejected, LifeInv, TypeOK, KeyInv, AnswerIsHolder
  <2>5. CASE UNCHANGED <<phase, answer>>
    <3> SUFFICES ASSUME NEW d \in Calls, phase'[d] \in {"created", "duplicate"}
                 PROVE  answer'[d] = HoldersOf(KeyOf[d])' /\ HoldersOf(KeyOf[d])' # {}
      BY <2>2 DEF AnswerIsHolder, KeyInv
    <3>1. HoldersOf(KeyOf[d])' = HoldersOf(KeyOf[d]) BY <2>1
    <3> QED BY <2>5, <3>1 DEF KeyInv, AnswerIsHolder
  <2>6. \/ UNCHANGED <<phase, answer>>
        \/ \E c \in Calls : CheckKey(c) \/ CreateFails(c) \/ InsertRejected(c)
    BY <1>2 DEF Next, CreateStep, UpdateOrderStatus, HandleEvent,
           HandlePaymentSuccessful, HandlePaymentFailed, CancelOrder, ReadFor, GiveUp, WriteStatus, WriteCancel, Change,
           create, vars
  <2> QED BY <2>2, <2>3, <2>4, <2>5, <2>6 DEF KeyInv
<1> QED BY <1>1, <1>2

\* The inductive invariant of checkout: who stored a key and who was answered with it.
THEOREM KeyInvariant == Spec => []KeyInv
<1>1. Init => KeyInv
  BY DEF Init, KeyInv, OneCheckoutPerKey, AnswerIsHolder, HoldersOf, Exists, Orders
<1> QED BY <1>1, StepKey, LifeInvariant, PTL DEF Spec

\* The UNIQUE constraint decides the race that the unlocked look-up of CreateOrder
\* leaves open: one checkout for each key.
THEOREM OneCheckoutForEachKey == Spec => []OneCheckoutPerKey
<1> QED BY KeyInvariant, PTL DEF KeyInv

\* All successful requests of a key were answered with that checkout.
THEOREM AnswersAlwaysAgree == Spec => []AnswersAgree
<1>1. KeyInv => AnswersAgree BY DEF KeyInv, AnswerIsHolder, AnswersAgree
<1> QED BY <1>1, KeyInvariant, PTL

\* The row of an order, its payment status and its history always tell one story.
THEOREM OrderIsAlwaysTold == Spec => []OrderIsTold
<1>1. LifeInv => OrderIsTold BY DEF LifeInv, OrderIsTold
<1> QED BY <1>1, LifeInvariant, PTL

\* A key stands for one checkout, in the table and in every answer.
THEOREM OneCheckoutAlways == Spec => []OneCheckout
<1> QED BY OneCheckoutForEachKey, AnswersAlwaysAgree, PTL DEF OneCheckout
=============================================================================
