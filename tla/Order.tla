-------------------------------- MODULE Order --------------------------------
(***************************************************************************)
(* order-service: checkout under an idempotency key and the life of an     *)
(* order under clients, administrators and payment events.                 *)
(*                                                                         *)
(* CreateOrder looks the key up without a lock and later inserts one order *)
(* for each store of the cart, with its history and outbox rows, in one    *)
(* transaction.  Every status change reads the order without a lock        *)
(* (service layer) and changes it in a second transaction that locks it    *)
(* and checks again (repository): a Read action and a Write action.        *)
(***************************************************************************)
EXTENDS Naturals, Sequences

CONSTANTS
  Calls,       \* CreateOrder requests, retried by their client
  KeyOf,       \* the idempotency key of each
  UserOf,      \* and its user
  Stores,      \* the stores of the items checked out
  Procs,       \* concurrent handlers of status changes
  MaxErrors    \* bound: CreateOrder attempts that fail in validation or I/O

Orders == Calls \X Stores
Keys == {KeyOf[c] : c \in Calls}

ASSUME OrderAssumption ==
  /\ Stores # {}
  /\ MaxErrors \in Nat

VARIABLES
  phase,    \* where a CreateOrder request is
  answer,   \* the checkout (the call that inserted it) a request was answered with
  status,   \* orders.status, "none" before the insert
  payment,  \* orders.payment_status
  history,  \* order_status_history rows of an order: [from, to]
  events,   \* types of the outbox rows of an order, in order of insertion
  proc,     \* the write a handler is about to make, if any: a set of at most one
  errors    \* failed attempts so far

create == <<phase, answer, errors>>
life == <<status, payment, history, events>>
vars == <<create, life, proc>>

Statuses ==
  {"CREATED", "PENDING_PAYMENT", "PAID", "CONFIRMED", "PROCESSING", "SHIPPED",
   "OUT_FOR_DELIVERY", "DELIVERED", "PAYMENT_FAILED", "CANCELLED",
   "RETURN_REQUESTED", "RETURNED", "REFUNDED"}
PaymentStatuses == {"PENDING", "PAID", "FAILED", "REFUNDED"}
Phases == {"new", "checked", "created", "duplicate", "conflict", "rejected", "error"}
EventTypes == {"OrderCreated", "OrderConfirmed", "OrderPaymentFailed", "OrderCancelled"}
None == "none"
Writes == [order : Orders, to : Statuses, event : EventTypes \cup {None}]

Init ==
  /\ phase = [c \in Calls |-> "new"]
  /\ answer = [c \in Calls |-> {}]
  /\ status = [o \in Orders |-> None]
  /\ payment = [o \in Orders |-> "PENDING"]
  /\ history = [o \in Orders |-> <<>>]
  /\ events = [o \in Orders |-> <<>>]
  /\ proc = [p \in Procs |-> {}]
  /\ errors = 0

-----------------------------------------------------------------------------
(* The state machine *)

\* ValidStateTransitions
Successors(s) ==
  CASE s = "CREATED" -> {"PENDING_PAYMENT", "PAID", "CONFIRMED", "PAYMENT_FAILED", "CANCELLED"}
    [] s = "PENDING_PAYMENT" -> {"PAID", "CONFIRMED", "PAYMENT_FAILED", "CANCELLED"}
    [] s = "PAID" -> {"CONFIRMED", "PROCESSING", "CANCELLED"}
    [] s = "CONFIRMED" -> {"PROCESSING", "CANCELLED"}
    [] s = "PROCESSING" -> {"SHIPPED", "CANCELLED"}
    [] s = "SHIPPED" -> {"OUT_FOR_DELIVERY"}
    [] s = "OUT_FOR_DELIVERY" -> {"DELIVERED"}
    [] s = "DELIVERED" -> {"RETURN_REQUESTED"}
    [] s = "RETURN_REQUESTED" -> {"RETURNED", "REFUNDED"}
    [] s = "RETURNED" -> {"REFUNDED"}
    [] OTHER -> {}

\* IsValidTransition without its s = t case, which its callers treat first.
IsValidTransition(s, t) == t \in Successors(s)

CanCancel(s) == s \in {"CREATED", "PENDING_PAYMENT", "PAID", "CONFIRMED", "PROCESSING"}

\* The payment_status that goes with a new status.
NewPaymentStatus(s, old) ==
  CASE s \in {"PAID", "CONFIRMED"} -> "PAID"
    [] s = "PAYMENT_FAILED" -> "FAILED"
    [] s = "REFUNDED" -> "REFUNDED"
    [] s = "PENDING_PAYMENT" -> "PENDING"
    [] OTHER -> old

-----------------------------------------------------------------------------
(* CreateOrder *)

Exists(o) == status[o] # None

\* The checkouts stored under key k.
HoldersOf(k) == {c \in Calls : KeyOf[c] = k /\ \E s \in Stores : Exists(<<c, s>>)}

\* Mutant: the look-up misses the stored orders.
LookupNothing(k) == {}

\* GetOrdersByIdempotencyKey
Lookup(k) == HoldersOf(k)

\* The look-up of the idempotency key: a hit is the answer, or a conflict when
\* the key belongs to another user.
CheckKey(c) ==
  LET holders == Lookup(KeyOf[c]) IN
  /\ phase[c] \in {"new", "rejected", "error"}
  /\ phase' = [phase EXCEPT ![c] = IF holders = {} THEN "checked"
                                   ELSE IF \E d \in holders : UserOf[d] # UserOf[c] THEN "conflict"
                                   ELSE "duplicate"]
  /\ answer' = [answer EXCEPT ![c] =
                  IF \A d \in holders : UserOf[d] = UserOf[c] THEN holders ELSE {}]
  /\ UNCHANGED <<life, proc, errors>>

\* Cart, stock, product or address is not accepted, or a call to another service
\* or to the database fails: nothing is stored.
CreateFails(c) ==
  /\ phase[c] = "checked"
  /\ errors < MaxErrors
  /\ phase' = [phase EXCEPT ![c] = "error"]
  /\ errors' = errors + 1
  /\ UNCHANGED <<answer, life, proc>>

\* Mutant: no UNIQUE constraint on the key.
KeyNeverTaken(k) == FALSE

KeyTaken(k) == HoldersOf(k) # {}

\* CreateOrdersWithOutbox meets the UNIQUE constraint: the transaction is rolled
\* back, the client sees an internal error.
InsertRejected(c) ==
  /\ phase[c] = "checked"
  /\ KeyTaken(KeyOf[c])
  /\ phase' = [phase EXCEPT ![c] = "rejected"]
  /\ UNCHANGED <<answer, errors, life, proc>>

\* All orders of the checkout, their first history rows and their events.
CreateOrdersWithOutbox(c) ==
  LET own == {o \in Orders : o[1] = c} IN
  /\ phase[c] = "checked"
  /\ ~KeyTaken(KeyOf[c])
  /\ phase' = [phase EXCEPT ![c] = "created"]
  /\ answer' = [answer EXCEPT ![c] = {c}]
  /\ status' = [o \in Orders |-> IF o \in own THEN "CREATED" ELSE status[o]]
  /\ history' = [o \in Orders |->
                   IF o \in own THEN <<[from |-> None, to |-> "CREATED"]>> ELSE history[o]]
  /\ events' = [o \in Orders |-> IF o \in own THEN <<"OrderCreated">> ELSE events[o]]
  /\ UNCHANGED <<payment, proc, errors>>

-----------------------------------------------------------------------------
(* Status changes: the service reads *)

ReadFor(p, o, to, event) ==
  /\ proc[p] = {}
  /\ Exists(o)
  /\ proc' = [proc EXCEPT ![p] = {[order |-> o, to |-> to, event |-> event]}]
  /\ UNCHANGED <<create, life>>

\* UpdateOrderStatus writes no event.
UpdateOrderStatus(p, o, to) ==
  /\ IsValidTransition(status[o], to)
  /\ ReadFor(p, o, to, None)

HandlePaymentSuccessful(p, o) ==
  /\ status[o] \notin {"CONFIRMED", "PAID"}
  /\ ReadFor(p, o, "CONFIRMED", "OrderConfirmed")

HandlePaymentFailed(p, o) ==
  /\ status[o] # "PAYMENT_FAILED"
  /\ ReadFor(p, o, "PAYMENT_FAILED", "OrderPaymentFailed")

\* HandleEvent of the consumer: both may come at any time and any number of times.
HandleEvent(p, o) == HandlePaymentSuccessful(p, o) \/ HandlePaymentFailed(p, o)

CancelOrder(p, o) ==
  /\ CanCancel(status[o])
  /\ ReadFor(p, o, "CANCELLED", "OrderCancelled")

-----------------------------------------------------------------------------
(* Status changes: the repository locks the row, checks again and writes *)

Change(p, w, newPayment) ==
  /\ status' = [status EXCEPT ![w.order] = w.to]
  /\ payment' = [payment EXCEPT ![w.order] = newPayment]
  /\ history' = [history EXCEPT ![w.order] =
                   Append(@, [from |-> status[w.order], to |-> w.to])]
  /\ events' = [events EXCEPT ![w.order] = IF w.event = None THEN @ ELSE Append(@, w.event)]
  /\ proc' = [proc EXCEPT ![p] = {}]
  /\ UNCHANGED create

\* Mutant: the status read before the lock is trusted.
WriteUnchecked(p, w) ==
  /\ w \in proc[p] /\ w.event # "OrderCancelled"
  /\ status[w.order] # w.to
  /\ Change(p, w, NewPaymentStatus(w.to, payment[w.order]))

\* UpdateOrderStatusWithOutbox.
WriteStatus(p, w) ==
  /\ w \in proc[p] /\ w.event # "OrderCancelled"
  /\ status[w.order] # w.to
  /\ IsValidTransition(status[w.order], w.to)
  /\ Change(p, w, NewPaymentStatus(w.to, payment[w.order]))

\* Repository CancelOrder: payment_status stays.
WriteCancel(p, w) ==
  /\ w \in proc[p] /\ w.event = "OrderCancelled"
  /\ CanCancel(status[w.order])
  /\ Change(p, w, payment[w.order])

\* The status is already the wanted one, the transition is no longer valid, or the
\* transaction fails.
GiveUp(p) ==
  /\ proc[p] # {}
  /\ proc' = [proc EXCEPT ![p] = {}]
  /\ UNCHANGED <<create, life>>

-----------------------------------------------------------------------------
CreateStep(c) == CheckKey(c) \/ InsertRejected(c) \/ CreateOrdersWithOutbox(c)

Next ==
  \/ \E c \in Calls : CreateStep(c) \/ CreateFails(c)
  \/ \E p \in Procs, o \in Orders :
       \/ \E to \in Statuses : UpdateOrderStatus(p, o, to)
       \/ HandleEvent(p, o)
       \/ CancelOrder(p, o)
  \/ \E p \in Procs :
       \/ \E w \in proc[p] : WriteStatus(p, w) \/ WriteCancel(p, w)
       \/ GiveUp(p)

Spec == Init /\ [][Next]_vars

\* A request runs to its end, and a client repeats one that ended in an error.
FairSpec == Spec /\ \A c \in Calls : WF_vars(CreateStep(c))

-----------------------------------------------------------------------------
(* Properties *)

TypeOK ==
  /\ phase \in [Calls -> Phases]
  /\ answer \in [Calls -> SUBSET Calls]
  /\ status \in [Orders -> Statuses \cup {None}]
  /\ payment \in [Orders -> PaymentStatuses]
  /\ history \in [Orders -> Seq([from : Statuses \cup {None}, to : Statuses])]
  /\ events \in [Orders -> Seq(EventTypes)]
  /\ proc \in [Procs -> SUBSET Writes]
  /\ errors \in 0..MaxErrors

\* "NO duplicate orders": one key never stores two checkouts, though both requests
\* passed the look-up.
OneCheckoutPerKey == \A k \in Keys : \A c, d \in HoldersOf(k) : c = d

\* All successful requests of one key are answered with the same stored checkout.
AnswersAgree ==
  \A c, d \in Calls :
    /\ KeyOf[c] = KeyOf[d]
    /\ phase[c] \in {"created", "duplicate"}
    /\ phase[d] \in {"created", "duplicate"}
    => answer[c] = answer[d] /\ answer[c] = HoldersOf(KeyOf[c])

\* One idempotency key is one checkout, for the table and for every customer who was answered
\* (CreateOrder).
OneCheckout ==
  /\ OneCheckoutPerKey
  /\ AnswersAgree

\* The history of an order is one unbroken chain of valid transitions from its
\* creation to its status, though handlers act on stale reads.
HistoryIsChain ==
  \A o \in Orders :
    Exists(o) =>
      LET h == history[o] IN
      /\ h # <<>> /\ h[1] = [from |-> None, to |-> "CREATED"]
      /\ h[Len(h)].to = status[o]
      /\ \A n \in 2..Len(h) : h[n].from = h[n - 1].to /\ h[n].to \in Successors(h[n].from)

\* Where the order has got to fixes its payment_status (a cancelled order keeps
\* what it had).
PaymentMatchesStatus ==
  \A o \in Orders :
    /\ status[o] \in {"PAID", "CONFIRMED", "PROCESSING", "SHIPPED", "OUT_FOR_DELIVERY",
                      "DELIVERED", "RETURN_REQUESTED", "RETURNED"} => payment[o] = "PAID"
    /\ status[o] \in {"CREATED", "PENDING_PAYMENT", None} => payment[o] = "PENDING"
    /\ status[o] = "PAYMENT_FAILED" <=> payment[o] = "FAILED"
    /\ status[o] = "REFUNDED" <=> payment[o] = "REFUNDED"

\* A row of orders, its payment_status and its history tell one story (WriteStatus,
\* CancelOrder).
OrderIsTold ==
  /\ TypeOK
  /\ HistoryIsChain
  /\ PaymentMatchesStatus

\* Other services get OrderCreated, then at most one OrderConfirmed, then at most
\* one of OrderCancelled and OrderPaymentFailed, the latter never after
\* OrderConfirmed: redelivered or racing payment events add nothing.
EventsTellOnce ==
  \A o \in Orders :
    events[o] \in {<<>>, <<"OrderCreated">>,
                   <<"OrderCreated", "OrderConfirmed">>,
                   <<"OrderCreated", "OrderCancelled">>,
                   <<"OrderCreated", "OrderPaymentFailed">>,
                   <<"OrderCreated", "OrderConfirmed", "OrderCancelled">>}

\* An action property: a closed order stays closed, and a shipped one is never
\* cancelled.
Irrevocable ==
  [][\A o \in Orders :
       /\ status[o] \in {"CANCELLED", "PAYMENT_FAILED", "REFUNDED"} => status'[o] = status[o]
       /\ status[o] \in {"SHIPPED", "OUT_FOR_DELIVERY", "DELIVERED"} => status'[o] # "CANCELLED"]_vars

\* Every request is answered in the end, the ones that lost the race for the key
\* by their retry.
EveryCallAnswered == <>(\A c \in Calls : phase[c] \in {"created", "duplicate", "conflict"})
=============================================================================
