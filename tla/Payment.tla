------------------------------- MODULE Payment -------------------------------
(***************************************************************************)
(* payment-service: ProcessPayment, CancelPayment, refunds, the webhooks   *)
(* of the payment gateway and the OrderCreated handler.                    *)
(*                                                                         *)
(* A request makes several transactions and a gateway call, one action     *)
(* each; other requests, webhooks, cancellations and faults come between. *)
(* UpdatePaymentStatus locks the row and checks the transition; the reads  *)
(* before it are not locked.  Amounts are whole cents.                     *)
(***************************************************************************)
EXTENDS Integers, Sequences, SequencesExt, FiniteSets

CONSTANTS
  Requests,      \* ProcessPayment requests
  FromEvents,    \* those made by HandleOrderCreated, redelivered at will
  KeyOf,         \* their idempotency keys: a payment is known by its key
  OrderOf,       \* the order a key is used for
  Refunds,       \* CreateRefund requests
  FromReturns,   \* those made by ProcessReturnRefund
  PaymentOf,     \* the payment a refund is for
  AmountOf,      \* its amount
  RefundKeysOf,  \* idempotency keys it may have
  Price,         \* amount of a payment
  Providers,     \* gateways the service may be configured with
  MaxFaults      \* bound: handlers that end half way and statements whose failure goes unnoticed

Keys == {KeyOf[r] : r \in Requests}
RefundKeys == UNION {RefundKeysOf[q] : q \in Refunds}

ASSUME PaymentAssumption ==
  /\ Price \in Nat \ {0}
  /\ MaxFaults \in Nat
  /\ IsFiniteSet(Refunds)
  /\ FromEvents \subseteq Requests /\ FromReturns \subseteq Refunds
  /\ Providers \subseteq {"MOCK", "RAZORPAY"}
  /\ \A q \in Refunds : PaymentOf[q] \in Keys /\ AmountOf[q] \in Nat \ {0}

VARIABLES
  provider,  \* the gateway this service runs with
  pc,        \* the next step of a ProcessPayment request
  ans,       \* what the gateway answered it
  status,    \* payments.status, "none" before the insert
  created,   \* payments in the order of created_at
  events,    \* types of the outbox rows of a payment
  gw,        \* the payment at the gateway
  calls,     \* requests the gateway got for a payment
  rpc,       \* the next step of a refund request
  seen,      \* its key and amount, and what it read: the payment's status and total
  rStatus,   \* refunds.status
  rEvents,   \* types of the outbox rows of a refund
  known,     \* refunds whose gateway_refund_id is stored
  gwr,       \* the refund at the gateway
  refresh,   \* refund webhooks about to update their payment: <<refund, event>>
  processed, \* payment_webhooks.processed
  faults

pay == <<pc, ans>>
rows == <<status, created, events>>
gateway == <<provider, gw, calls>>
stored == <<rStatus, rEvents, known>>
refund == <<rpc, seen, stored, gwr>>
hooks == <<refresh, processed>>
vars == <<pay, rows, gateway, refund, hooks, faults>>

None == "none"
PaymentStatuses ==
  {"INITIATED", "PENDING", "SUCCESS", "FAILED", "CANCELLED", "REFUND_PENDING",
   "PARTIALLY_REFUNDED", "REFUNDED"}
RefundStatuses == {"PENDING", "SUCCESS", "FAILED"}
EventTypes ==
  {"PaymentInitiated", "PaymentPending", "PaymentSuccessful", "PaymentFailed",
   "PaymentCancelled"}
RefundEvents == {"processed", "failed"}
Answers == {"SUCCESS", "FAILED", "ERROR"}
PaySteps == {"absent", "start", "create", "pend", "gateway", "record", "done"}
RefundSteps ==
  {"absent", "start", "amount", "lock", "insert", "gateway", "ok", "failed", "okPaid",
   "failedPaid", "done"}
Reads ==
  [key : RefundKeys \cup {None}, amount : Nat, prev : PaymentStatuses \cup {None}, total : Int]

\* Any of the requests may never be made, and any number of the faults may never happen.
Init ==
  /\ provider \in Providers
  /\ pc \in [Requests -> {"start", "absent"}]
  /\ ans = [r \in Requests |-> None]
  /\ status = [k \in Keys |-> None]
  /\ created = <<>>
  /\ events = [k \in Keys |-> {}]
  /\ gw = [k \in Keys |-> None]
  /\ calls = [k \in Keys |-> 0]
  /\ rpc \in [Refunds -> {"start", "absent"}]
  /\ seen = [q \in Refunds |-> [key |-> None, amount |-> 0, prev |-> None, total |-> 0]]
  /\ rStatus = [q \in Refunds |-> None]
  /\ rEvents = [q \in Refunds |-> {}]
  /\ known = {}
  /\ gwr = [q \in Refunds |-> None]
  /\ refresh = {} /\ processed = {} /\ faults \in 0..MaxFaults

-----------------------------------------------------------------------------
(* UpdatePaymentStatus *)

\* Mutant: a failed or cancelled payment may still succeed.
RevivingTransitions(s) ==
  CASE s = "INITIATED" -> {"PENDING", "SUCCESS", "FAILED", "CANCELLED"}
    [] s = "PENDING" -> {"SUCCESS", "FAILED", "CANCELLED"}
    [] s = "SUCCESS" -> {"REFUND_PENDING", "PARTIALLY_REFUNDED", "REFUNDED"}
    [] s = "REFUND_PENDING" -> {"SUCCESS", "PARTIALLY_REFUNDED", "REFUNDED"}
    [] s = "PARTIALLY_REFUNDED" -> {"REFUND_PENDING", "REFUNDED"}
    [] s \in {"FAILED", "CANCELLED"} -> {"SUCCESS"}
    [] OTHER -> {}

\* allowedPaymentTransitions
Transitions(s) ==
  CASE s = "INITIATED" -> {"PENDING", "SUCCESS", "FAILED", "CANCELLED"}
    [] s = "PENDING" -> {"SUCCESS", "FAILED", "CANCELLED"}
    [] s = "SUCCESS" -> {"REFUND_PENDING", "PARTIALLY_REFUNDED", "REFUNDED"}
    [] s = "REFUND_PENDING" -> {"SUCCESS", "PARTIALLY_REFUNDED", "REFUNDED"}
    [] s = "PARTIALLY_REFUNDED" -> {"REFUND_PENDING", "REFUNDED"}
    [] OTHER -> {}

EventOf(s) ==
  CASE s = "SUCCESS" -> {"PaymentSuccessful"}
    [] s = "FAILED" -> {"PaymentFailed"}
    [] s = "PENDING" -> {"PaymentPending"}
    [] s = "CANCELLED" -> {"PaymentCancelled"}
    [] OTHER -> {}

\* The locked check: a status may be written over itself.
CanUpdate(k, s) == status[k] # None /\ (status[k] = s \/ s \in Transitions(status[k]))

\* The row and, on a change, its outbox row unless there is one of that type already.
UpdatePaymentStatus(k, s) ==
  /\ status' = [status EXCEPT ![k] = s]
  /\ events' = [events EXCEPT ![k] = IF status[k] = s THEN @ ELSE @ \cup EventOf(s)]
  /\ UNCHANGED created

\* A rejected update changes nothing; its error ends the handler or is dropped.
TryUpdate(k, s) ==
  IF CanUpdate(k, s) THEN UpdatePaymentStatus(k, s) ELSE UNCHANGED rows

\* A statement whose error the code drops.
MayFail(failed) ==
  /\ failed => faults < MaxFaults
  /\ faults' = IF failed THEN faults + 1 ELSE faults

-----------------------------------------------------------------------------
(* ProcessPayment *)

\* GetPaymentByOrderID: the payment of order o created last, if any.
Latest(o) ==
  LET own == SelectSeq(created, LAMBDA k : OrderOf[k] = o) IN
  IF own = <<>> THEN {} ELSE {Last(own)}

\* The look-ups by key and by order find a payment to return, or the request goes on, as
\* it does when they fail.  HandleOrderCreated also stops at a failed or cancelled payment.
CheckExisting(r) ==
  LET k == KeyOf[r]
      active == {"SUCCESS", "PENDING"}
                \cup (IF r \in FromEvents THEN {"FAILED", "CANCELLED"} ELSE {})
      found == status[k] # None \/ \E l \in Latest(OrderOf[k]) : status[l] \in active
  IN
  /\ pc[r] = "start"
  /\ \E failed \in BOOLEAN :
       /\ MayFail(failed)
       /\ pc' = [pc EXCEPT ![r] = IF found /\ ~failed THEN "done" ELSE "create"]
  /\ UNCHANGED <<ans, rows, gateway, refund, hooks>>

\* Mutant: no UNIQUE constraint on the key of a payment.
PaymentKeyNeverTaken(k) == FALSE

PaymentKeyTaken(k) == status[k] # None

\* The insert, or the conflict that ends the request.
CreatePayment(r) ==
  LET k == KeyOf[r] IN
  /\ pc[r] = "create"
  /\ IF PaymentKeyTaken(k)
     THEN pc' = [pc EXCEPT ![r] = "done"] /\ UNCHANGED rows
     ELSE /\ pc' = [pc EXCEPT ![r] = "pend"]
          /\ status' = [status EXCEPT ![k] = "INITIATED"]
          /\ created' = Append(created, k)
          /\ events' = [events EXCEPT ![k] = @ \cup {"PaymentInitiated"}]
  /\ UNCHANGED <<ans, gateway, refund, hooks, faults>>

MarkPending(r) ==
  LET k == KeyOf[r] IN
  /\ pc[r] = "pend"
  /\ TryUpdate(k, "PENDING")
  /\ pc' = [pc EXCEPT ![r] = IF CanUpdate(k, "PENDING") THEN "gateway" ELSE "done"]
  /\ UNCHANGED <<ans, gateway, refund, hooks, faults>>

\* What the gateway does with a payment ("captured" has the money, "open" waits for
\* the customer) and what the service hears of it.  The mock charges at once; Razorpay
\* opens an order, which its client reports as SUCCESS, and its answer can be lost.
Outcomes ==
  {<<"declined", "FAILED">>, <<None, "ERROR">>}
    \cup (IF provider = "RAZORPAY" THEN {<<"open", "SUCCESS">>, <<"open", "ERROR">>}
          ELSE {<<"captured", "SUCCESS">>})

CallGateway(r) ==
  LET k == KeyOf[r] IN
  /\ pc[r] = "gateway"
  /\ \E out \in Outcomes :
       /\ gw' = [gw EXCEPT ![k] = out[1]]
       /\ ans' = [ans EXCEPT ![r] = out[2]]
  /\ calls' = [calls EXCEPT ![k] = @ + 1]
  /\ pc' = [pc EXCEPT ![r] = "record"]
  /\ UNCHANGED <<provider, rows, refund, hooks, faults>>

\* Mutant: only an answer FAILED fails a payment.
StatusUnlessFailed(a) == IF a = "FAILED" THEN "FAILED" ELSE "SUCCESS"

\* The status an answer stands for.  (A gateway may also answer that a payment is
\* pending; neither of the two does.)
StatusOf(a) == IF a = "SUCCESS" THEN "SUCCESS" ELSE "FAILED"

RecordAnswer(r) ==
  /\ pc[r] = "record"
  /\ TryUpdate(KeyOf[r], StatusOf(ans[r]))
  /\ pc' = [pc EXCEPT ![r] = "done"]
  /\ ans' = [ans EXCEPT ![r] = None]
  /\ UNCHANGED <<gateway, refund, hooks, faults>>

\* OrderCreated is delivered again.
Redeliver(r) ==
  /\ r \in FromEvents /\ pc[r] = "done"
  /\ pc' = [pc EXCEPT ![r] = "start"]
  /\ UNCHANGED <<ans, rows, gateway, refund, hooks, faults>>

CancelPayment(k) ==
  /\ status[k] \in {"INITIATED", "PENDING"}
  /\ UpdatePaymentStatus(k, "CANCELLED")
  /\ UNCHANGED <<pay, gateway, refund, hooks, faults>>

-----------------------------------------------------------------------------
(* CreateRefund *)

RefundsOf(k) == {q \in Refunds : PaymentOf[q] = k}

\* The money of the refunds S: the number of the cents they stand for.
Sum(S) == Cardinality(UNION {{q} \X (1..seen[q].amount) : q \in S})

\* GetTotalRefundedAmount
TotalRefunded(k) == Sum({q \in RefundsOf(k) : rStatus[q] = "SUCCESS"})

\* Mutant: no UNIQUE constraint on the key of a refund.
RefundKeyNeverTaken(q) == FALSE

WithKey(key) == {x \in Refunds : rStatus[x] # None /\ seen[x].key = key}

RefundKeyTaken(q) == WithKey(seen[q].key) # {}

\* ProcessReturnRefund cuts the amount to what is left of the payment.
RefundAmount(q) ==
  LET remaining == Price - TotalRefunded(PaymentOf[q]) IN
  IF q \in FromReturns /\ AmountOf[q] > remaining THEN remaining ELSE AmountOf[q]

\* The look-up by key and the payment's status.
CheckRefund(q) ==
  LET k == PaymentOf[q]
      amount == RefundAmount(q)
  IN
  /\ rpc[q] = "start"
  /\ \E key \in RefundKeysOf[q] :
       IF WithKey(key) = {} /\ status[k] \in {"SUCCESS", "PARTIALLY_REFUNDED"} /\ amount > 0
       THEN /\ rpc' = [rpc EXCEPT ![q] = "amount"]
            /\ seen' = [seen EXCEPT ![q] =
                          [key |-> key, amount |-> amount, prev |-> status[k], total |-> 0]]
       ELSE rpc' = [rpc EXCEPT ![q] = "done"] /\ UNCHANGED seen
  /\ UNCHANGED <<pay, rows, gateway, stored, gwr, hooks, faults>>

CheckRefundable(q) ==
  LET total == TotalRefunded(PaymentOf[q])
      refundable == seen[q].amount <= Price - total
  IN
  /\ rpc[q] = "amount"
  /\ rpc' = [rpc EXCEPT ![q] = IF refundable THEN "lock" ELSE "done"]
  /\ seen' = IF refundable THEN [seen EXCEPT ![q].total = total] ELSE seen
  /\ UNCHANGED <<pay, rows, gateway, stored, gwr, hooks, faults>>

MarkRefundPending(q) ==
  LET k == PaymentOf[q] IN
  /\ rpc[q] = "lock"
  /\ TryUpdate(k, "REFUND_PENDING")
  /\ rpc' = [rpc EXCEPT ![q] = IF CanUpdate(k, "REFUND_PENDING") THEN "insert" ELSE "done"]
  /\ UNCHANGED <<pay, gateway, seen, stored, gwr, hooks, faults>>

\* The insert, or a conflict after which the payment gets its old status back.
CreateRefund(q) ==
  /\ rpc[q] = "insert"
  /\ IF RefundKeyTaken(q)
     THEN /\ TryUpdate(PaymentOf[q], seen[q].prev)
          /\ rpc' = [rpc EXCEPT ![q] = "done"] /\ UNCHANGED stored
     ELSE /\ rStatus' = [rStatus EXCEPT ![q] = "PENDING"]
          /\ rEvents' = [rEvents EXCEPT ![q] = {"RefundInitiated"}]
          /\ rpc' = [rpc EXCEPT ![q] = "gateway"] /\ UNCHANGED <<rows, known>>
  /\ UNCHANGED <<pay, gateway, seen, gwr, hooks, faults>>

\* The gateway pays back what it has, or not; Razorpay's answer can be lost.
RefundGateway(q) ==
  /\ rpc[q] = "gateway"
  /\ \E out \in {<<None, "failed">>}
                \cup (IF gw[PaymentOf[q]] = "captured" THEN {<<"done", "ok">>} ELSE {})
                \cup (IF gw[PaymentOf[q]] = "captured" /\ provider = "RAZORPAY"
                      THEN {<<"done", "failed">>} ELSE {}) :
       /\ gwr' = [gwr EXCEPT ![q] = out[1]]
       /\ rpc' = [rpc EXCEPT ![q] = out[2]]
  /\ UNCHANGED <<pay, rows, gateway, seen, stored, hooks, faults>>

\* The row and, on a change, its outbox row unless there is one of that type already.
UpdateRefundStatus(q, s) ==
  /\ rStatus' = [rStatus EXCEPT ![q] = s]
  /\ rEvents' = [rEvents EXCEPT ![q] = IF rStatus[q] = s THEN @
                    ELSE @ \cup {IF s = "SUCCESS" THEN "RefundCompleted" ELSE "RefundFailed"}]

\* The gateway's id of the refund is stored on success only.
RecordRefund(q) ==
  /\ rpc[q] \in {"ok", "failed"}
  /\ UpdateRefundStatus(q, IF rpc[q] = "ok" THEN "SUCCESS" ELSE "FAILED")
  /\ known' = IF rpc[q] = "ok" THEN known \cup {q} ELSE known
  /\ rpc' = [rpc EXCEPT ![q] = IF rpc[q] = "ok" THEN "okPaid" ELSE "failedPaid"]
  /\ UNCHANGED <<pay, rows, gateway, seen, gwr, hooks, faults>>

\* Mutant: the tolerance of the comparison is a whole unit.
RoundedStatus(total) == IF total + 1 >= Price THEN "REFUNDED" ELSE "PARTIALLY_REFUNDED"

\* The status of a payment of which total was paid back.
StatusAfter(total) == IF total >= Price THEN "REFUNDED" ELSE "PARTIALLY_REFUNDED"

RecordRefundOnPayment(q) ==
  /\ rpc[q] \in {"okPaid", "failedPaid"}
  /\ TryUpdate(PaymentOf[q], IF rpc[q] = "failedPaid" THEN seen[q].prev
                             ELSE StatusAfter(seen[q].total + seen[q].amount))
  /\ rpc' = [rpc EXCEPT ![q] = "done"]
  /\ seen' = [seen EXCEPT ![q].prev = None, ![q].total = 0]
  /\ UNCHANGED <<pay, gateway, stored, gwr, hooks, faults>>

-----------------------------------------------------------------------------
(* The gateway and its webhooks; only Razorpay has open payments and sends any. *)

GatewayDecides(k) ==
  /\ gw[k] = "open"
  /\ \E g \in {"captured", "declined"} : gw' = [gw EXCEPT ![k] = g]
  /\ UNCHANGED <<pay, rows, provider, calls, refund, hooks, faults>>

\* A refund that was accepted is returned by the bank.
GatewayRefundFails(q) ==
  /\ provider = "RAZORPAY" /\ gwr[q] = "done"
  /\ gwr' = [gwr EXCEPT ![q] = "failed"]
  /\ UNCHANGED <<pay, rows, gateway, rpc, seen, stored, hooks, faults>>

\* Mutant: a payment that is pending is taken for one that is settled.
WebhookSkipsPending(k) ==
  LET target == IF gw[k] = "captured" THEN "SUCCESS" ELSE "FAILED" IN
  /\ provider = "RAZORPAY" /\ gw[k] \in {"captured", "declined"} /\ <<k, gw[k]>> \notin processed
  /\ IF status[k] \notin {target, "PENDING"} THEN TryUpdate(k, target) ELSE UNCHANGED rows
  /\ processed' \in {processed, processed \cup {<<k, gw[k]>>}}
  /\ UNCHANGED <<pay, gateway, refund, refresh, faults>>

\* handlePaymentSuccessWebhook and handlePaymentFailedWebhook: a transition that is not
\* allowed is ignored.  A crash or error leaves the event unprocessed, to come again.
\* (handlePaymentPendingWebhook finds no payment it can change: a payment is PENDING
\* before the gateway hears of it.)
HandlePaymentWebhook(k) ==
  LET target == IF gw[k] = "captured" THEN "SUCCESS" ELSE "FAILED" IN
  /\ provider = "RAZORPAY" /\ gw[k] \in {"captured", "declined"} /\ <<k, gw[k]>> \notin processed
  /\ IF status[k] # target THEN TryUpdate(k, target) ELSE UNCHANGED rows
  /\ processed' \in {processed, processed \cup {<<k, gw[k]>>}}
  /\ UNCHANGED <<pay, gateway, refund, refresh, faults>>

\* handleRefundSuccessWebhook and handleRefundFailedWebhook, first transaction.  A
\* refund is found by the gateway's id; a processed one may else name its payment.
\* Both events may come late, in any order.
HandleRefundWebhook(q, e) ==
  /\ provider = "RAZORPAY" /\ (gwr[q] = "failed" \/ (gwr[q] = "done" /\ e = "processed"))
  /\ <<q, e>> \notin processed \cup refresh
  /\ \E failed \in IF q \in known THEN BOOLEAN ELSE {TRUE} :
       /\ IF failed THEN UNCHANGED <<rStatus, rEvents>>
          ELSE UpdateRefundStatus(q, IF e = "processed" THEN "SUCCESS" ELSE "FAILED")
       /\ MayFail(failed /\ q \in known)
  /\ \/ /\ q \in known \/ e = "processed"
        /\ refresh' = refresh \cup {<<q, e>>} /\ UNCHANGED processed
     \/ /\ q \notin known
        /\ processed' = processed \cup {<<q, e>>} /\ UNCHANGED refresh
  /\ UNCHANGED <<pay, rows, gateway, rpc, seen, known, gwr>>

\* Second transaction: the payment is brought in line with the total, or with 0 when
\* that cannot be read.
RefreshPayment(q, e) ==
  /\ <<q, e>> \in refresh
  /\ \E failed \in BOOLEAN :
       LET total == IF failed THEN 0 ELSE TotalRefunded(PaymentOf[q]) IN
       /\ MayFail(failed)
       /\ TryUpdate(PaymentOf[q], IF e = "processed" THEN StatusAfter(total)
                                  ELSE IF total > 0 THEN "PARTIALLY_REFUNDED" ELSE "SUCCESS")
  /\ refresh' = refresh \ {<<q, e>>}
  /\ processed' = processed \cup {<<q, e>>}
  /\ UNCHANGED <<pay, gateway, refund>>

-----------------------------------------------------------------------------
\* A handler ends half way: a crash, a cancelled context, a failed transaction.
Crash ==
  /\ faults < MaxFaults
  /\ \/ \E r \in Requests : /\ pc[r] \notin {"absent", "start", "done"}
                            /\ pc' = [pc EXCEPT ![r] = "done"] /\ UNCHANGED rpc
     \/ \E q \in Refunds : /\ rpc[q] \notin {"absent", "start", "done"}
                           /\ rpc' = [rpc EXCEPT ![q] = "done"] /\ UNCHANGED pc
  /\ faults' = faults + 1
  /\ UNCHANGED <<ans, rows, gateway, seen, stored, gwr, hooks>>

PayStep(r) ==
  \/ CheckExisting(r) \/ CreatePayment(r) \/ MarkPending(r)
  \/ CallGateway(r) \/ RecordAnswer(r)

RefundStep(q) ==
  \/ CheckRefund(q) \/ CheckRefundable(q) \/ MarkRefundPending(q) \/ CreateRefund(q)
  \/ RefundGateway(q) \/ RecordRefund(q) \/ RecordRefundOnPayment(q)

RefundWebhook(q, e) == HandleRefundWebhook(q, e) \/ RefreshPayment(q, e)

Next ==
  \/ \E r \in Requests : PayStep(r) \/ Redeliver(r)
  \/ \E q \in Refunds : RefundStep(q) \/ GatewayRefundFails(q)
  \/ \E q \in Refunds, e \in RefundEvents : RefundWebhook(q, e)
  \/ \E k \in Keys : CancelPayment(k) \/ GatewayDecides(k) \/ HandlePaymentWebhook(k)
  \/ Crash

Spec == Init /\ [][Next]_vars

\* The gateway repeats a webhook until it is accepted.
Fairness == \A k \in Keys : WF_vars(HandlePaymentWebhook(k) /\ processed' # processed)

-----------------------------------------------------------------------------
(* Properties *)

TypeOK ==
  /\ provider \in Providers
  /\ pc \in [Requests -> PaySteps] /\ ans \in [Requests -> Answers \cup {None}]
  /\ status \in [Keys -> PaymentStatuses \cup {None}] /\ created \in Seq(Keys)
  /\ events \in [Keys -> SUBSET EventTypes]
  /\ gw \in [Keys -> {None, "open", "captured", "declined"}] /\ calls \in [Keys -> Nat]
  /\ rpc \in [Refunds -> RefundSteps] /\ seen \in [Refunds -> Reads]
  /\ rStatus \in [Refunds -> RefundStatuses \cup {None}]
  /\ rEvents \in [Refunds -> SUBSET {"RefundInitiated", "RefundCompleted", "RefundFailed"}]
  /\ known \subseteq Refunds /\ gwr \in [Refunds -> {None, "done", "failed"}]
  /\ refresh \subseteq Refunds \X RefundEvents
  /\ processed \subseteq (Keys \X {"captured", "declined"}) \cup (Refunds \X RefundEvents)
  /\ faults \in 0..MaxFaults

Paid == {"SUCCESS", "REFUND_PENDING", "PARTIALLY_REFUNDED", "REFUNDED"}

\* The gateway is asked for a payment at most once, whatever requests with its key run
\* at once, are repeated or crash (ProcessPayment, payments.idempotency_key UNIQUE).
OneGatewayCall == \A k \in Keys : calls[k] <= 1

\* A payment counts as paid only when the gateway accepted it, whatever answer was lost or
\* came late: the mock has charged it then, and Razorpay has opened an order, which its
\* client reports as SUCCESS.  It is not said that Razorpay captured money: the code does
\* not wait for that (ProcessPayment, RazorpayGateway.ProcessPayment).
PaidWasAccepted ==
  \A k \in Keys : status[k] \in Paid =>
    IF provider = "MOCK" THEN gw[k] = "captured" ELSE gw[k] # None

\* Cancellations, answers and webhooks race, but the outbox of a payment tells only one
\* of success, failure and cancellation (UpdatePaymentStatus).
OneVerdict ==
  \A k \in Keys :
    \A x, y \in events[k] \cap {"PaymentSuccessful", "PaymentFailed", "PaymentCancelled"} : x = y

\* A failed, cancelled or refunded payment stays so, whatever comes late
\* (allowedPaymentTransitions under the lock of UpdatePaymentStatus).
TerminalStays ==
  [][\A k \in Keys :
       status[k] \in {"FAILED", "CANCELLED", "REFUNDED"} => status'[k] = status[k]]_vars

\* Of requests with one key only one becomes a refund, at the gateway as in the table
\* (CreateRefund, ProcessReturnRefund, refunds.idempotency_key UNIQUE).
RefundsOnce ==
  \A x, y \in Refunds : x # y /\ seen[x].key = seen[y].key =>
    (rStatus[x] = None \/ rStatus[y] = None) /\ (gwr[x] = None \/ gwr[y] = None)

\* A payment is REFUNDED only when the refunds announced as completed cover it, though
\* each request adds its amount to a total it read before and refunds overlap (CreateRefund,
\* the webhooks).  (A refund that fails after it was announced leaves the payment REFUNDED.)
RefundedIsCovered ==
  \A k \in Keys : status[k] = "REFUNDED" =>
    Sum({q \in RefundsOf(k) : "RefundCompleted" \in rEvents[q]}) >= Price

\* The table of refunds and the status of their payment: every row has its type, and REFUNDED
\* is covered (CreateRefund, the webhooks).
RefundsCover ==
  /\ TypeOK
  /\ RefundedIsCovered

\* "Refund amount cannot exceed refundable amount" (CreateRefund, step 3): what was paid
\* back of a payment is never more than the payment.  The code does not keep this: two
\* refunds may both read the total before either is recorded.
RefundsWithinPrice ==
  \A k \in Keys : Sum({q \in RefundsOf(k) : rStatus[q] = "SUCCESS"}) <= Price

\* A payment Razorpay captured does not stay open: when the handler that asked for it
\* crashed, the webhook settles it.  Settled is not the same as paid: a payment that was
\* cancelled or failed before stays so (handlePaymentSuccessWebhook).
CaptureIsRecorded ==
  \A k \in Keys :
    (provider = "RAZORPAY" /\ gw[k] = "captured") ~> status[k] \notin {"INITIATED", "PENDING"}
=============================================================================
