--------------------------- MODULE Payment_proofs ---------------------------
(***************************************************************************)
(* The charge of a payment and its refunds, for any number of requests,    *)
(* refunds, faults and either gateway.                                     *)
(*                                                                         *)
(* The invariant of the charge says which request drives a payment, that   *)
(* the gateway has not heard of it before that request calls, that         *)
(* whatever counts on the money has the gateway behind it, and that the    *)
(* events of a payment fit its status.                                     *)
(*                                                                         *)
(* The invariant of the refunds says what a refund's row allows at each    *)
(* step of its request, and that the total a request has read is covered   *)
(* by refunds announced since.                                             *)
(***************************************************************************)
EXTENDS Payment, FiniteSetTheorems, TLAPS

\* The request past the insert and not over yet.
Driving(r) == pc[r] \in {"pend", "gateway", "record"}

\* The refund request past its first check and not over yet.
UnderWay(q) == rpc[q] \notin {"absent", "start", "done"}

\* The gateway accepted the payment.
Accepted(k) == IF provider = "MOCK" THEN gw[k] = "captured" ELSE gw[k] # None

\* The part of TypeOK the argument needs: what a refund has read is left out.
TypeInv ==
  /\ provider \in Providers
  /\ pc \in [Requests -> PaySteps]
  /\ ans \in [Requests -> Answers \cup {None}]
  /\ status \in [Keys -> PaymentStatuses \cup {None}]
  /\ events \in [Keys -> SUBSET EventTypes]
  /\ gw \in [Keys -> {None, "open", "captured", "declined"}]
  /\ calls \in [Keys -> Nat]
  /\ rpc \in [Refunds -> RefundSteps]
  /\ gwr \in [Refunds -> {None, "done", "failed"}]
  /\ refresh \subseteq Refunds \X RefundEvents

\* One request at a time drives a payment.
DriveInv ==
  /\ \A r \in Requests : Driving(r) => status[KeyOf[r]] # None
  /\ \A r, x \in Requests : r # x /\ KeyOf[r] = KeyOf[x] => ~(Driving(r) /\ Driving(x))

\* Before that request calls the gateway nobody has.
CallInv ==
  /\ OneGatewayCall
  /\ \A k \in Keys : status[k] = None => calls[k] = 0 /\ gw[k] = None
  /\ \A r \in Requests : pc[r] \in {"pend", "gateway"} =>
       calls[KeyOf[r]] = 0 /\ gw[KeyOf[r]] = None

\* Whatever makes or undoes a paid status is about a payment the gateway accepted.
BackInv ==
  /\ PaidWasAccepted
  /\ \A r \in Requests : pc[r] = "record" /\ ans[r] = "SUCCESS" => Accepted(KeyOf[r])
  /\ \A q \in Refunds : UnderWay(q) \/ gwr[q] # None => Accepted(PaymentOf[q])
  /\ \A x \in refresh : Accepted(PaymentOf[x[1]])

\* The verdict told is the one of the status.
VerdictInv ==
  \A k \in Keys :
    /\ status[k] = None => events[k] = {}
    /\ "PaymentSuccessful" \in events[k] => status[k] \in Paid
    /\ "PaymentFailed" \in events[k] => status[k] = "FAILED"
    /\ "PaymentCancelled" \in events[k] => status[k] = "CANCELLED"

Inv == TypeInv /\ DriveInv /\ CallInv /\ BackInv /\ VerdictInv

\* What any step may do to the row and the events of payment k.
Moves(k) ==
  \/ status'[k] = status[k] /\ events'[k] = events[k]
  \/ /\ status[k] # None /\ status'[k] \in Transitions(status[k])
     /\ events'[k] = events[k] \cup EventOf(status'[k])
  \/ /\ status[k] = None /\ status'[k] = "INITIATED"
     /\ events'[k] = events[k] \cup {"PaymentInitiated"}

RowsType ==
  /\ status \in [Keys -> PaymentStatuses \cup {None}]
  /\ events \in [Keys -> SUBSET EventTypes]

-----------------------------------------------------------------------------
\* The key of a request and the payment of a refund are keys (PaymentAssumption).
LEMMA KeysAreKeys ==
  /\ \A r \in Requests : KeyOf[r] \in Keys
  /\ \A q \in Refunds : PaymentOf[q] \in Keys
  BY PaymentAssumption DEF Keys, PaymentAssumption

\* The transition table leads from statuses to statuses, and its events are known.
LEMMA TableTypes ==
  /\ \A s \in PaymentStatuses : Transitions(s) \subseteq PaymentStatuses
  /\ \A s : EventOf(s) \subseteq EventTypes
  BY DEF Transitions, PaymentStatuses, EventOf, EventTypes

\* UpdatePaymentStatus and a rejected update move each payment as the table says.
LEMMA TryUpdateMoves ==
  ASSUME NEW k \in Keys, NEW s, RowsType, TryUpdate(k, s)
  PROVE  RowsType' /\ \A j \in Keys : Moves(j)
<1>1. CASE ~CanUpdate(k, s)
  BY <1>1 DEF TryUpdate, rows, RowsType, Moves
<1>2. CASE CanUpdate(k, s)
  <2>1. UpdatePaymentStatus(k, s)
    BY <1>2 DEF TryUpdate
  <2>2. status[k] \in PaymentStatuses /\ status[k] # None
    BY <1>2 DEF CanUpdate, RowsType, PaymentStatuses, None
  <2>3. s \in PaymentStatuses
    BY <1>2, <2>2, TableTypes DEF CanUpdate
  <2>4. RowsType'
    BY <2>1, <2>3, TableTypes DEF UpdatePaymentStatus, RowsType
  <2>5. ASSUME NEW j \in Keys PROVE Moves(j)
    <3>1. CASE j # k
      BY <2>1, <3>1 DEF UpdatePaymentStatus, RowsType, Moves
    <3>2. CASE j = k /\ status[k] = s
      BY <2>1, <3>2 DEF UpdatePaymentStatus, RowsType, Moves
    <3>3. CASE j = k /\ status[k] # s
      <4>1. s \in Transitions(status[k])
        BY <1>2, <3>3 DEF CanUpdate
      <4>2. status'[k] = s /\ events'[k] = events[k] \cup EventOf(s)
        BY <2>1, <3>3 DEF UpdatePaymentStatus, RowsType
      <4> QED BY <2>2, <3>3, <4>1, <4>2 DEF Moves
    <3> QED BY <3>1, <3>2, <3>3
  <2> QED BY <2>4, <2>5
<1> QED BY <1>1, <1>2

\* Every step leaves the rows well typed and moves each payment as the table says.
LEMMA StepMoves ==
  ASSUME RowsType, [Next]_vars
  PROVE  RowsType' /\ \A k \in Keys : Moves(k)
<1> USE KeysAreKeys
<1>1. CASE UNCHANGED rows
  BY <1>1 DEF rows, RowsType, Moves
<1>2. CASE \E k \in Keys : \E s : TryUpdate(k, s)
  BY <1>2, TryUpdateMoves
<1>3. ASSUME NEW r \in Requests, CreatePayment(r)
      PROVE  RowsType' /\ \A k \in Keys : Moves(k)
  BY <1>1, <1>3 DEF CreatePayment, PaymentKeyTaken, RowsType, Moves, PaymentStatuses, EventTypes, rows
<1>4. ASSUME NEW k \in Keys, CancelPayment(k)
      PROVE  TryUpdate(k, "CANCELLED")
  BY <1>4 DEF CancelPayment, TryUpdate, CanUpdate, Transitions, None
<1>5. ASSUME NEW r \in Requests, PayStep(r) \/ Redeliver(r)
      PROVE  UNCHANGED rows \/ (\E k \in Keys : \E s : TryUpdate(k, s)) \/ CreatePayment(r)
  BY <1>5 DEF PayStep, Redeliver, CheckExisting, MarkPending, CallGateway, RecordAnswer, rows
<1>6. ASSUME NEW q \in Refunds, RefundStep(q) \/ GatewayRefundFails(q)
      PROVE  UNCHANGED rows \/ (\E k \in Keys : \E s : TryUpdate(k, s))
  BY <1>6 DEF RefundStep, GatewayRefundFails, CheckRefund, CheckRefundable, MarkRefundPending,
     CreateRefund, RefundGateway, RecordRefund, RecordRefundOnPayment, rows
<1>7. ASSUME NEW q \in Refunds, NEW e \in RefundEvents, RefundWebhook(q, e)
      PROVE  UNCHANGED rows \/ (\E k \in Keys : \E s : TryUpdate(k, s))
  <2>1. CASE HandleRefundWebhook(q, e)
    BY <2>1 DEF HandleRefundWebhook, rows
  <2>2. CASE RefreshPayment(q, e)
    BY <2>2 DEF RefreshPayment
  <2> QED BY <1>7, <2>1, <2>2 DEF RefundWebhook
<1>8. ASSUME NEW k \in Keys, CancelPayment(k) \/ GatewayDecides(k) \/ HandlePaymentWebhook(k)
      PROVE  UNCHANGED rows \/ (\E j \in Keys : \E s : TryUpdate(j, s))
  <2>1. CASE CancelPayment(k)
    BY <1>4, <2>1
  <2>2. CASE GatewayDecides(k)
    BY <2>2 DEF GatewayDecides, rows
  <2>3. CASE HandlePaymentWebhook(k)
    BY <2>3 DEF HandlePaymentWebhook, rows
  <2> QED BY <1>8, <2>1, <2>2, <2>3
<1>9. CASE Crash
  BY <1>1, <1>9 DEF Crash, rows
<1>10. CASE UNCHANGED vars
  BY <1>1, <1>10 DEF vars, rows
<1> QED BY <1>1, <1>2, <1>3, <1>5, <1>6, <1>7, <1>8, <1>9, <1>10 DEF Next

\* A payment that failed, was cancelled or refunded has nowhere to go.
LEMMA VerdictsAreFinal ==
  ASSUME NEW k \in Keys, Moves(k), status[k] \in {"FAILED", "CANCELLED", "REFUNDED"}
  PROVE  status'[k] = status[k]
  BY DEF Moves, Transitions, None

\* The events of a payment keep fitting its status.
LEMMA VerdictStep ==
  ASSUME RowsType, VerdictInv, \A k \in Keys : Moves(k)
  PROVE  VerdictInv'
<1> SUFFICES ASSUME NEW k \in Keys
             PROVE  /\ status'[k] = None => events'[k] = {}
                    /\ "PaymentSuccessful" \in events'[k] => status'[k] \in Paid
                    /\ "PaymentFailed" \in events'[k] => status'[k] = "FAILED"
                    /\ "PaymentCancelled" \in events'[k] => status'[k] = "CANCELLED"
  BY DEF VerdictInv
<1>1. CASE status'[k] = status[k] /\ events'[k] = events[k]
  BY <1>1 DEF VerdictInv
<1>2. CASE status[k] = None /\ status'[k] = "INITIATED" /\ events'[k] = events[k] \cup {"PaymentInitiated"}
  BY <1>2 DEF VerdictInv, None
<1>3. CASE /\ status[k] # None /\ status'[k] \in Transitions(status[k])
           /\ events'[k] = events[k] \cup EventOf(status'[k])
  <2>1. status[k] \in PaymentStatuses
    BY <1>3 DEF RowsType
  <2>2. status'[k] \in PaymentStatuses /\ status'[k] # None
    BY <1>3, <2>1, TableTypes DEF PaymentStatuses, None
  <2>3. status[k] \in {"FAILED", "CANCELLED"} => FALSE
    BY <1>3 DEF Transitions
  <2>4. status[k] \in Paid => status'[k] \in Paid /\ status'[k] # "FAILED" /\ status'[k] # "CANCELLED"
    BY <1>3 DEF Transitions, Paid
  <2>5. /\ "PaymentFailed" \in EventOf(status'[k]) => status'[k] = "FAILED"
        /\ "PaymentCancelled" \in EventOf(status'[k]) => status'[k] = "CANCELLED"
        /\ "PaymentSuccessful" \in EventOf(status'[k]) => status'[k] \in Paid
    BY DEF EventOf, Paid
  <2> QED BY <1>3, <2>2, <2>3, <2>4, <2>5 DEF VerdictInv
<1> QED BY <1>1, <1>2, <1>3 DEF Moves

-----------------------------------------------------------------------------
(* The other variables, one action after the other. *)

\* What a step of request r leaves alone.
LEMMA PayStepInv ==
  ASSUME Inv, RowsType', \A k \in Keys : Moves(k),
         NEW r \in Requests, PayStep(r) \/ Redeliver(r)
  PROVE  (TypeInv /\ DriveInv /\ CallInv /\ BackInv)'
<1> USE KeysAreKeys DEF Inv, TypeInv, RowsType
<1>1. CASE CheckExisting(r)
  <2>1. /\ UNCHANGED <<ans, status, events, gw, calls, provider, rpc, gwr, refresh>>
        /\ pc[r] = "start"
        /\ \E v \in {"done", "create"} : pc' = [pc EXCEPT ![r] = v]
    BY <1>1 DEF CheckExisting, rows, gateway, refund, hooks
  <2>2. TypeInv'
    BY <2>1 DEF PaySteps
  <2>3. DriveInv' /\ CallInv'
    BY <2>1 DEF DriveInv, CallInv, Driving, OneGatewayCall
  <2>4. BackInv'
    BY <2>1 DEF BackInv, PaidWasAccepted, Accepted, UnderWay
  <2> QED BY <2>2, <2>3, <2>4
<1>2. CASE Redeliver(r)
  <2>1. /\ UNCHANGED <<ans, status, events, gw, calls, provider, rpc, gwr, refresh>>
        /\ pc' = [pc EXCEPT ![r] = "start"]
    BY <1>2 DEF Redeliver, rows, gateway, refund, hooks
  <2>2. TypeInv'
    BY <2>1 DEF PaySteps
  <2>3. DriveInv' /\ CallInv'
    BY <2>1 DEF DriveInv, CallInv, Driving, OneGatewayCall
  <2>4. BackInv'
    BY <2>1 DEF BackInv, PaidWasAccepted, Accepted, UnderWay
  <2> QED BY <2>2, <2>3, <2>4
<1>3. CASE CreatePayment(r)
  <2>1. UNCHANGED <<ans, gw, calls, provider, rpc, gwr, refresh>>
    BY <1>3 DEF CreatePayment, gateway, refund, hooks
  <2>2. CASE pc' = [pc EXCEPT ![r] = "done"] /\ UNCHANGED rows
    <3>1. TypeInv'
      BY <2>1, <2>2 DEF PaySteps, rows
    <3>2. DriveInv' /\ CallInv'
      BY <2>1, <2>2 DEF DriveInv, CallInv, Driving, OneGatewayCall, rows
    <3>3. BackInv'
      BY <2>1, <2>2 DEF BackInv, PaidWasAccepted, Accepted, UnderWay, rows
    <3> QED BY <3>1, <3>2, <3>3
  <2>3. CASE /\ status[KeyOf[r]] = None
             /\ pc' = [pc EXCEPT ![r] = "pend"]
             /\ status' = [status EXCEPT ![KeyOf[r]] = "INITIATED"]
    <3>1. TypeInv'
      BY <2>1, <2>3 DEF PaySteps
    <3>2. DriveInv'
      BY <2>1, <2>3 DEF DriveInv, Driving, None
    <3>3. CallInv'
      BY <2>1, <2>3 DEF CallInv, OneGatewayCall, None
    <3>4. BackInv'
      BY <2>1, <2>3 DEF BackInv, PaidWasAccepted, Accepted, UnderWay, Paid
    <3> QED BY <3>1, <3>2, <3>3, <3>4
  <2> QED BY <1>3, <2>2, <2>3 DEF CreatePayment, PaymentKeyTaken
<1>4. CASE MarkPending(r)
  <2>1. /\ UNCHANGED <<ans, gw, calls, provider, rpc, gwr, refresh>>
        /\ pc[r] = "pend"
        /\ \E v \in {"done", "gateway"} : pc' = [pc EXCEPT ![r] = v]
    BY <1>4 DEF MarkPending, gateway, refund, hooks
  <2>2. TypeInv'
    BY <2>1 DEF PaySteps
  <2>3. DriveInv'
    BY <2>1 DEF DriveInv, Driving, Moves, PaymentStatuses, None, Transitions
  <2>4. CallInv'
    BY <2>1 DEF CallInv, OneGatewayCall, Moves, None, Transitions
  <2>5. status' = status \/ status' = [status EXCEPT ![KeyOf[r]] = "PENDING"]
    BY <1>4 DEF MarkPending, TryUpdate, UpdatePaymentStatus, rows
  <2>6. BackInv'
    BY <2>1, <2>5 DEF BackInv, PaidWasAccepted, Accepted, UnderWay, Paid
  <2> QED BY <2>2, <2>3, <2>4, <2>6
<1>5. CASE CallGateway(r)
  <2> DEFINE k == KeyOf[r]
  <2>1. /\ UNCHANGED <<status, events, provider, rpc, gwr, refresh>>
        /\ pc[r] = "gateway" /\ pc' = [pc EXCEPT ![r] = "record"]
        /\ calls' = [calls EXCEPT ![k] = @ + 1]
        /\ calls[k] = 0 /\ gw[k] = None
    BY <1>5 DEF CallGateway, rows, refund, hooks, CallInv
  <2>2. PICK out \in Outcomes : /\ gw' = [gw EXCEPT ![k] = out[1]]
                                /\ ans' = [ans EXCEPT ![r] = out[2]]
    BY <1>5 DEF CallGateway
  <2>3. /\ out[1] \in {None, "open", "captured", "declined"} /\ out[2] \in Answers
        /\ out[2] = "SUCCESS" => IF provider = "MOCK" THEN out[1] = "captured" ELSE out[1] # None
    BY <2>2 DEF Outcomes, Answers, None
  <2>4. TypeInv'
    BY <2>1, <2>2, <2>3 DEF PaySteps
  <2>5. DriveInv'
    BY <2>1 DEF DriveInv, Driving
  <2>6. CallInv'
    BY <2>1, <2>2 DEF CallInv, OneGatewayCall, DriveInv, Driving
  <2>7. ~Accepted(k)
    BY <2>1 DEF Accepted, None
  <2>8. BackInv'
    BY <2>1, <2>2, <2>3, <2>7 DEF BackInv, PaidWasAccepted, Accepted, UnderWay, None
  <2> QED BY <2>4, <2>5, <2>6, <2>8
<1>6. CASE RecordAnswer(r)
  <2>1. /\ UNCHANGED <<gw, calls, provider, rpc, gwr, refresh>>
        /\ pc[r] = "record" /\ pc' = [pc EXCEPT ![r] = "done"]
        /\ ans' = [ans EXCEPT ![r] = None]
    BY <1>6 DEF RecordAnswer, gateway, refund, hooks
  <2>2. TypeInv'
    BY <2>1 DEF PaySteps
  <2>3. DriveInv'
    BY <2>1 DEF DriveInv, Driving, Moves, PaymentStatuses, None, Transitions
  <2>4. CallInv'
    BY <2>1 DEF CallInv, OneGatewayCall, Moves, None, Transitions
  <2>5. \/ status' = status
        \/ status' = [status EXCEPT ![KeyOf[r]] = "FAILED"]
        \/ status' = [status EXCEPT ![KeyOf[r]] = "SUCCESS"] /\ ans[r] = "SUCCESS"
    BY <1>6 DEF RecordAnswer, TryUpdate, UpdatePaymentStatus, rows, StatusOf
  <2>6. BackInv'
    BY <2>1, <2>5 DEF BackInv, PaidWasAccepted, Accepted, UnderWay, Paid
  <2> QED BY <2>2, <2>3, <2>4, <2>6
<1> QED BY <1>1, <1>2, <1>3, <1>4, <1>5, <1>6 DEF PayStep

\* A step that leaves the requests and the gateway's payments alone.
LEMMA QuietStepInv ==
  ASSUME Inv, RowsType', \A k \in Keys : Moves(k), UNCHANGED <<pc, ans, gw, calls, provider>>
  PROVE  DriveInv' /\ CallInv'
<1>1. \A k \in Keys : status'[k] = None => status[k] = None
  BY TableTypes DEF Moves, None, Inv, TypeInv, PaymentStatuses
<1>2. DriveInv'
  BY <1>1, KeysAreKeys DEF Inv, DriveInv, Driving
<1>3. CallInv'
  BY <1>1, KeysAreKeys DEF Inv, CallInv, OneGatewayCall
<1> QED BY <1>2, <1>3

\* An update of a payment the gateway accepted keeps the others as they were.
LEMMA UpdateOfAccepted ==
  ASSUME NEW k \in Keys, NEW s, RowsType, Accepted(k), PaidWasAccepted,
         UNCHANGED <<gw, provider>>, TryUpdate(k, s) \/ UNCHANGED rows
  PROVE  PaidWasAccepted'
<1>1. \A j \in Keys : j # k => status'[j] = status[j]
  BY DEF TryUpdate, UpdatePaymentStatus, RowsType, rows
<1> QED BY <1>1 DEF PaidWasAccepted, Accepted

\* The steps of a refund request.
LEMMA RefundStepInv ==
  ASSUME Inv, RowsType', \A k \in Keys : Moves(k),
         NEW q \in Refunds, RefundStep(q) \/ GatewayRefundFails(q)
  PROVE  (TypeInv /\ DriveInv /\ CallInv /\ BackInv)'
<1> USE KeysAreKeys DEF Inv, TypeInv, RowsType
<1>1. UNCHANGED <<pc, ans, gw, calls, provider, refresh>>
  BY DEF RefundStep, GatewayRefundFails, CheckRefund, CheckRefundable, MarkRefundPending, CreateRefund,
     RefundGateway, RecordRefund, RecordRefundOnPayment, pay, gateway, hooks
<1>2. DriveInv' /\ CallInv'
  BY <1>1, QuietStepInv
<1>3. CASE CheckRefund(q)
  <2>1. /\ UNCHANGED <<status, events, gwr>>
        /\ \/ rpc' = [rpc EXCEPT ![q] = "done"]
           \/ rpc' = [rpc EXCEPT ![q] = "amount"] /\ status[PaymentOf[q]] \in {"SUCCESS", "PARTIALLY_REFUNDED"}
    BY <1>3 DEF CheckRefund, rows
  <2>2. TypeInv'
    BY <1>1, <2>1 DEF RefundSteps
  <2>3. BackInv'
    BY <1>1, <2>1 DEF BackInv, PaidWasAccepted, Accepted, UnderWay, Paid
  <2> QED BY <1>2, <2>2, <2>3
<1>4. CASE \/ CheckRefundable(q) \/ MarkRefundPending(q) \/ CreateRefund(q)
           \/ RecordRefund(q) \/ RecordRefundOnPayment(q)
  <2>1. /\ UNCHANGED gwr /\ UnderWay(q)
        /\ \E v \in RefundSteps : rpc' = [rpc EXCEPT ![q] = v]
    <3>1. CASE CheckRefundable(q)
      BY <3>1 DEF CheckRefundable, UnderWay, RefundSteps
    <3>2. CASE MarkRefundPending(q)
      BY <3>2 DEF MarkRefundPending, UnderWay, RefundSteps
    <3>3. CASE CreateRefund(q)
      BY <3>3 DEF CreateRefund, UnderWay, RefundSteps
    <3>4. CASE RecordRefund(q)
      BY <3>4 DEF RecordRefund, UnderWay, RefundSteps
    <3>5. CASE RecordRefundOnPayment(q)
      BY <3>5 DEF RecordRefundOnPayment, UnderWay, RefundSteps
    <3> QED BY <1>4, <3>1, <3>2, <3>3, <3>4, <3>5
  <2>2. UNCHANGED rows \/ \E s : TryUpdate(PaymentOf[q], s)
    BY <1>4 DEF CheckRefundable, MarkRefundPending, CreateRefund, RecordRefund, RecordRefundOnPayment, rows
  <2>3. Accepted(PaymentOf[q])
    BY <2>1 DEF BackInv
  <2>4. PaidWasAccepted'
    BY <1>1, <2>2, <2>3, UpdateOfAccepted DEF BackInv
  <2>5. TypeInv'
    BY <1>1, <2>1
  <2>6. BackInv'
    BY <1>1, <2>1, <2>3, <2>4 DEF BackInv, Accepted, UnderWay
  <2> QED BY <1>2, <2>5, <2>6
<1>5. CASE RefundGateway(q)
  <2>1. /\ UNCHANGED <<status, events>> /\ UnderWay(q)
        /\ \E v \in {None, "done"} : gwr' = [gwr EXCEPT ![q] = v]
        /\ \E v \in {"ok", "failed"} : rpc' = [rpc EXCEPT ![q] = v]
    <3>1. PICK out \in {<<None, "failed">>, <<"done", "ok">>, <<"done", "failed">>} :
            gwr' = [gwr EXCEPT ![q] = out[1]] /\ rpc' = [rpc EXCEPT ![q] = out[2]]
      BY <1>5 DEF RefundGateway
    <3>3. out[1] \in {None, "done"} /\ out[2] \in {"ok", "failed"}
      OBVIOUS
    <3>2. UNCHANGED <<status, events>> /\ UnderWay(q)
      BY <1>5 DEF RefundGateway, rows, UnderWay
    <3> QED BY <3>1, <3>2, <3>3
  <2>2. TypeInv'
    BY <1>1, <2>1 DEF RefundSteps
  <2>3. BackInv'
    BY <1>1, <2>1 DEF BackInv, PaidWasAccepted, Accepted, UnderWay
  <2> QED BY <1>2, <2>2, <2>3
<1>6. CASE GatewayRefundFails(q)
  <2>1. /\ UNCHANGED <<status, events, rpc>> /\ gwr[q] = "done"
        /\ gwr' = [gwr EXCEPT ![q] = "failed"]
    BY <1>6 DEF GatewayRefundFails, rows
  <2>2. TypeInv'
    BY <1>1, <2>1
  <2>3. BackInv'
    BY <1>1, <2>1 DEF BackInv, PaidWasAccepted, Accepted, UnderWay, None
  <2> QED BY <1>2, <2>2, <2>3
<1> QED BY <1>3, <1>4, <1>5, <1>6 DEF RefundStep

\* The webhooks of a refund.
LEMMA RefundWebhookInv ==
  ASSUME Inv, RowsType', \A k \in Keys : Moves(k),
         NEW q \in Refunds, NEW e \in RefundEvents, RefundWebhook(q, e)
  PROVE  (TypeInv /\ DriveInv /\ CallInv /\ BackInv)'
<1> USE KeysAreKeys DEF Inv, TypeInv, RowsType
<1>1. CASE HandleRefundWebhook(q, e)
  <2>1. /\ UNCHANGED <<pc, ans, gw, calls, provider, status, events, rpc, gwr>>
        /\ gwr[q] # None
        /\ refresh' = refresh \/ refresh' = refresh \cup {<<q, e>>}
    BY <1>1 DEF HandleRefundWebhook, pay, gateway, rows, None
  <2>2. TypeInv'
    BY <2>1
  <2>3. Accepted(PaymentOf[q])
    BY <2>1 DEF BackInv
  <2>4. BackInv'
    BY <2>1, <2>3 DEF BackInv, PaidWasAccepted, Accepted, UnderWay
  <2> QED BY <2>1, <2>2, <2>4, QuietStepInv
<1>2. CASE RefreshPayment(q, e)
  <2>1. /\ UNCHANGED <<pc, ans, gw, calls, provider, rpc, gwr>>
        /\ <<q, e>> \in refresh /\ refresh' = refresh \ {<<q, e>>}
    BY <1>2 DEF RefreshPayment, pay, gateway, refund
  <2>2. \E s : TryUpdate(PaymentOf[q], s)
    BY <1>2 DEF RefreshPayment
  <2>3. Accepted(PaymentOf[q])
    BY <2>1 DEF BackInv
  <2>4. PaidWasAccepted'
    BY <2>1, <2>2, <2>3, UpdateOfAccepted DEF BackInv
  <2>5. TypeInv'
    BY <2>1
  <2>6. BackInv'
    BY <2>1, <2>4 DEF BackInv, Accepted, UnderWay
  <2> QED BY <2>1, <2>5, <2>6, QuietStepInv
<1> QED BY <1>1, <1>2 DEF RefundWebhook

\* Cancellations, the gateway and the webhooks of a payment.
LEMMA PaymentStepInv ==
  ASSUME Inv, RowsType', \A k \in Keys : Moves(k),
         NEW k \in Keys, CancelPayment(k) \/ GatewayDecides(k) \/ HandlePaymentWebhook(k)
  PROVE  (TypeInv /\ DriveInv /\ CallInv /\ BackInv)'
<1> USE KeysAreKeys DEF Inv, TypeInv, RowsType
<1>1. CASE CancelPayment(k)
  <2>1. /\ UNCHANGED <<pc, ans, gw, calls, provider, rpc, gwr, refresh>>
        /\ status' = [status EXCEPT ![k] = "CANCELLED"]
    BY <1>1 DEF CancelPayment, UpdatePaymentStatus, pay, gateway, refund, hooks
  <2>2. TypeInv'
    BY <2>1
  <2>3. BackInv'
    BY <2>1 DEF BackInv, PaidWasAccepted, Accepted, UnderWay, Paid
  <2> QED BY <2>1, <2>2, <2>3, QuietStepInv
<1>2. CASE GatewayDecides(k)
  <2>1. /\ UNCHANGED <<pc, ans, calls, provider, status, events, rpc, gwr, refresh>>
        /\ gw[k] = "open"
        /\ \E g \in {"captured", "declined"} : gw' = [gw EXCEPT ![k] = g]
    BY <1>2 DEF GatewayDecides, pay, rows, refund, hooks
  <2>2. TypeInv'
    BY <2>1
  <2>3. DriveInv'
    BY <2>1 DEF DriveInv, Driving
  <2>4. CallInv'
    BY <2>1 DEF CallInv, OneGatewayCall, None
  <2>5. \A j \in Keys : Accepted(j) => Accepted(j)'
    BY <2>1 DEF Accepted, None
  <2>6. BackInv'
    BY <2>1, <2>5 DEF BackInv, PaidWasAccepted, Accepted, UnderWay
  <2> QED BY <2>2, <2>3, <2>4, <2>6
<1>3. CASE HandlePaymentWebhook(k)
  <2>1. UNCHANGED <<pc, ans, gw, calls, provider, rpc, gwr, refresh>>
    BY <1>3 DEF HandlePaymentWebhook, pay, gateway, refund
  <2>2. \/ UNCHANGED status
        \/ status' = [status EXCEPT ![k] = "FAILED"]
        \/ status' = [status EXCEPT ![k] = "SUCCESS"] /\ gw[k] = "captured"
    BY <1>3 DEF HandlePaymentWebhook, TryUpdate, UpdatePaymentStatus, rows
  <2>3. TypeInv'
    BY <2>1
  <2>4. BackInv'
    BY <2>1, <2>2 DEF BackInv, PaidWasAccepted, Accepted, UnderWay, Paid, None
  <2> QED BY <2>1, <2>3, <2>4, QuietStepInv
<1> QED BY <1>1, <1>2, <1>3

\* A handler that ends half way drives nothing any more.
LEMMA CrashInv ==
  ASSUME Inv, Crash
  PROVE  (TypeInv /\ DriveInv /\ CallInv /\ BackInv)'
<1> USE KeysAreKeys DEF Inv, TypeInv
<1>1. UNCHANGED <<ans, status, events, gw, calls, provider, gwr, refresh>>
  BY DEF Crash, rows, gateway, hooks
<1>2. CASE \E r \in Requests : pc' = [pc EXCEPT ![r] = "done"] /\ UNCHANGED rpc
  <2>1. TypeInv'
    BY <1>1, <1>2 DEF PaySteps
  <2>2. DriveInv' /\ CallInv'
    BY <1>1, <1>2 DEF DriveInv, CallInv, Driving, OneGatewayCall
  <2>3. BackInv'
    BY <1>1, <1>2 DEF BackInv, PaidWasAccepted, Accepted, UnderWay
  <2> QED BY <2>1, <2>2, <2>3
<1>3. CASE \E q \in Refunds : rpc' = [rpc EXCEPT ![q] = "done"] /\ UNCHANGED pc
  <2>1. TypeInv'
    BY <1>1, <1>3 DEF RefundSteps
  <2>2. DriveInv' /\ CallInv'
    BY <1>1, <1>3 DEF DriveInv, CallInv, Driving, OneGatewayCall
  <2>3. BackInv'
    BY <1>1, <1>3 DEF BackInv, PaidWasAccepted, Accepted, UnderWay
  <2> QED BY <2>1, <2>2, <2>3
<1> QED BY <1>2, <1>3 DEF Crash

-----------------------------------------------------------------------------
(* The theorems *)

\* The charge of a payment keeps its invariant, whoever interferes.
THEOREM ChargeInvariant == Spec => []Inv
<1>1. Init => Inv
  BY KeysAreKeys DEF Init, Inv, TypeInv, DriveInv, CallInv, BackInv, VerdictInv, Driving, Accepted,
     PaidWasAccepted, OneGatewayCall, UnderWay, PaySteps, RefundSteps, Paid, None
<1>2. Inv /\ [Next]_vars => Inv'
  <2> SUFFICES ASSUME Inv, [Next]_vars PROVE Inv'
    OBVIOUS
  <2>1. RowsType
    BY DEF Inv, TypeInv, RowsType
  <2>2. RowsType' /\ \A k \in Keys : Moves(k)
    BY <2>1, StepMoves
  <2>3. VerdictInv'
    BY <2>1, <2>2, VerdictStep DEF Inv
  <2>4. (TypeInv /\ DriveInv /\ CallInv /\ BackInv)'
    <3>1. CASE UNCHANGED vars
      BY <3>1 DEF vars, pay, rows, gateway, refund, hooks, Inv, TypeInv, DriveInv, CallInv, BackInv,
         Driving, Accepted, PaidWasAccepted, OneGatewayCall, UnderWay
    <3> QED BY <2>2, <3>1, PayStepInv, RefundStepInv, RefundWebhookInv, PaymentStepInv, CrashInv DEF Next
  <2> QED BY <2>3, <2>4 DEF Inv
<1> QED BY <1>1, <1>2, PTL DEF Spec

\* The gateway is asked for a payment at most once (ProcessPayment and the UNIQUE key),
\* for any number of requests, redeliveries and faults.
THEOREM ChargedAtMostOnce == Spec => []OneGatewayCall
<1>1. Inv => OneGatewayCall
  BY DEF Inv, CallInv
<1> QED BY <1>1, ChargeInvariant, PTL

\* A payment counts as paid, is being refunded or was refunded only when the gateway
\* accepted it: the mock charged it, Razorpay opened an order for it (which its client
\* reports as SUCCESS; that the money was captured is not claimed).
THEOREM PaidWasAlwaysAccepted == Spec => []PaidWasAccepted
<1>1. Inv => PaidWasAccepted
  BY DEF Inv, BackInv
<1> QED BY <1>1, ChargeInvariant, PTL

\* The outbox of a payment tells one verdict, however answers, cancellations and
\* webhooks race for it.
THEOREM OneVerdictIsTold == Spec => []OneVerdict
<1>1. Inv => OneVerdict
  BY DEF Inv, VerdictInv, OneVerdict, Paid
<1> QED BY <1>1, ChargeInvariant, PTL

\* A failed, cancelled or refunded payment stays so.
THEOREM TerminalStaysSo == Spec => TerminalStays
<1>1. Inv /\ [Next]_vars =>
        [\A k \in Keys : status[k] \in {"FAILED", "CANCELLED", "REFUNDED"} => status'[k] = status[k]]_vars
  <2> SUFFICES ASSUME Inv, [Next]_vars, NEW k \in Keys, status[k] \in {"FAILED", "CANCELLED", "REFUNDED"}
               PROVE  status'[k] = status[k]
    OBVIOUS
  <2> QED BY StepMoves, VerdictsAreFinal DEF Inv, TypeInv, RowsType
<1> QED BY <1>1, ChargeInvariant, PTL DEF Spec, TerminalStays
-----------------------------------------------------------------------------
(* One refund for a key *)

Early == {"absent", "start", "amount", "lock", "insert"}
AtWork == {"gateway", "ok", "failed", "okPaid", "failedPaid"}

\* A refund is in the table from its insert on, before the gateway hears of it, and of those
\* that asked with one key only one is in the table.
RefundInv ==
  /\ rpc \in [Refunds -> RefundSteps]
  /\ rStatus \in [Refunds -> RefundStatuses \cup {None}]
  /\ gwr \in [Refunds -> {None, "done", "failed"}]
  /\ DOMAIN seen = Refunds
  /\ \A q \in Refunds : "key" \in DOMAIN seen[q]
  /\ \A q \in Refunds : rStatus[q] # None => rpc[q] \notin Early
  /\ \A q \in Refunds : rpc[q] \in AtWork \/ gwr[q] # None => rStatus[q] # None
  /\ \A x, y \in Refunds : x # y /\ seen[x].key = seen[y].key => rStatus[x] = None \/ rStatus[y] = None

\* A request goes on; keys, table and gateway stay.
LEMMA RefundGoesOn ==
  ASSUME RefundInv, NEW q \in Refunds, NEW s \in RefundSteps, rpc' = [rpc EXCEPT ![q] = s],
         s \in Early => rpc[q] \in Early, s \in AtWork => rpc[q] \in AtWork,
         DOMAIN seen' = Refunds,
         \A x \in Refunds : "key" \in DOMAIN seen'[x] /\ seen'[x].key = seen[x].key,
         UNCHANGED <<rStatus, gwr>>
  PROVE  RefundInv'
BY DEF RefundInv

\* Its key is one that no refund of the table has.
LEMMA CheckRefundKeys == ASSUME RefundInv, NEW q \in Refunds, CheckRefund(q) PROVE RefundInv'
<1> USE DEF CheckRefund, stored
<1>1. CASE rpc' = [rpc EXCEPT ![q] = "done"] /\ UNCHANGED seen
  BY <1>1, RefundGoesOn DEF RefundInv, RefundSteps, Early, AtWork
<1>2. ASSUME NEW key \in RefundKeysOf[q], WithKey(key) = {}, rpc' = [rpc EXCEPT ![q] = "amount"],
             NEW amount, NEW prev,
             seen' = [seen EXCEPT ![q] = [key |-> key, amount |-> amount, prev |-> prev, total |-> 0]]
      PROVE  RefundInv'
  <2>1. rpc[q] = "start" /\ rStatus[q] = None /\ gwr[q] = None BY DEF RefundInv, Early
  <2>2. \A x \in Refunds : rStatus[x] # None => seen[x].key # key BY <1>2 DEF WithKey
  <2>3. /\ DOMAIN seen' = Refunds /\ seen'[q].key = key /\ "key" \in DOMAIN seen'[q]
        /\ \A x \in Refunds \ {q} : seen'[x] = seen[x]
    BY <1>2 DEF RefundInv
  <2>4. UNCHANGED <<rStatus, gwr>> OBVIOUS
  <2> QED BY <1>2, <2>1, <2>2, <2>3, <2>4 DEF RefundInv, RefundSteps, Early, AtWork
<1> QED BY <1>1, <1>2

LEMMA ReadKeys ==
  ASSUME RefundInv, NEW q \in Refunds,
         CheckRefundable(q) \/ MarkRefundPending(q) \/ RecordRefundOnPayment(q)
  PROVE  RefundInv'
<1>1. UNCHANGED <<rStatus, gwr>> BY DEF CheckRefundable, MarkRefundPending, RecordRefundOnPayment, stored
<1>2. /\ DOMAIN seen' = Refunds
      /\ \A x \in Refunds : "key" \in DOMAIN seen'[x] /\ seen'[x].key = seen[x].key
  BY DEF CheckRefundable, MarkRefundPending, RecordRefundOnPayment, RefundInv
<1>3. CASE CheckRefundable(q) \/ MarkRefundPending(q)
  <2>1. PICK s \in {"lock", "insert", "done"} : rpc' = [rpc EXCEPT ![q] = s]
    BY <1>3 DEF CheckRefundable, MarkRefundPending
  <2>2. rpc[q] \in Early BY <1>3 DEF CheckRefundable, MarkRefundPending, Early
  <2> QED BY <1>1, <1>2, <2>1, <2>2, RefundGoesOn DEF RefundSteps, AtWork
<1>4. CASE RecordRefundOnPayment(q)
  BY <1>1, <1>2, <1>4, RefundGoesOn DEF RecordRefundOnPayment, RefundSteps, Early, AtWork
<1> QED BY <1>3, <1>4

\* The insert, under the UNIQUE key.
LEMMA CreateRefundKeys == ASSUME RefundInv, NEW q \in Refunds, CreateRefund(q) PROVE RefundInv'
<1> USE DEF CreateRefund, stored
<1>1. CASE RefundKeyTaken(q)
  BY <1>1, RefundGoesOn DEF RefundInv, RefundSteps, Early, AtWork
<1>2. CASE ~RefundKeyTaken(q)
  <2>1. \A x \in Refunds : seen[x].key = seen[q].key => rStatus[x] = None
    BY <1>2 DEF RefundKeyTaken, WithKey
  <2>2. rStatus' = [rStatus EXCEPT ![q] = "PENDING"] /\ rpc' = [rpc EXCEPT ![q] = "gateway"]
        /\ UNCHANGED <<seen, gwr>>
    BY <1>2
  <2> QED BY <2>1, <2>2 DEF RefundInv, RefundStatuses, RefundSteps, Early, AtWork, None
<1> QED BY <1>1, <1>2

\* The gateway and the status of a refund that is in the table.
LEMMA StoredKeys ==
  ASSUME RefundInv, NEW q \in Refunds, rStatus[q] # None, NEW s \in RefundSteps \ Early,
         rpc' = [rpc EXCEPT ![q] = s], NEW t \in RefundStatuses, rStatus' = [rStatus EXCEPT ![q] = t],
         NEW g \in {None, "done", "failed"}, gwr' = [gwr EXCEPT ![q] = g], seen' = seen
  PROVE  RefundInv'
BY DEF RefundInv, RefundStatuses, None

LEMMA RefundStepKeys == ASSUME RefundInv, NEW q \in Refunds, RefundStep(q) PROVE RefundInv'
<1> USE DEF RefundInv
<1>1. CASE RefundGateway(q)
  <2>1. rpc[q] = "gateway" /\ rStatus[q] # None /\ rStatus[q] \in RefundStatuses
    BY <1>1 DEF RefundGateway, AtWork
  <2>2. rStatus' = [rStatus EXCEPT ![q] = rStatus[q]] /\ seen' = seen BY <1>1 DEF RefundGateway, stored
  <2>3. PICK s \in {"ok", "failed"}, g \in {None, "done"} :
          rpc' = [rpc EXCEPT ![q] = s] /\ gwr' = [gwr EXCEPT ![q] = g]
    <3>1. PICK out \in {<<None, "failed">>, <<"done", "ok">>, <<"done", "failed">>} :
            gwr' = [gwr EXCEPT ![q] = out[1]] /\ rpc' = [rpc EXCEPT ![q] = out[2]]
      BY <1>1 DEF RefundGateway
    <3>2. out[1] \in {None, "done"} /\ out[2] \in {"ok", "failed"}
      <4>1. CASE out = <<None, "failed">> BY <4>1
      <4>2. CASE out = <<"done", "ok">> BY <4>2
      <4>3. CASE out = <<"done", "failed">> BY <4>3
      <4> QED BY <3>1, <4>1, <4>2, <4>3
    <3> QED BY <3>1, <3>2
  <2> HIDE DEF RefundInv
  <2> QED BY <2>1, <2>2, <2>3, StoredKeys DEF RefundSteps, Early
<1>2. CASE RecordRefund(q)
  <2>1. rStatus[q] # None /\ gwr[q] \in {None, "done", "failed"} BY <1>2 DEF RecordRefund, AtWork
  <2>2. gwr' = [gwr EXCEPT ![q] = gwr[q]] /\ seen' = seen BY <1>2 DEF RecordRefund
  <2>3. PICK s \in {"okPaid", "failedPaid"}, t \in {"SUCCESS", "FAILED"} :
          rpc' = [rpc EXCEPT ![q] = s] /\ rStatus' = [rStatus EXCEPT ![q] = t]
    BY <1>2 DEF RecordRefund, UpdateRefundStatus
  <2> HIDE DEF RefundInv
  <2> QED BY <2>1, <2>2, <2>3, StoredKeys DEF RefundSteps, Early, RefundStatuses
<1> QED BY <1>1, <1>2, CheckRefundKeys, ReadKeys, CreateRefundKeys DEF RefundStep

\* The webhooks find a refund the gateway has, which is in the table.
LEMMA HookKeys ==
  ASSUME RefundInv, NEW q \in Refunds,
         GatewayRefundFails(q) \/ \E e \in RefundEvents : HandleRefundWebhook(q, e)
  PROVE  RefundInv'
<1> USE DEF RefundInv
<1>1. gwr[q] # None /\ rStatus[q] # None /\ rStatus[q] \in RefundStatuses
  BY DEF GatewayRefundFails, HandleRefundWebhook, None
<1>2. rpc' = [rpc EXCEPT ![q] = rpc[q]] /\ rpc[q] \in RefundSteps \ Early /\ seen' = seen
  BY <1>1 DEF GatewayRefundFails, HandleRefundWebhook
<1>3. PICK t \in RefundStatuses : rStatus' = [rStatus EXCEPT ![q] = t]
  <2>1. CASE rStatus' = rStatus BY <1>1, <2>1
  <2>2. ASSUME NEW s \in {"SUCCESS", "FAILED"}, UpdateRefundStatus(q, s)
        PROVE  \E t \in RefundStatuses : rStatus' = [rStatus EXCEPT ![q] = t]
    BY <2>2 DEF UpdateRefundStatus, RefundStatuses
  <2> QED BY <2>1, <2>2 DEF GatewayRefundFails, HandleRefundWebhook, stored
<1>4. PICK g \in {None, "done", "failed"} : gwr' = [gwr EXCEPT ![q] = g]
  BY DEF GatewayRefundFails, HandleRefundWebhook
<1> HIDE DEF RefundInv
<1> QED BY <1>1, <1>2, <1>3, <1>4, StoredKeys

LEMMA RefundNext == RefundInv /\ [Next]_vars => RefundInv'
<1> SUFFICES ASSUME RefundInv, [Next]_vars PROVE RefundInv' OBVIOUS
<1>1. CASE UNCHANGED <<rpc, seen, rStatus, gwr>> BY <1>1 DEF RefundInv
<1>2. ASSUME NEW r \in Requests, PayStep(r) \/ Redeliver(r) PROVE RefundInv'
  BY <1>1, <1>2 DEF PayStep, CheckExisting, CreatePayment, MarkPending, CallGateway, RecordAnswer,
       Redeliver, refund, stored
<1>3. ASSUME NEW k \in Keys, CancelPayment(k) \/ GatewayDecides(k) \/ HandlePaymentWebhook(k)
      PROVE  RefundInv'
  BY <1>1, <1>3 DEF CancelPayment, GatewayDecides, HandlePaymentWebhook, refund, stored
<1>4. ASSUME NEW q \in Refunds, NEW e \in RefundEvents, RefreshPayment(q, e) PROVE RefundInv'
  BY <1>1, <1>4 DEF RefreshPayment, refund, stored
<1>5. CASE Crash
  <2>1. CASE rpc' = rpc BY <1>1, <1>5, <2>1 DEF Crash, stored
  <2>2. ASSUME NEW q \in Refunds, rpc' = [rpc EXCEPT ![q] = "done"] PROVE RefundInv'
    BY <1>5, <2>2, RefundGoesOn DEF Crash, stored, RefundInv, RefundSteps, Early, AtWork
  <2> QED BY <1>5, <2>1, <2>2 DEF Crash
<1>6. CASE UNCHANGED vars BY <1>1, <1>6 DEF vars, refund, stored
<1> QED BY <1>2, <1>3, <1>4, <1>5, <1>6, RefundStepKeys, HookKeys DEF Next, RefundWebhook

\* Of the requests with one idempotency key, repeated, concurrent or made by a return, at
\* most one becomes a refund.
THEOREM RefundedAtMostOnce == Spec => []RefundsOnce
<1>1. Init => RefundInv
  BY DEF Init, RefundInv, RefundSteps, Early, AtWork, None
<1>2. RefundInv => RefundsOnce BY DEF RefundInv, RefundsOnce
<1> QED BY <1>1, <1>2, RefundNext, PTL DEF Spec

-----------------------------------------------------------------------------
(* Sums of amounts, with the amounts as a parameter *)

CentsOf(am, q) == {q} \X (1..am[q])
Cents(am, S) == UNION {CentsOf(am, q) : q \in S}
Total(am, S) == Cardinality(Cents(am, S))

\* The cents of one refund.
LEMMA CentsOfOne ==
  ASSUME NEW am \in [Refunds -> Nat], NEW q \in Refunds
  PROVE  IsFiniteSet(CentsOf(am, q)) /\ Cardinality(CentsOf(am, q)) = am[q]
<1>1. am[q] \in Nat OBVIOUS
<1>2. IsFiniteSet({q}) /\ Cardinality({q}) = 1 BY FS_Singleton
<1>3. IsFiniteSet(1..am[q]) /\ Cardinality(1..am[q]) = am[q]
  <2>1. /\ IsFiniteSet(1..am[q])
        /\ Cardinality(1..am[q]) = IF 1 > am[q] THEN 0 ELSE am[q] - 1 + 1
    BY <1>1, FS_Interval
  <2> QED BY <1>1, <2>1
<1>4. /\ IsFiniteSet({q} \X (1..am[q]))
      /\ Cardinality({q} \X (1..am[q])) = Cardinality({q}) * Cardinality(1..am[q])
  BY <1>2, <1>3, FS_Product
<1>5. Cardinality({q} \X (1..am[q])) = 1 * am[q] BY <1>2, <1>3, <1>4, Zenon
<1>6. 1 * am[q] = am[q] BY <1>1
<1> QED BY <1>4, <1>5, <1>6, Zenon DEF CentsOf

\* A cent belongs to one refund.
LEMMA CentsMembers ==
  ASSUME NEW am, NEW S, NEW c
  PROVE  c \in Cents(am, S) <=> \E q \in S : c \in CentsOf(am, q)
BY DEF Cents

\* Only finitely many cents are paid back.
LEMMA TotalType ==
  ASSUME NEW am \in [Refunds -> Nat], NEW S \in SUBSET Refunds
  PROVE  IsFiniteSet(Cents(am, S)) /\ Total(am, S) \in Nat
<1> DEFINE f == [q \in S |-> CentsOf(am, q)]
           C == {CentsOf(am, q) : q \in S}
<1>1. IsFiniteSet(S) BY PaymentAssumption, FS_Subset
<1>2. f \in Surjection(S, C) BY DEF Surjection
<1>3. IsFiniteSet(C) BY <1>1, <1>2, FS_Surjection
<1>4. \A T \in C : IsFiniteSet(T) BY CentsOfOne
<1>5. IsFiniteSet(UNION C) BY <1>3, <1>4, FS_UNION
<1> QED BY <1>5, FS_CardinalityType DEF Cents, Total

\* One refund more.
LEMMA TotalAdd ==
  ASSUME NEW am \in [Refunds -> Nat], NEW S \in SUBSET Refunds, NEW q \in Refunds \ S
  PROVE  Total(am, S \cup {q}) = Total(am, S) + am[q]
<1> DEFINE A == Cents(am, S)
           B == CentsOf(am, q)
<1>1. IsFiniteSet(A) /\ Cardinality(A) \in Nat BY TotalType DEF Total
<1>2. IsFiniteSet(B) /\ Cardinality(B) = am[q] /\ am[q] \in Nat BY CentsOfOne
<1>3. Cents(am, S \cup {q}) = A \cup B BY DEF Cents
<1>4. A \cap B = {}
  <2> SUFFICES ASSUME NEW c \in A, c \in B PROVE FALSE OBVIOUS
  <2>1. PICK x \in S : c \in CentsOf(am, x) BY CentsMembers
  <2>2. c[1] = x BY <2>1 DEF CentsOf
  <2>3. c[1] = q BY DEF CentsOf
  <2> QED BY <2>2, <2>3
<1>5. Cardinality(A \cup B) = Cardinality(A) + Cardinality(B) - Cardinality(A \cap B)
  BY <1>1, <1>2, FS_Union
<1>6. Cardinality(A \cap B) = 0 BY <1>4, FS_EmptySet
<1> HIDE DEF A, B
<1>7. Cardinality(A \cup B) = Cardinality(A) + am[q] BY <1>1, <1>2, <1>5, <1>6
<1> QED BY <1>3, <1>7 DEF A, Total

\* More refunds, or the same, with the same amounts.
LEMMA TotalGrows ==
  ASSUME NEW am \in [Refunds -> Nat], NEW am2 \in [Refunds -> Nat],
         NEW S \in SUBSET Refunds, NEW T \in SUBSET Refunds,
         \A q \in S : q \in T /\ am2[q] = am[q]
  PROVE  Total(am, S) <= Total(am2, T)
<1>1. Cents(am, S) \subseteq Cents(am2, T) BY DEF Cents, CentsOf
<1>2. IsFiniteSet(Cents(am2, T)) BY TotalType
<1>3. Cardinality(Cents(am, S)) <= Cardinality(Cents(am2, T)) BY <1>1, <1>2, FS_Subset
<1> QED BY <1>3 DEF Total

-----------------------------------------------------------------------------
(* Rows and amounts have their types *)

\* The rest of TypeOK.
ReadType == seen \in [Refunds -> Reads]
StoreType ==
  /\ created \in Seq(Keys)
  /\ rEvents \in [Refunds -> SUBSET {"RefundInitiated", "RefundCompleted", "RefundFailed"}]
  /\ known \subseteq Refunds
  /\ processed \subseteq (Keys \X {"captured", "declined"}) \cup (Refunds \X RefundEvents)
  /\ faults \in 0..MaxFaults

Amounts == [q \in Refunds |-> seen[q].amount]

\* The model's Sum is such a total.
LEMMA SumIsTotal == ASSUME NEW S \in SUBSET Refunds PROVE Sum(S) = Total(Amounts, S)
<1>1. \A q \in S : {q} \X (1..seen[q].amount) = CentsOf(Amounts, q) BY DEF CentsOf, Amounts
<1>2. UNION {{q} \X (1..seen[q].amount) : q \in S} = Cents(Amounts, S) BY <1>1, Zenon DEF Cents
<1> QED BY <1>2 DEF Sum, Total

\* Amounts are numbers of cents.
LEMMA AmountsType ==
  ASSUME ReadType
  PROVE  Amounts \in [Refunds -> Nat] /\ \A q \in Refunds : Amounts[q] = seen[q].amount
BY DEF ReadType, Reads, Amounts

LEMMA SumType == ASSUME ReadType, NEW S \in SUBSET Refunds PROVE Sum(S) \in Nat
BY SumIsTotal, TotalType, AmountsType

\* GetTotalRefundedAmount reads a number.
LEMMA TotalRefundedType == ASSUME ReadType, NEW k PROVE TotalRefunded(k) \in Nat
<1>1. {q \in RefundsOf(k) : rStatus[q] = "SUCCESS"} \in SUBSET Refunds BY DEF RefundsOf
<1> QED BY <1>1, SumType DEF TotalRefunded

\* What a refund has read is forgotten.
LEMMA ForgetReads == ASSUME NEW rec \in Reads PROVE [rec EXCEPT !.prev = None, !.total = 0] \in Reads
<1>1. [rec EXCEPT !.prev = None] \in Reads BY DEF Reads
<1>2. \A b \in Reads : [b EXCEPT !.total = 0] \in Reads BY DEF Reads
<1>3. [rec EXCEPT !.prev = None, !.total = 0] = [[rec EXCEPT !.prev = None] EXCEPT !.total = 0] BY DEF Reads
<1> QED BY <1>1, <1>2, <1>3

\* A refund asks for a positive amount with one of its keys.
LEMMA ReadsAreTyped ==
  ASSUME TypeInv, ReadType, NEW q \in Refunds, RefundStep(q)
  PROVE  ReadType'
<1>1. CASE CheckRefund(q)
  <2>1. CASE seen' = seen BY <2>1 DEF ReadType
  <2>2. ASSUME NEW key \in RefundKeysOf[q], RefundAmount(q) > 0,
               status[PaymentOf[q]] \in {"SUCCESS", "PARTIALLY_REFUNDED"},
               seen' = [seen EXCEPT ![q] = [key |-> key, amount |-> RefundAmount(q),
                                            prev |-> status[PaymentOf[q]], total |-> 0]]
        PROVE  ReadType'
    <3>1. RefundAmount(q) \in Int
      BY TotalRefundedType, PaymentAssumption DEF RefundAmount
    <3>2. RefundAmount(q) \in Nat BY <2>2, <3>1
    <3>3. key \in RefundKeys BY <2>2 DEF RefundKeys
    <3>4. status[PaymentOf[q]] \in PaymentStatuses BY <2>2 DEF PaymentStatuses
    <3> DEFINE rec == [key |-> key, amount |-> RefundAmount(q), prev |-> status[PaymentOf[q]], total |-> 0]
    <3>5. rec \in Reads BY <3>2, <3>3, <3>4 DEF Reads
    <3>6. seen' = [seen EXCEPT ![q] = rec] BY <2>2
    <3> HIDE DEF rec
    <3> QED BY <3>5, <3>6 DEF ReadType
  <2> QED BY <1>1, <2>1, <2>2 DEF CheckRefund
<1>2. CASE CheckRefundable(q)
  <2>1. TotalRefunded(PaymentOf[q]) \in Int BY TotalRefundedType
  <2>2. CASE seen' = seen BY <2>2 DEF ReadType
  <2>3. CASE seen' = [seen EXCEPT ![q].total = TotalRefunded(PaymentOf[q])]
    BY <2>1, <2>3 DEF ReadType, Reads
  <2> QED BY <1>2, <2>2, <2>3 DEF CheckRefundable
<1>3. CASE RecordRefundOnPayment(q)
  <2>1. seen' = [seen EXCEPT ![q].prev = None, ![q].total = 0] BY <1>3 DEF RecordRefundOnPayment
  <2>2. [seen[q] EXCEPT !.prev = None, !.total = 0] \in Reads BY ForgetReads DEF ReadType
  <2>3. seen' = [seen EXCEPT ![q] = [seen[q] EXCEPT !.prev = None, !.total = 0]] BY <2>1 DEF ReadType
  <2> QED BY <2>2, <2>3 DEF ReadType
<1>4. CASE seen' = seen BY <1>4 DEF ReadType
<1> QED BY <1>1, <1>2, <1>3, <1>4
     DEF RefundStep, MarkRefundPending, CreateRefund, RefundGateway, RecordRefund

\* A payment row that a step updates, creates or leaves alone.
LEMMA CreatedIsTyped ==
  ASSUME created \in Seq(Keys), NEW k \in Keys, NEW s,
         UNCHANGED rows \/ TryUpdate(k, s) \/ UpdatePaymentStatus(k, s) \/ created' = Append(created, k)
  PROVE  created' \in Seq(Keys)
<1>1. created' = created \/ created' = Append(created, k)
  BY DEF rows, TryUpdate, UpdatePaymentStatus
<1> QED BY <1>1

\* Faults stay within their bound.
LEMMA FaultsAreTyped ==
  ASSUME faults \in 0..MaxFaults,
         \/ UNCHANGED faults
         \/ faults < MaxFaults /\ faults' = faults + 1
         \/ \E b \in BOOLEAN : MayFail(b)
  PROVE  faults' \in 0..MaxFaults
BY PaymentAssumption DEF MayFail

\* UpdateRefundStatus announces known events.
LEMMA RefundEventsAreTyped ==
  ASSUME StoreType, TypeInv, NEW q \in Refunds, NEW s, UpdateRefundStatus(q, s)
  PROVE  rEvents' \in [Refunds -> SUBSET {"RefundInitiated", "RefundCompleted", "RefundFailed"}]
BY DEF StoreType, UpdateRefundStatus

\* Every step keeps the rows typed.
LEMMA StoreIsTyped == ASSUME TypeInv, StoreType, [Next]_vars PROVE StoreType'
<1> USE KeysAreKeys
<1>1. CASE UNCHANGED <<created, rEvents, known, processed>> /\ faults' \in 0..MaxFaults
  BY <1>1 DEF StoreType
<1>2. ASSUME NEW r \in Requests, PayStep(r) \/ Redeliver(r) PROVE StoreType'
  <2>1. UNCHANGED <<rEvents, known, processed>>
    BY <1>2 DEF PayStep, Redeliver, CheckExisting, CreatePayment, MarkPending, CallGateway,
         RecordAnswer, refund, stored, hooks
  <2>2. faults' \in 0..MaxFaults
    BY <1>2, FaultsAreTyped DEF StoreType, PayStep, Redeliver, CheckExisting, CreatePayment,
         MarkPending, CallGateway, RecordAnswer
  <2>3. created' \in Seq(Keys)
    <3>1. PICK s : UNCHANGED rows \/ TryUpdate(KeyOf[r], s) \/ created' = Append(created, KeyOf[r])
      BY <1>2 DEF PayStep, Redeliver, CheckExisting, CreatePayment, MarkPending, CallGateway, RecordAnswer
    <3> QED BY <3>1, CreatedIsTyped DEF StoreType
  <2> QED BY <2>1, <2>2, <2>3 DEF StoreType
<1>3. ASSUME NEW q \in Refunds, RefundStep(q) \/ GatewayRefundFails(q) PROVE StoreType'
  <2>1. UNCHANGED <<processed, faults>>
    BY <1>3 DEF RefundStep, GatewayRefundFails, CheckRefund, CheckRefundable, MarkRefundPending,
         CreateRefund, RefundGateway, RecordRefund, RecordRefundOnPayment, hooks
  <2>2. created' \in Seq(Keys)
    <3>1. PICK s : UNCHANGED rows \/ TryUpdate(PaymentOf[q], s)
      BY <1>3 DEF RefundStep, GatewayRefundFails, CheckRefund, CheckRefundable, MarkRefundPending,
           CreateRefund, RefundGateway, RecordRefund, RecordRefundOnPayment
    <3> QED BY <3>1, CreatedIsTyped DEF StoreType
  <2>3. CASE RecordRefund(q)
    <3>1. PICK s : UpdateRefundStatus(q, s) BY <2>3 DEF RecordRefund
    <3>2. known' \subseteq Refunds BY <2>3 DEF RecordRefund, StoreType
    <3> QED BY <2>1, <2>2, <3>1, <3>2, RefundEventsAreTyped DEF StoreType
  <2>4. CASE CreateRefund(q)
    BY <2>1, <2>2, <2>4 DEF CreateRefund, stored, StoreType
  <2>5. CASE CheckRefund(q)
    BY <2>1, <2>2, <2>5 DEF CheckRefund, stored, StoreType
  <2>6. CASE UNCHANGED <<rEvents, known>> BY <2>1, <2>2, <2>6 DEF StoreType
  <2> QED BY <1>3, <2>3, <2>4, <2>5, <2>6 DEF RefundStep, GatewayRefundFails, CheckRefundable,
       MarkRefundPending, RefundGateway, RecordRefundOnPayment, stored
<1>4. ASSUME NEW q \in Refunds, NEW e \in RefundEvents, HandleRefundWebhook(q, e) PROVE StoreType'
  <2>1. UNCHANGED <<created, known>> BY <1>4 DEF HandleRefundWebhook, rows
  <2>2. processed' \subseteq (Keys \X {"captured", "declined"}) \cup (Refunds \X RefundEvents)
    <3>1. processed' = processed \/ processed' = processed \cup {<<q, e>>}
      BY <1>4 DEF HandleRefundWebhook
    <3> QED BY <3>1 DEF StoreType
  <2>3. faults' \in 0..MaxFaults
    <3>1. \E b \in BOOLEAN : MayFail(b)
      <4>1. PICK failed \in IF q \in known THEN BOOLEAN ELSE {TRUE} : MayFail(failed /\ q \in known)
        BY <1>4 DEF HandleRefundWebhook
      <4> QED BY <4>1
    <3> QED BY <3>1, FaultsAreTyped DEF StoreType
  <2>4. (\E s : UpdateRefundStatus(q, s)) \/ UNCHANGED <<rEvents>>
    BY <1>4 DEF HandleRefundWebhook
  <2> QED BY <2>1, <2>2, <2>3, <2>4, RefundEventsAreTyped DEF StoreType
<1>5. ASSUME NEW q \in Refunds, NEW e \in RefundEvents, RefreshPayment(q, e) PROVE StoreType'
  <2>1. UNCHANGED <<rEvents, known>> BY <1>5 DEF RefreshPayment, refund, stored
  <2>2. processed' \subseteq (Keys \X {"captured", "declined"}) \cup (Refunds \X RefundEvents)
    BY <1>5 DEF RefreshPayment, StoreType
  <2>3. faults' \in 0..MaxFaults
    BY <1>5, FaultsAreTyped DEF RefreshPayment, StoreType
  <2>4. created' \in Seq(Keys)
    <3>1. PICK s : TryUpdate(PaymentOf[q], s) BY <1>5 DEF RefreshPayment
    <3> QED BY <3>1, CreatedIsTyped DEF StoreType
  <2> QED BY <2>1, <2>2, <2>3, <2>4 DEF StoreType
<1>6. ASSUME NEW k \in Keys, CancelPayment(k) \/ GatewayDecides(k) \/ HandlePaymentWebhook(k)
      PROVE  StoreType'
  <2>1. UNCHANGED <<rEvents, known, faults>>
    BY <1>6 DEF CancelPayment, GatewayDecides, HandlePaymentWebhook, refund, stored
  <2>2. created' \in Seq(Keys)
    <3>1. PICK s : UNCHANGED rows \/ TryUpdate(k, s) \/ UpdatePaymentStatus(k, s)
      BY <1>6 DEF CancelPayment, GatewayDecides, HandlePaymentWebhook
    <3> QED BY <3>1, CreatedIsTyped DEF StoreType
  <2>3. processed' \subseteq (Keys \X {"captured", "declined"}) \cup (Refunds \X RefundEvents)
    <3>1. \/ processed' = processed
          \/ processed' = processed \cup {<<k, gw[k]>>} /\ gw[k] \in {"captured", "declined"}
      BY <1>6 DEF CancelPayment, GatewayDecides, HandlePaymentWebhook, hooks
    <3> QED BY <3>1 DEF StoreType
  <2> QED BY <2>1, <2>2, <2>3 DEF StoreType
<1>7. CASE Crash
  BY <1>1, <1>7, FaultsAreTyped DEF Crash, rows, stored, hooks, StoreType
<1>8. CASE UNCHANGED vars
  BY <1>1, <1>8 DEF vars, rows, refund, stored, hooks, StoreType
<1> QED BY <1>2, <1>3, <1>4, <1>5, <1>6, <1>7, <1>8 DEF Next, RefundWebhook

-----------------------------------------------------------------------------
(* Refunds and the status of their payment *)

\* Announced as paid back.
Completed(q) == "RefundCompleted" \in rEvents[q]
CompletedOf(k) == {q \in RefundsOf(k) : Completed(q)}
SucceededOf(k) == {q \in RefundsOf(k) : rStatus[q] = "SUCCESS"}

\* Steps between the insert and the verdict, and steps that rely on the total read.
Asking == {"gateway", "ok", "failed"}
Counted == {"lock", "insert", "gateway", "ok", "okPaid"}

\* A refund that succeeded is announced, one that asks the gateway is pending, and only one
\* with a verdict has the gateway's id.
RecordInv ==
  \A q \in Refunds :
    /\ rStatus[q] = "SUCCESS" \/ rpc[q] = "okPaid" => Completed(q)
    /\ Completed(q) => rStatus[q] # None
    /\ rpc[q] \in Asking => rStatus[q] = "PENDING"
    /\ q \in known => rStatus[q] \in {"SUCCESS", "FAILED"}
    /\ seen[q].prev # "REFUNDED"

\* The total a request read counts other refunds, announced by now.
CoverInv ==
  /\ RefundedIsCovered
  /\ \A q \in Refunds : rpc[q] \in Counted =>
       seen[q].total <= Sum(CompletedOf(PaymentOf[q]) \ {q})

\* A refund a step leaves alone, and one whose row it leaves alone.
SameRefund(q) ==
  /\ rpc'[q] = rpc[q] /\ seen'[q] = seen[q]
  /\ rStatus'[q] = rStatus[q] /\ rEvents'[q] = rEvents[q]
  /\ q \in known' <=> q \in known

Keeps(q) ==
  /\ rStatus'[q] = rStatus[q] /\ rEvents'[q] = rEvents[q]
  /\ q \in known' <=> q \in known

\* What a step may do to a refund.
Ends(q) ==
  /\ Keeps(q) /\ rpc'[q] = "done"
  /\ seen'[q].amount = seen[q].amount /\ seen'[q].prev \in {seen[q].prev, None}
Begins(q) ==
  /\ Keeps(q) /\ rpc[q] = "start" /\ rpc'[q] = "amount" /\ seen'[q].prev # "REFUNDED"
Counts(q) ==
  /\ Keeps(q) /\ rpc[q] = "amount" /\ rpc'[q] = "lock"
  /\ seen'[q].total = TotalRefunded(PaymentOf[q]) /\ seen[q].amount <= Price - TotalRefunded(PaymentOf[q])
  /\ seen'[q].amount = seen[q].amount /\ seen'[q].prev = seen[q].prev
GoesOn(q) ==
  /\ Keeps(q) /\ seen'[q] = seen[q]
  /\ \/ rpc[q] = "lock" /\ rpc'[q] = "insert"
     \/ rpc[q] = "gateway" /\ rpc'[q] \in {"ok", "failed"}
Enters(q) ==
  /\ rpc[q] = "insert" /\ rpc'[q] = "gateway" /\ seen'[q] = seen[q]
  /\ rStatus'[q] = "PENDING" /\ "RefundCompleted" \notin rEvents'[q] /\ (q \in known' <=> q \in known)
Succeeds(q) ==
  /\ rpc[q] = "ok" /\ rpc'[q] = "okPaid" /\ seen'[q] = seen[q]
  /\ rStatus'[q] = "SUCCESS" /\ "RefundCompleted" \in rEvents'[q]
Fails(q) ==
  /\ rpc[q] = "failed" /\ rpc'[q] = "failedPaid" /\ seen'[q] = seen[q]
  /\ rStatus'[q] = "FAILED" /\ (Completed(q) <=> Completed(q)') /\ (q \in known' <=> q \in known)
IsTold(q) ==
  /\ rpc'[q] = rpc[q] /\ seen'[q] = seen[q] /\ q \in known
  /\ rStatus'[q] \in {"SUCCESS", "FAILED"} /\ rEvents[q] \subseteq rEvents'[q]
  /\ rStatus'[q] = "SUCCESS" => "RefundCompleted" \in rEvents'[q]

RefundMoves(q) ==
  \/ Ends(q) \/ Begins(q) \/ Counts(q) \/ GoesOn(q)
  \/ Enters(q) \/ Succeeds(q) \/ Fails(q) \/ IsTold(q)

\* One refund at a time moves.
RefundsMove ==
  \/ \A x \in Refunds : SameRefund(x)
  \/ \E q \in Refunds : RefundMoves(q) /\ \A x \in Refunds \ {q} : SameRefund(x)

RefundTypes == TypeInv /\ RefundInv /\ ReadType /\ StoreType

\* The steps of a request.
LEMMA RefundStepMoves == ASSUME RefundTypes, RecordInv, NEW q \in Refunds, RefundStep(q) PROVE RefundsMove
<1> USE DEF RefundTypes, TypeInv, RefundInv, ReadType, StoreType
<1>1. CASE CheckRefund(q)
  <2>1. UNCHANGED <<rStatus, rEvents, known>> BY <1>1 DEF CheckRefund, stored
  <2>2. CASE rpc' = [rpc EXCEPT ![q] = "done"] /\ UNCHANGED seen
    BY <2>1, <2>2 DEF RefundsMove, RefundMoves, Ends, Keeps, SameRefund
  <2>3. ASSUME NEW key, NEW amount, status[PaymentOf[q]] \in {"SUCCESS", "PARTIALLY_REFUNDED"},
               rpc[q] = "start", rpc' = [rpc EXCEPT ![q] = "amount"],
               seen' = [seen EXCEPT ![q] =
                          [key |-> key, amount |-> amount, prev |-> status[PaymentOf[q]], total |-> 0]]
        PROVE  RefundsMove
    <3>1. Begins(q) BY <2>1, <2>3 DEF Begins, Keeps
    <3>2. \A x \in Refunds \ {q} : SameRefund(x) BY <2>1, <2>3 DEF SameRefund
    <3> QED BY <2>3, <3>1, <3>2 DEF RefundsMove, RefundMoves
  <2> QED BY <1>1, <2>2, <2>3 DEF CheckRefund
<1>2. CASE CheckRefundable(q)
  <2>1. UNCHANGED <<rStatus, rEvents, known>> BY <1>2 DEF CheckRefundable, stored
  <2>2. \A x \in Refunds \ {q} : SameRefund(x) BY <1>2, <2>1 DEF SameRefund, CheckRefundable
  <2>3. CASE rpc' = [rpc EXCEPT ![q] = "done"] /\ UNCHANGED seen
    BY <2>1, <2>2, <2>3 DEF RefundsMove, RefundMoves, Ends, Keeps
  <2>4. CASE /\ rpc[q] = "amount" /\ rpc' = [rpc EXCEPT ![q] = "lock"]
             /\ seen[q].amount <= Price - TotalRefunded(PaymentOf[q])
             /\ seen' = [seen EXCEPT ![q].total = TotalRefunded(PaymentOf[q])]
    <3>1. seen'[q].total = TotalRefunded(PaymentOf[q]) /\ seen'[q].amount = seen[q].amount
          /\ seen'[q].prev = seen[q].prev
      BY <2>4 DEF Reads
    <3>2. Counts(q) BY <2>1, <2>4, <3>1 DEF Counts, Keeps
    <3> QED BY <2>1, <2>2, <3>2 DEF RefundsMove, RefundMoves
  <2> QED BY <1>2, <2>3, <2>4 DEF CheckRefundable
<1>3. CASE MarkRefundPending(q)
  BY <1>3 DEF MarkRefundPending, stored, RefundsMove, RefundMoves, Ends, GoesOn, Keeps, SameRefund
<1>4. CASE CreateRefund(q)
  <2>1. rpc[q] = "insert" /\ UNCHANGED <<seen, known>> BY <1>4 DEF CreateRefund, stored
  <2>2. CASE RefundKeyTaken(q)
    <3>1. UNCHANGED <<rStatus, rEvents>> /\ rpc' = [rpc EXCEPT ![q] = "done"]
      BY <1>4, <2>2 DEF CreateRefund, stored
    <3> QED BY <2>1, <3>1 DEF RefundsMove, RefundMoves, Ends, Keeps, SameRefund
  <2>3. CASE ~RefundKeyTaken(q)
    <3>1. /\ rpc' = [rpc EXCEPT ![q] = "gateway"] /\ rStatus' = [rStatus EXCEPT ![q] = "PENDING"]
          /\ rEvents' = [rEvents EXCEPT ![q] = {"RefundInitiated"}]
      BY <1>4, <2>3 DEF CreateRefund
    <3>2. Enters(q) BY <2>1, <3>1 DEF Enters
    <3>3. \A x \in Refunds \ {q} : SameRefund(x) BY <2>1, <3>1 DEF SameRefund
    <3> QED BY <2>1, <3>2, <3>3 DEF RefundsMove, RefundMoves
  <2> QED BY <2>2, <2>3
<1>5. CASE RefundGateway(q)
  <2>1. rpc[q] = "gateway" /\ UNCHANGED <<seen, rStatus, rEvents, known>>
    BY <1>5 DEF RefundGateway, stored
  <2>2. PICK s \in {"ok", "failed"} : rpc' = [rpc EXCEPT ![q] = s]
    <3>1. PICK out \in {<<None, "failed">>, <<"done", "ok">>, <<"done", "failed">>} :
            rpc' = [rpc EXCEPT ![q] = out[2]]
      BY <1>5 DEF RefundGateway
    <3>2. out[2] \in {"ok", "failed"}
      <4>1. CASE out = <<None, "failed">> BY <4>1
      <4>2. CASE out = <<"done", "ok">> BY <4>2
      <4>3. CASE out = <<"done", "failed">> BY <4>3
      <4> QED BY <3>1, <4>1, <4>2, <4>3
    <3> QED BY <3>1, <3>2
  <2> QED BY <2>1, <2>2 DEF RefundsMove, RefundMoves, GoesOn, Keeps, SameRefund
<1>6. CASE RecordRefund(q)
  <2>1. /\ UNCHANGED seen /\ rStatus[q] = "PENDING"
        /\ \A x \in Refunds \ {q} : SameRefund(x)
    BY <1>6 DEF RecordRefund, UpdateRefundStatus, SameRefund, RecordInv, Asking
  <2>2. CASE rpc[q] = "ok"
    BY <1>6, <2>1, <2>2 DEF RecordRefund, UpdateRefundStatus, RefundsMove, RefundMoves, Succeeds
  <2>3. CASE rpc[q] = "failed"
    <3>1. Fails(q) BY <1>6, <2>1, <2>3 DEF RecordRefund, UpdateRefundStatus, Fails, Completed
    <3> QED BY <2>1, <3>1 DEF RefundsMove, RefundMoves
  <2> QED BY <1>6, <2>2, <2>3 DEF RecordRefund
<1>7. CASE RecordRefundOnPayment(q)
  <2>1. /\ UNCHANGED <<rStatus, rEvents, known>> /\ rpc' = [rpc EXCEPT ![q] = "done"]
        /\ seen' = [seen EXCEPT ![q].prev = None, ![q].total = 0]
    BY <1>7 DEF RecordRefundOnPayment, stored
  <2>2. seen'[q].amount = seen[q].amount /\ seen'[q].prev = None
    BY <2>1 DEF Reads
  <2>3. \A x \in Refunds \ {q} : SameRefund(x) BY <2>1 DEF SameRefund
  <2> QED BY <2>1, <2>2, <2>3 DEF RefundsMove, RefundMoves, Ends, Keeps
<1> QED BY <1>1, <1>2, <1>3, <1>4, <1>5, <1>6, <1>7 DEF RefundStep

\* Every step moves at most one refund, in one of the eight ways.
LEMMA StepRefundsMove == ASSUME RefundTypes, RecordInv, [Next]_vars PROVE RefundsMove
<1>1. CASE UNCHANGED <<rpc, seen, rStatus, rEvents, known>> BY <1>1 DEF RefundsMove, SameRefund
<1>2. ASSUME NEW r \in Requests, PayStep(r) \/ Redeliver(r) PROVE RefundsMove
  BY <1>1, <1>2 DEF PayStep, CheckExisting, CreatePayment, MarkPending, CallGateway, RecordAnswer,
       Redeliver, refund, stored
<1>3. ASSUME NEW k \in Keys, CancelPayment(k) \/ GatewayDecides(k) \/ HandlePaymentWebhook(k)
      PROVE  RefundsMove
  BY <1>1, <1>3 DEF CancelPayment, GatewayDecides, HandlePaymentWebhook, refund, stored
<1>4. ASSUME NEW q \in Refunds, NEW e \in RefundEvents, RefreshPayment(q, e) PROVE RefundsMove
  BY <1>1, <1>4 DEF RefreshPayment, refund, stored
<1>5. ASSUME NEW q \in Refunds, GatewayRefundFails(q) PROVE RefundsMove
  BY <1>1, <1>5 DEF GatewayRefundFails, stored
<1>6. ASSUME NEW q \in Refunds, NEW e \in RefundEvents, HandleRefundWebhook(q, e) PROVE RefundsMove
  <2>1. UNCHANGED <<rpc, seen, known>> BY <1>6 DEF HandleRefundWebhook
  <2>2. CASE UNCHANGED <<rStatus, rEvents>> BY <1>1, <2>1, <2>2
  <2>3. ASSUME NEW s \in {"SUCCESS", "FAILED"}, q \in known, UpdateRefundStatus(q, s) PROVE RefundsMove
    <3>1. \A x \in Refunds \ {q} : SameRefund(x)
      BY <2>1, <2>3 DEF UpdateRefundStatus, SameRefund, RefundTypes, RefundInv, StoreType
    <3>2. /\ rStatus'[q] = s /\ rEvents[q] \subseteq rEvents'[q]
          /\ s = "SUCCESS" => "RefundCompleted" \in rEvents'[q]
      BY <2>3 DEF UpdateRefundStatus, RefundTypes, RefundInv, StoreType, RecordInv, Completed
    <3> QED BY <2>1, <2>3, <3>1, <3>2 DEF RefundsMove, RefundMoves, IsTold
  <2> QED BY <1>6, <2>2, <2>3 DEF HandleRefundWebhook
<1>7. CASE Crash
  <2>1. UNCHANGED <<seen, rStatus, rEvents, known>> BY <1>7 DEF Crash, stored
  <2>2. CASE rpc' = rpc BY <1>1, <2>1, <2>2
  <2>3. ASSUME NEW q \in Refunds, rpc' = [rpc EXCEPT ![q] = "done"] PROVE RefundsMove
    BY <2>1, <2>3 DEF RefundsMove, RefundMoves, Ends, Keeps, SameRefund, RefundTypes, RefundInv
  <2> QED BY <1>7, <2>2, <2>3 DEF Crash
<1>8. CASE UNCHANGED vars BY <1>1, <1>8 DEF vars, refund, stored
<1> QED BY <1>2, <1>3, <1>4, <1>5, <1>6, <1>7, <1>8, RefundStepMoves DEF Next, RefundWebhook

\* The row, the events and the id of a refund keep fitting its step.
LEMMA RecordStep == ASSUME RefundTypes, RecordInv, RefundsMove PROVE RecordInv'
<1> DEFINE P(q) == /\ rStatus[q] = "SUCCESS" \/ rpc[q] = "okPaid" => Completed(q)
                   /\ Completed(q) => rStatus[q] # None
                   /\ rpc[q] \in Asking => rStatus[q] = "PENDING"
                   /\ q \in known => rStatus[q] \in {"SUCCESS", "FAILED"}
                   /\ seen[q].prev # "REFUNDED"
<1>1. \A q \in Refunds : P(q) BY DEF RecordInv
<1>2. ASSUME NEW q \in Refunds, SameRefund(q) PROVE P(q)'
  BY <1>1, <1>2 DEF SameRefund, Completed
<1>3. ASSUME NEW q \in Refunds, RefundMoves(q) PROVE P(q)'
  <2>0. P(q) BY <1>1
  <2>1. CASE Ends(q) BY <2>0, <2>1 DEF Ends, Keeps, Completed, Asking, None
  <2>2. CASE Begins(q) BY <2>0, <2>2 DEF Begins, Keeps, Completed, Asking
  <2>3. CASE Counts(q) BY <2>0, <2>3 DEF Counts, Keeps, Completed, Asking
  <2>4. CASE GoesOn(q) BY <2>0, <2>4 DEF GoesOn, Keeps, Completed, Asking
  <2>5. CASE Enters(q)
    <3>1. rStatus[q] = None BY <2>5 DEF Enters, RefundTypes, RefundInv, Early
    <3> QED BY <2>0, <2>5, <3>1 DEF Enters, Completed, Asking, None
  <2>6. CASE Succeeds(q) BY <2>0, <2>6 DEF Succeeds, Completed, Asking, None
  <2>7. CASE Fails(q) BY <2>0, <2>7 DEF Fails, Completed, Asking, None
  <2>8. CASE IsTold(q) BY <2>0, <2>8 DEF IsTold, Completed, Asking, None
  <2> QED BY <1>3, <2>1, <2>2, <2>3, <2>4, <2>5, <2>6, <2>7, <2>8 DEF RefundMoves
<1>4. \A q \in Refunds : P(q)' BY <1>2, <1>3 DEF RefundsMove
<1> QED BY <1>4 DEF RecordInv

-----------------------------------------------------------------------------
(* A refunded payment is covered *)

\* An announcement stands, and the amount it is about.
LEMMA AnnouncedStays ==
  ASSUME RefundTypes, RecordInv, RefundsMove, NEW q \in Refunds, Completed(q)
  PROVE  Completed(q)' /\ seen'[q].amount = seen[q].amount
<1>1. rStatus[q] # None /\ rpc[q] \notin Early BY DEF RecordInv, RefundTypes, RefundInv
<1>2. CASE SameRefund(q) BY <1>2 DEF SameRefund, Completed
<1>3. CASE RefundMoves(q)
  BY <1>1, <1>3 DEF RefundMoves, Ends, Begins, Counts, GoesOn, Enters, Succeeds, Fails, IsTold, Keeps,
       Completed, Early
<1> QED BY <1>2, <1>3 DEF RefundsMove

\* Sums before and after a step are totals over sets of refunds.
LEMMA SumPrimed ==
  ASSUME NEW k
  PROVE  /\ Sum(CompletedOf(k)) = Total(Amounts, CompletedOf(k))
         /\ Sum(SucceededOf(k)) = Total(Amounts, SucceededOf(k))
         /\ Sum(CompletedOf(k))' = Total(Amounts', CompletedOf(k)')
         /\ Sum(SucceededOf(k))' = Total(Amounts', SucceededOf(k)')
         /\ \A q : /\ Sum(CompletedOf(k) \ {q}) = Total(Amounts, CompletedOf(k) \ {q})
                   /\ Sum(CompletedOf(k) \ {q})' = Total(Amounts', CompletedOf(k)' \ {q})
<1>1. ASSUME NEW S \in SUBSET Refunds
      PROVE  Cardinality(UNION {{q} \X (1..seen'[q].amount) : q \in S}) = Total(Amounts', S)
  <2>1. \A q \in S : {q} \X (1..seen'[q].amount) = CentsOf(Amounts', q) BY DEF CentsOf, Amounts
  <2>2. UNION {{q} \X (1..seen'[q].amount) : q \in S} = Cents(Amounts', S) BY <2>1, Zenon DEF Cents
  <2> QED BY <2>2 DEF Total
<1>2. \A q : /\ CompletedOf(k) \in SUBSET Refunds /\ CompletedOf(k) \ {q} \in SUBSET Refunds
             /\ SucceededOf(k) \in SUBSET Refunds
             /\ CompletedOf(k)' \in SUBSET Refunds /\ CompletedOf(k)' \ {q} \in SUBSET Refunds
             /\ SucceededOf(k)' \in SUBSET Refunds
  BY DEF CompletedOf, SucceededOf, RefundsOf
<1>3. /\ Sum(CompletedOf(k))' = Total(Amounts', CompletedOf(k)')
      /\ Sum(SucceededOf(k))' = Total(Amounts', SucceededOf(k)')
      /\ \A q : Sum(CompletedOf(k) \ {q})' = Total(Amounts', CompletedOf(k)' \ {q})
  BY <1>1, <1>2, Zenon DEF Sum
<1> QED BY <1>2, <1>3, SumIsTotal

\* Money that was announced as paid back stays so.
LEMMA AnnouncedGrows ==
  ASSUME RefundTypes, ReadType', RecordInv, RefundsMove, NEW k
  PROVE  /\ Sum(CompletedOf(k)) <= Sum(CompletedOf(k))'
         /\ \A q : Sum(CompletedOf(k) \ {q}) <= Sum(CompletedOf(k) \ {q})'
<1>1. Amounts \in [Refunds -> Nat] /\ Amounts' \in [Refunds -> Nat]
  BY AmountsType DEF RefundTypes, ReadType, Reads, Amounts
<1>2. \A x \in CompletedOf(k) : x \in CompletedOf(k)' /\ Amounts'[x] = Amounts[x]
  BY AnnouncedStays DEF CompletedOf, RefundsOf, Amounts
<1>3. PICK A \in SUBSET Refunds, B \in SUBSET Refunds : A = CompletedOf(k) /\ B = CompletedOf(k)'
  BY DEF CompletedOf, RefundsOf
<1>4. PICK am \in [Refunds -> Nat], am2 \in [Refunds -> Nat] : am = Amounts /\ am2 = Amounts'
  BY <1>1
<1>5. \A x \in A : x \in B /\ am2[x] = am[x] BY <1>2, <1>3, <1>4
<1>6. Total(am, A) <= Total(am2, B) BY <1>5, TotalGrows
<1>7. \A q : Total(am, A \ {q}) <= Total(am2, B \ {q})
  <2> TAKE q
  <2>1. \A x \in A \ {q} : x \in B \ {q} /\ am2[x] = am[x] BY <1>5
  <2> QED BY <2>1, TotalGrows
<1> QED BY <1>3, <1>4, <1>6, <1>7, SumPrimed

\* What a payment was REFUNDED for.
LEMMA RefundedBy ==
  ASSUME RefundTypes, RecordInv, [Next]_vars, NEW k \in Keys, status'[k] = "REFUNDED", status[k] # "REFUNDED"
  PROVE  \/ Sum(SucceededOf(k)) >= Price
         \/ \E q \in RefundsOf(k) : rpc[q] = "okPaid" /\ seen[q].total + seen[q].amount >= Price
<1> USE KeysAreKeys DEF RefundTypes, TypeInv
<1>1. ASSUME NEW j \in Keys, NEW s, TryUpdate(j, s) PROVE j = k /\ s = "REFUNDED"
  BY <1>1 DEF TryUpdate, UpdatePaymentStatus, rows
<1>2. CASE UNCHANGED status BY <1>2
<1>3. ASSUME NEW r \in Requests, PayStep(r) \/ Redeliver(r) PROVE FALSE
  <2>1. CASE CreatePayment(r) BY <2>1 DEF CreatePayment, rows
  <2>2. CASE MarkPending(r) BY <1>1, <2>2 DEF MarkPending
  <2>3. CASE RecordAnswer(r)
    <3>1. StatusOf(ans[r]) # "REFUNDED" BY DEF StatusOf
    <3> QED BY <1>1, <2>3, <3>1 DEF RecordAnswer
  <2> QED BY <1>2, <1>3, <2>1, <2>2, <2>3 DEF PayStep, Redeliver, CheckExisting, CallGateway, rows
<1>4. ASSUME NEW j \in Keys, CancelPayment(j) \/ GatewayDecides(j) \/ HandlePaymentWebhook(j) PROVE FALSE
  <2>1. CASE CancelPayment(j) BY <2>1 DEF CancelPayment, UpdatePaymentStatus
  <2>2. CASE HandlePaymentWebhook(j)
    <3>1. (IF gw[j] = "captured" THEN "SUCCESS" ELSE "FAILED") # "REFUNDED" OBVIOUS
    <3> QED BY <1>1, <1>2, <2>2, <3>1 DEF HandlePaymentWebhook, rows
  <2> QED BY <1>2, <1>4, <2>1, <2>2 DEF GatewayDecides, rows
<1>5. ASSUME NEW q \in Refunds, RefundStep(q) \/ GatewayRefundFails(q)
      PROVE  /\ q \in RefundsOf(k) /\ rpc[q] = "okPaid"
             /\ seen[q].total + seen[q].amount >= Price
  <2>1. CASE MarkRefundPending(q) BY <1>1, <2>1 DEF MarkRefundPending
  <2>2. CASE CreateRefund(q)
    <3>1. TryUpdate(PaymentOf[q], seen[q].prev) \/ UNCHANGED rows BY <2>2 DEF CreateRefund
    <3>2. seen[q].prev # "REFUNDED" BY DEF RecordInv
    <3> QED BY <1>1, <1>2, <3>1, <3>2 DEF rows
  <2>3. CASE RecordRefundOnPayment(q)
    <3>1. seen[q].prev # "REFUNDED" BY DEF RecordInv
    <3>2. CASE rpc[q] = "failedPaid"
      <4>1. TryUpdate(PaymentOf[q], seen[q].prev) BY <2>3, <3>2 DEF RecordRefundOnPayment
      <4> QED BY <1>1, <3>1, <4>1
    <3>3. CASE rpc[q] = "okPaid"
      <4>1. TryUpdate(PaymentOf[q], StatusAfter(seen[q].total + seen[q].amount))
        BY <2>3, <3>3 DEF RecordRefundOnPayment
      <4>2. PaymentOf[q] = k /\ StatusAfter(seen[q].total + seen[q].amount) = "REFUNDED" BY <1>1, <4>1
      <4> QED BY <3>3, <4>2 DEF StatusAfter, RefundsOf
    <3> QED BY <2>3, <3>2, <3>3 DEF RecordRefundOnPayment
  <2> QED BY <1>2, <1>5, <2>1, <2>2, <2>3 DEF RefundStep, GatewayRefundFails, CheckRefund, CheckRefundable,
       RefundGateway, RecordRefund, rows
<1>6. ASSUME NEW q \in Refunds, NEW e \in RefundEvents, RefreshPayment(q, e)
      PROVE  Sum(SucceededOf(k)) >= Price
  <2>1. PICK failed \in BOOLEAN :
          LET total == IF failed THEN 0 ELSE TotalRefunded(PaymentOf[q]) IN
          TryUpdate(PaymentOf[q], IF e = "processed" THEN StatusAfter(total)
                                  ELSE IF total > 0 THEN "PARTIALLY_REFUNDED" ELSE "SUCCESS")
    BY <1>6 DEF RefreshPayment
  <2> DEFINE total == IF failed THEN 0 ELSE TotalRefunded(PaymentOf[q])
  <2>2. /\ PaymentOf[q] = k
        /\ (IF e = "processed" THEN StatusAfter(total)
            ELSE IF total > 0 THEN "PARTIALLY_REFUNDED" ELSE "SUCCESS") = "REFUNDED"
    BY <1>1, <2>1
  <2>3. total >= Price BY <2>2 DEF StatusAfter
  <2>4. ~failed BY <2>3, PaymentAssumption
  <2>5. TotalRefunded(k) >= Price BY <2>2, <2>3, <2>4
  <2> QED BY <2>5 DEF TotalRefunded, SucceededOf
<1>7. ASSUME NEW q \in Refunds, NEW e \in RefundEvents, HandleRefundWebhook(q, e) PROVE FALSE
  BY <1>2, <1>7 DEF HandleRefundWebhook, rows
<1>8. CASE Crash BY <1>2, <1>8 DEF Crash, rows
<1>9. CASE UNCHANGED vars BY <1>2, <1>9 DEF vars, rows
<1> QED BY <1>3, <1>4, <1>5, <1>6, <1>7, <1>8, <1>9 DEF Next, RefundWebhook

\* A refund that was announced on top of the total it read is part of the sum.
LEMMA OwnCounts ==
  ASSUME ReadType, NEW q \in Refunds, Completed(q)
  PROVE  Sum(CompletedOf(PaymentOf[q])) = Sum(CompletedOf(PaymentOf[q]) \ {q}) + seen[q].amount
<1>1. PICK A \in SUBSET Refunds : A = CompletedOf(PaymentOf[q]) BY DEF CompletedOf, RefundsOf
<1>2. q \in A BY <1>1 DEF CompletedOf, RefundsOf
<1>3. (A \ {q}) \cup {q} = A BY <1>2
<1>4. Total(Amounts, (A \ {q}) \cup {q}) = Total(Amounts, A \ {q}) + Amounts[q] BY TotalAdd, AmountsType
<1> QED BY <1>1, <1>3, <1>4, AmountsType, SumIsTotal

\* Succeeded refunds are announced.
LEMMA SucceededWithin ==
  ASSUME ReadType, RecordInv, NEW k
  PROVE  /\ Sum(SucceededOf(k)) <= Sum(CompletedOf(k))
         /\ \A q \in Refunds : rStatus[q] # "SUCCESS" => Sum(SucceededOf(k)) <= Sum(CompletedOf(k) \ {q})
<1>1. PICK A \in SUBSET Refunds, B \in SUBSET Refunds : A = SucceededOf(k) /\ B = CompletedOf(k)
  BY DEF SucceededOf, CompletedOf, RefundsOf
<1>2. \A x \in A : x \in B /\ rStatus[x] = "SUCCESS"
  BY <1>1 DEF SucceededOf, CompletedOf, RefundsOf, RecordInv
<1>3. Total(Amounts, A) <= Total(Amounts, B) BY <1>2, TotalGrows, AmountsType
<1>4. ASSUME NEW q \in Refunds, rStatus[q] # "SUCCESS" PROVE Total(Amounts, A) <= Total(Amounts, B \ {q})
  <2>1. \A x \in A : x \in B \ {q} BY <1>2, <1>4
  <2> QED BY <2>1, TotalGrows, AmountsType
<1> QED BY <1>1, <1>3, <1>4, SumPrimed

\* Sums of refunds of a payment are numbers, before and after a step.
LEMMA SumsAreNat ==
  ASSUME ReadType, ReadType', NEW k
  PROVE  /\ Sum(CompletedOf(k)) \in Nat /\ Sum(CompletedOf(k))' \in Nat
         /\ Sum(SucceededOf(k)) \in Nat /\ Sum(SucceededOf(k))' \in Nat
         /\ \A q : Sum(CompletedOf(k) \ {q}) \in Nat /\ Sum(CompletedOf(k) \ {q})' \in Nat
<1>1. Amounts \in [Refunds -> Nat] /\ Amounts' \in [Refunds -> Nat]
  BY DEF ReadType, Reads, Amounts
<1>2. /\ CompletedOf(k) \in SUBSET Refunds /\ CompletedOf(k)' \in SUBSET Refunds
      /\ SucceededOf(k) \in SUBSET Refunds /\ SucceededOf(k)' \in SUBSET Refunds
  BY DEF CompletedOf, SucceededOf, RefundsOf
<1>3. \A am \in [Refunds -> Nat], S \in SUBSET Refunds : Total(am, S) \in Nat BY TotalType
<1>4. \A am \in [Refunds -> Nat], S \in SUBSET Refunds : \A q : Total(am, S \ {q}) \in Nat
  <2> TAKE am \in [Refunds -> Nat], S \in SUBSET Refunds
  <2> TAKE q
  <2>1. S \ {q} \in SUBSET Refunds OBVIOUS
  <2> QED BY <1>3, <2>1
<1>5. /\ Sum(CompletedOf(k)) \in Nat /\ Sum(CompletedOf(k))' \in Nat
      /\ Sum(SucceededOf(k)) \in Nat /\ Sum(SucceededOf(k))' \in Nat
  BY <1>1, <1>2, <1>3, SumPrimed, Zenon
<1>6. \A q : Sum(CompletedOf(k) \ {q}) \in Nat /\ Sum(CompletedOf(k) \ {q})' \in Nat
  <2> TAKE q
  <2>1. Total(Amounts, CompletedOf(k) \ {q}) \in Nat BY <1>1, <1>2, <1>4, Zenon
  <2>2. Total(Amounts', CompletedOf(k)' \ {q}) \in Nat BY <1>1, <1>2, <1>4, Zenon
  <2>3. /\ Sum(CompletedOf(k) \ {q}) = Total(Amounts, CompletedOf(k) \ {q})
        /\ Sum(CompletedOf(k) \ {q})' = Total(Amounts', CompletedOf(k)' \ {q})
    BY SumPrimed
  <2> QED BY <2>1, <2>2, <2>3, Zenon
<1> QED BY <1>5, <1>6

\* What is counted stays covered, and only a covered payment becomes REFUNDED.
LEMMA CoverStep ==
  ASSUME RefundTypes, ReadType', RecordInv, CoverInv, RefundsMove, [Next]_vars
  PROVE  CoverInv'
<1>1. ASSUME NEW k \in Keys, status'[k] = "REFUNDED" PROVE Sum(CompletedOf(k))' >= Price
  <2>1. Sum(CompletedOf(k)) <= Sum(CompletedOf(k))' BY AnnouncedGrows
  <2>2. Sum(CompletedOf(k)) \in Nat /\ Sum(CompletedOf(k))' \in Nat /\ Price \in Nat
    BY SumsAreNat, PaymentAssumption DEF RefundTypes
  <2>3. CASE status[k] = "REFUNDED"
    <3>1. Sum(CompletedOf(k)) >= Price
      BY <2>3 DEF CoverInv, RefundedIsCovered, CompletedOf, Completed
    <3> QED BY <2>1, <2>2, <3>1
  <2>4. CASE Sum(SucceededOf(k)) >= Price
    <3>1. Sum(SucceededOf(k)) <= Sum(CompletedOf(k)) BY SucceededWithin DEF RefundTypes
    <3>2. Sum(SucceededOf(k)) \in Nat BY SumsAreNat DEF RefundTypes
    <3> QED BY <2>1, <2>2, <2>4, <3>1, <3>2
  <2>5. ASSUME NEW q \in RefundsOf(k), rpc[q] = "okPaid", seen[q].total + seen[q].amount >= Price
        PROVE  Sum(CompletedOf(k))' >= Price
    <3>1. q \in Refunds /\ PaymentOf[q] = k /\ Completed(q) BY <2>5 DEF RefundsOf, RecordInv
    <3>2. seen[q].total <= Sum(CompletedOf(k) \ {q}) BY <2>5, <3>1 DEF CoverInv, Counted
    <3>3. Sum(CompletedOf(k)) = Sum(CompletedOf(k) \ {q}) + seen[q].amount
      BY <3>1, OwnCounts DEF RefundTypes
    <3>4. seen[q].total \in Int /\ seen[q].amount \in Nat BY <3>1 DEF RefundTypes, ReadType, Reads
    <3>5. Sum(CompletedOf(k) \ {q}) \in Nat BY SumsAreNat DEF RefundTypes
    <3>6. Sum(CompletedOf(k)) >= Price BY <2>2, <2>5, <3>2, <3>3, <3>4, <3>5
    <3> QED BY <2>1, <2>2, <3>6
  <2> QED BY <1>1, <2>3, <2>4, <2>5, RefundedBy
<1>2. ASSUME NEW q \in Refunds, rpc'[q] \in Counted
      PROVE  seen'[q].total <= Sum(CompletedOf(PaymentOf[q]) \ {q})'
  <2> DEFINE k == PaymentOf[q]
  <2>1. Sum(CompletedOf(k) \ {q}) <= Sum(CompletedOf(k) \ {q})' BY AnnouncedGrows
  <2>2. Sum(CompletedOf(k) \ {q}) \in Nat /\ Sum(CompletedOf(k) \ {q})' \in Nat
    BY SumsAreNat DEF RefundTypes
  <2>3. CASE rpc[q] \in Counted /\ seen'[q].total = seen[q].total
    <3>1. seen[q].total <= Sum(CompletedOf(k) \ {q}) BY <2>3 DEF CoverInv
    <3>2. seen[q].total \in Int BY DEF RefundTypes, ReadType, Reads
    <3> QED BY <2>1, <2>2, <2>3, <3>1, <3>2
  <2>4. CASE Counts(q)
    <3>1. rpc[q] = "amount" /\ seen'[q].total = TotalRefunded(k) BY <2>4 DEF Counts
    <3>2. rStatus[q] = None BY <3>1 DEF RefundTypes, RefundInv, Early
    <3>3. Sum(SucceededOf(k)) <= Sum(CompletedOf(k) \ {q}) BY <3>2, SucceededWithin DEF RefundTypes, None
    <3>4. seen'[q].total = Sum(SucceededOf(k)) BY <3>1 DEF TotalRefunded, SucceededOf
    <3>5. Sum(SucceededOf(k)) \in Nat BY SumsAreNat DEF RefundTypes
    <3> QED BY <2>1, <2>2, <3>3, <3>4, <3>5
  <2>5. SameRefund(q) \/ RefundMoves(q) BY DEF RefundsMove
  <2>6. SameRefund(q) => rpc[q] \in Counted /\ seen'[q].total = seen[q].total BY <1>2 DEF SameRefund
  <2>7. RefundMoves(q) => Counts(q) \/ (rpc[q] \in Counted /\ seen'[q].total = seen[q].total)
    BY <1>2 DEF RefundMoves, Ends, Begins, GoesOn, Enters, Succeeds, Fails, IsTold, Counted
  <2> QED BY <2>3, <2>4, <2>5, <2>6, <2>7
<1> QED BY <1>1, <1>2 DEF CoverInv, RefundedIsCovered, CompletedOf, Completed

-----------------------------------------------------------------------------
(* The theorems about refunds *)

MoneyInv == ReadType /\ StoreType /\ RecordInv /\ CoverInv

LEMMA MoneyInit == Init => MoneyInv
<1> SUFFICES ASSUME Init PROVE MoneyInv OBVIOUS
<1> USE DEF Init
<1>1. ReadType
  <2>1. [key |-> None, amount |-> 0, prev |-> None, total |-> 0] \in Reads BY DEF Reads
  <2> QED BY <2>1 DEF ReadType
<1>2. StoreType BY PaymentAssumption DEF StoreType
<1>3. RecordInv BY DEF RecordInv, Completed, Asking, None
<1>4. CoverInv BY DEF CoverInv, RefundedIsCovered, Counted, None
<1> QED BY <1>1, <1>2, <1>3, <1>4 DEF MoneyInv

LEMMA MoneyNext == Inv /\ RefundInv /\ MoneyInv /\ [Next]_vars => MoneyInv'
<1> SUFFICES ASSUME Inv, RefundInv, MoneyInv, [Next]_vars PROVE MoneyInv' OBVIOUS
<1>1. RefundTypes BY DEF Inv, MoneyInv, RefundTypes
<1>2. ReadType'
  <2>1. CASE UNCHANGED seen BY <2>1 DEF MoneyInv, ReadType
  <2>2. ASSUME NEW q \in Refunds, RefundStep(q) PROVE ReadType'
    BY <1>1, <2>2, ReadsAreTyped DEF RefundTypes
  <2>3. UNCHANGED seen \/ \E q \in Refunds : RefundStep(q)
    BY DEF Next, PayStep, CheckExisting, CreatePayment, MarkPending, CallGateway, RecordAnswer,
       Redeliver, GatewayRefundFails, RefundWebhook, HandleRefundWebhook, RefreshPayment,
       CancelPayment, GatewayDecides, HandlePaymentWebhook, Crash, vars, refund
  <2> QED BY <2>1, <2>2, <2>3
<1>3. RefundsMove BY <1>1, StepRefundsMove DEF MoneyInv
<1>4. StoreType' BY <1>1, StoreIsTyped DEF RefundTypes
<1>5. RecordInv' BY <1>1, <1>3, RecordStep DEF MoneyInv
<1>6. CoverInv' BY <1>1, <1>2, <1>3, CoverStep DEF MoneyInv
<1> QED BY <1>2, <1>4, <1>5, <1>6 DEF MoneyInv

\* The three invariants together.
LEMMA RefundInvariants == Spec => [](Inv /\ RefundInv /\ MoneyInv)
<1>1. Init => RefundInv BY DEF Init, RefundInv, RefundSteps, Early, AtWork, None
<1> QED BY <1>1, MoneyInit, MoneyNext, RefundNext, ChargeInvariant, PTL DEF Spec

\* For any number of refunds of a payment, overlapping, crashed, answered late or by webhooks
\* in any order: every row has its type, and a payment is REFUNDED only when the refunds
\* announced as completed cover it (CreateRefund, the webhooks).
THEOREM RefundsAlwaysCover == Spec => []RefundsCover
<1>1. Inv /\ RefundInv /\ MoneyInv => RefundsCover
  <2> SUFFICES ASSUME Inv, RefundInv, MoneyInv PROVE RefundsCover OBVIOUS
  <2>1. TypeOK BY DEF Inv, TypeInv, RefundInv, MoneyInv, ReadType, StoreType, TypeOK
  <2> QED BY <2>1 DEF RefundsCover, MoneyInv, CoverInv
<1> QED BY <1>1, RefundInvariants, PTL

-----------------------------------------------------------------------------
(* The gateway's side of the refunds *)

\* A refund that was answered, announced or has the gateway's id was accepted there.
AcceptedInv ==
  \A q \in Refunds :
    /\ rpc[q] \in Asking => ~Completed(q)
    /\ rpc[q] = "ok" \/ Completed(q) \/ q \in known => gwr[q] # None

\* A payment is REFUNDED only when the gateway has accepted refunds that cover it: lost
\* answers, stale totals and late webhooks never let the table run ahead of the gateway.
RefundedWasAccepted ==
  \A k \in Keys : status[k] = "REFUNDED" => Sum({q \in RefundsOf(k) : gwr[q] # None}) >= Price

\* The gateway forgets no refund, except in a call about it, and answers ok only when it
\* has accepted it.
LEMMA GatewayMoves ==
  ASSUME RefundTypes, [Next]_vars, NEW q \in Refunds
  PROVE  /\ gwr'[q] = None => gwr[q] = None \/ rpc[q] = "gateway"
         /\ rpc[q] = "gateway" /\ rpc'[q] = "ok" => gwr'[q] # None
<1> USE DEF RefundTypes, RefundInv
<1>1. CASE UNCHANGED <<rpc, gwr>> BY <1>1
<1>2. ASSUME NEW r \in Requests, PayStep(r) \/ Redeliver(r) PROVE UNCHANGED <<rpc, gwr>>
  BY <1>2 DEF PayStep, CheckExisting, CreatePayment, MarkPending, CallGateway, RecordAnswer,
       Redeliver, refund
<1>3. ASSUME NEW k \in Keys, CancelPayment(k) \/ GatewayDecides(k) \/ HandlePaymentWebhook(k)
      PROVE  UNCHANGED <<rpc, gwr>>
  BY <1>3 DEF CancelPayment, GatewayDecides, HandlePaymentWebhook, refund
<1>4. ASSUME NEW x \in Refunds, NEW e \in RefundEvents, RefundWebhook(x, e) PROVE UNCHANGED <<rpc, gwr>>
  BY <1>4 DEF RefundWebhook, HandleRefundWebhook, RefreshPayment, refund
<1>5. ASSUME NEW x \in Refunds, GatewayRefundFails(x)
      PROVE  UNCHANGED rpc /\ (gwr'[q] = gwr[q] \/ gwr'[q] = "failed")
  BY <1>5 DEF GatewayRefundFails
<1>6. ASSUME NEW x \in Refunds, RefundGateway(x)
      PROVE  /\ gwr'[q] = None => gwr[q] = None \/ rpc[q] = "gateway"
             /\ rpc[q] = "gateway" /\ rpc'[q] = "ok" => gwr'[q] # None
  <2>1. CASE x # q BY <1>6, <2>1 DEF RefundGateway
  <2>2. CASE x = q
    <3>1. PICK out \in {<<None, "failed">>, <<"done", "ok">>, <<"done", "failed">>} :
            gwr' = [gwr EXCEPT ![q] = out[1]] /\ rpc' = [rpc EXCEPT ![q] = out[2]]
      BY <1>6, <2>2 DEF RefundGateway
    <3>2. rpc[q] = "gateway" BY <1>6, <2>2 DEF RefundGateway
    <3>3. CASE out = <<None, "failed">> BY <3>1, <3>2, <3>3
    <3>4. CASE out = <<"done", "ok">> BY <3>1, <3>2, <3>4 DEF None
    <3>5. CASE out = <<"done", "failed">> BY <3>1, <3>2, <3>5
    <3> QED BY <3>1, <3>3, <3>4, <3>5
  <2> QED BY <2>1, <2>2
<1>7. ASSUME NEW x \in Refunds, RefundStep(x), ~RefundGateway(x)
      PROVE  UNCHANGED gwr /\ rpc'[q] \in {rpc[q], "amount", "lock", "insert", "gateway", "okPaid",
                                         "failedPaid", "done"}
  BY <1>7 DEF RefundStep, CheckRefund, CheckRefundable, MarkRefundPending, CreateRefund,
       RecordRefund, RecordRefundOnPayment
<1>8. CASE Crash BY <1>8 DEF Crash
<1>9. CASE UNCHANGED vars BY <1>1, <1>9 DEF vars, refund
<1> QED BY <1>1, <1>2, <1>3, <1>4, <1>5, <1>6, <1>7, <1>8, <1>9 DEF Next, None

LEMMA AcceptedStep ==
  ASSUME RefundTypes, RecordInv, AcceptedInv, RefundsMove, [Next]_vars
  PROVE  AcceptedInv'
<1> SUFFICES ASSUME NEW q \in Refunds
             PROVE  /\ rpc'[q] \in Asking => ~Completed(q)'
                    /\ rpc'[q] = "ok" \/ Completed(q)' \/ q \in known' => gwr'[q] # None
  BY DEF AcceptedInv
<1>1. /\ gwr'[q] = None => gwr[q] = None \/ rpc[q] = "gateway"
      /\ rpc[q] = "gateway" /\ rpc'[q] = "ok" => gwr'[q] # None
  BY GatewayMoves
<1>2. /\ rpc[q] \in Asking => ~Completed(q) /\ q \notin known
      /\ rpc[q] = "ok" \/ Completed(q) \/ q \in known => gwr[q] # None
      /\ rpc[q] = "insert" => ~Completed(q) /\ q \notin known
  BY DEF AcceptedInv, RecordInv, RefundTypes, RefundInv, Early, None
<1>3. CASE SameRefund(q) BY <1>1, <1>2, <1>3 DEF SameRefund, Completed, Asking
<1>4. CASE Ends(q) BY <1>1, <1>2, <1>4 DEF Ends, Keeps, Completed, Asking
<1>5. CASE Begins(q) \/ Counts(q) BY <1>1, <1>2, <1>5 DEF Begins, Counts, Keeps, Completed, Asking
<1>6. CASE GoesOn(q) BY <1>1, <1>2, <1>6 DEF GoesOn, Keeps, Completed, Asking
<1>7. CASE Enters(q) BY <1>1, <1>2, <1>7 DEF Enters, Completed, Asking
<1>8. CASE Succeeds(q) BY <1>1, <1>2, <1>8 DEF Succeeds, Completed, Asking
<1>9. CASE Fails(q) BY <1>1, <1>2, <1>9 DEF Fails, Completed, Asking
<1>10. CASE IsTold(q) BY <1>1, <1>2, <1>10 DEF IsTold, Completed, Asking
<1> QED BY <1>3, <1>4, <1>5, <1>6, <1>7, <1>8, <1>9, <1>10 DEF RefundsMove, RefundMoves

\* For any number of refunds, a REFUNDED payment is covered by what the gateway accepted
\* (CreateRefund, its gateway call, the refund webhooks).
THEOREM RefundedWasAcceptedAlways == Spec => []RefundedWasAccepted
<1>1. Init => AcceptedInv BY DEF Init, AcceptedInv, Asking, Completed, None
<1>2. Inv /\ RefundInv /\ MoneyInv /\ AcceptedInv /\ [Next]_vars => AcceptedInv'
  <2> SUFFICES ASSUME Inv, RefundInv, MoneyInv, AcceptedInv, [Next]_vars PROVE AcceptedInv' OBVIOUS
  <2>1. RefundTypes BY DEF Inv, MoneyInv, RefundTypes
  <2> QED BY <2>1, StepRefundsMove, AcceptedStep DEF MoneyInv
<1>3. MoneyInv /\ AcceptedInv => RefundedWasAccepted
  <2> SUFFICES ASSUME MoneyInv, AcceptedInv, NEW k \in Keys, status[k] = "REFUNDED"
               PROVE  Sum({q \in RefundsOf(k) : gwr[q] # None}) >= Price
    BY DEF RefundedWasAccepted
  <2>1. PICK A \in SUBSET Refunds, B \in SUBSET Refunds :
          A = CompletedOf(k) /\ B = {q \in RefundsOf(k) : gwr[q] # None}
    BY DEF CompletedOf, RefundsOf
  <2>2. \A q \in A : q \in B BY <2>1 DEF CompletedOf, RefundsOf, AcceptedInv
  <2>3. Total(Amounts, A) <= Total(Amounts, B) BY <2>2, TotalGrows, AmountsType DEF MoneyInv
  <2>4. Sum(A) <= Sum(B) /\ Sum(A) \in Nat /\ Sum(B) \in Nat
    BY <2>3, SumIsTotal, SumType DEF MoneyInv
  <2>5. Sum(A) >= Price BY <2>1 DEF MoneyInv, CoverInv, RefundedIsCovered, CompletedOf, Completed
  <2>6. Sum(B) >= Price BY <2>4, <2>5, PaymentAssumption
  <2> QED BY <2>1, <2>6
<1> QED BY <1>1, <1>2, <1>3, RefundInvariants, PTL DEF Spec
=============================================================================
