------------------------------- MODULE Return -------------------------------
(***************************************************************************)
(* return-service: returns of delivered order items and their refunds.     *)
(*                                                                         *)
(* Every operation reads the return without a lock, decides on what it     *)
(* read and later writes the new status whatever the row holds by then     *)
(* (UpdateReturnStatusWithOutbox, CreateVerificationWithOutbox): a handler *)
(* is a process with a read step and a write step.  TriggerRefund reads,   *)
(* writes REFUND_INITIATED, calls CreateRefund of payment-service, waits   *)
(* for its answer and writes COMPLETED; its process may stop between any   *)
(* two of these.                                                           *)
(*                                                                         *)
(* Of payment-service there is the refund with the key of the return: also *)
(* made by the handler of ReturnRefundEligible under the same key, settled *)
(* by the call that stored it, and set again by any later webhook that     *)
(* finds it by its gateway id.  What it does to the payment is in Payment. *)
(***************************************************************************)
EXTENDS Naturals

CONSTANTS
  Requests,  \* RequestReturn calls; a return is named by the call that stored it
  ItemOf,    \* the order item of each
  TypeOf,    \* and its type
  Procs,     \* concurrent handlers
  MaxStops   \* bound: handlers that stop in the middle

Types == {"RETURN", "REPLACEMENT", "EXCHANGE"}

ASSUME ReturnAssumption ==
  /\ TypeOf \in [Requests -> Types]
  /\ MaxStops \in Nat

VARIABLES
  phase,      \* where a RequestReturn call is
  status,     \* returns.status, "none" before the insert
  told,       \* the outbox rows of a return that act on others, by type
  inspected,  \* history: returns that have been VERIFIED, RECEIVED or ITEM_RECEIVED
  proc,       \* what a handler is about to do
  refund,     \* payment-service: status of the refund with the return's key
  paid,       \* payment-service: refunds that have been SUCCESS, with the gateway's id
  stops       \* handlers that stopped so far

rows == <<status, told, inspected>>
payment == <<refund, paid>>
vars == <<phase, rows, proc, payment, stops>>

None == "none"
Requested == {"RETURN_REQUESTED", "REPLACEMENT_REQUESTED", "EXCHANGE_REQUESTED"}
Received == {"RECEIVED", "ITEM_RECEIVED"}
Initiated == {"REFUND_INITIATED", "REPLACEMENT_INITIATED", "EXCHANGE_INITIATED"}
Terminal == {"COMPLETED", "REJECTED", "CANCELLED"}
Statuses ==
  Requested \cup Received \cup Initiated \cup Terminal
    \cup {"UNDER_REVIEW", "APPROVED", "PICKUP_SCHEDULED", "PICKED_UP", "VERIFIED"}
\* The other events only inform; return_verifications is never read back.
EventTypes == {"ReturnRefundEligible", "ReturnCompleted"}
RefundStatuses == {None, "PENDING", "SUCCESS", "FAILED"}

Steps == {"idle", "write", "verify", "refund", "initiate", "pay", "await", "complete"}
Idle == [step |-> "idle"]
Work == [step : Steps \ {"idle"}, ret : Requests, to : Statuses]

Init ==
  /\ phase = [r \in Requests |-> "new"]
  /\ status = [r \in Requests |-> None]
  /\ told = [r \in Requests |-> {}]
  /\ inspected = {}
  /\ proc = [p \in Procs |-> Idle]
  /\ refund = [r \in Requests |-> None]
  /\ paid = {}
  /\ stops = 0

-----------------------------------------------------------------------------
(* The state machine *)

\* AllowedStatusTransitions
Successors(s) ==
  CASE s \in Requested -> {"UNDER_REVIEW", "APPROVED", "REJECTED", "VERIFIED", "CANCELLED"}
    [] s = "UNDER_REVIEW" -> {"APPROVED", "REJECTED", "CANCELLED"}
    [] s = "APPROVED" -> Received \cup {"PICKUP_SCHEDULED", "PICKED_UP", "VERIFIED", "REJECTED",
                                        "CANCELLED"}
    [] s = "PICKUP_SCHEDULED" -> {"PICKED_UP", "CANCELLED"}
    [] s = "PICKED_UP" -> Received \cup {"VERIFIED"}
    [] s \in Received -> Initiated \cup {"VERIFIED", "COMPLETED", "REJECTED"}
    [] s = "VERIFIED" -> Received \cup Initiated \cup {"COMPLETED", "REJECTED"}
    [] s = "REFUND_INITIATED" -> {"COMPLETED", "REJECTED"}
    [] s \in {"REPLACEMENT_INITIATED", "EXCHANGE_INITIATED"} -> {"COMPLETED", "CANCELLED"}
    [] OTHER -> {}

CanTransitionTo(s, t) == s = t \/ t \in Successors(s)

Verifiable == Requested \cup Received \cup {"APPROVED", "PICKED_UP"}
Refundable == Received \cup {"VERIFIED", "REFUND_INITIATED"}

InitialStatus(type) ==
  CASE type = "REPLACEMENT" -> "REPLACEMENT_REQUESTED"
    [] type = "EXCHANGE" -> "EXCHANGE_REQUESTED"
    [] OTHER -> "RETURN_REQUESTED"

-----------------------------------------------------------------------------
(* RequestReturn *)

Exists(r) == status[r] # None

\* The row of item i, which GetReturnByOrderItemID finds.
Holders(i) == {r \in Requests : ItemOf[r] = i /\ Exists(r)}

\* The order is delivered and the item has no return yet.
CheckReturn(r) ==
  /\ phase[r] = "new"
  /\ phase' = [phase EXCEPT ![r] = IF Holders(ItemOf[r]) = {} THEN "checked" ELSE "duplicate"]
  /\ UNCHANGED <<rows, proc, payment, stops>>

ItemTaken(i) == Holders(i) # {}

\* CreateReturnWithOutbox, under the UNIQUE index on order_item_id.
CreateReturn(r) ==
  /\ phase[r] = "checked"
  /\ IF ItemTaken(ItemOf[r])
     THEN /\ phase' = [phase EXCEPT ![r] = "failed"]
          /\ UNCHANGED status
     ELSE /\ phase' = [phase EXCEPT ![r] = "created"]
          /\ status' = [status EXCEPT ![r] = InitialStatus(TypeOf[r])]
  /\ UNCHANGED <<told, inspected, proc, payment, stops>>

-----------------------------------------------------------------------------
(* The operations read *)

Become(p, r, step, to) == proc' = [proc EXCEPT ![p] = [step |-> step, ret |-> r, to |-> to]]
Finish(p) == proc' = [proc EXCEPT ![p] = Idle]

Begin(p, r) == proc[p] = Idle /\ Exists(r) /\ UNCHANGED <<phase, rows, payment, stops>>

\* Completing a RETURN, or initiating its refund, is left to TriggerRefund.
UpdateReturnStatus(p, r, to) ==
  /\ Begin(p, r)
  /\ CanTransitionTo(status[r], to)
  /\ IF to \in {"COMPLETED", "REFUND_INITIATED"} /\ TypeOf[r] = "RETURN"
     THEN Become(p, r, "refund", to)
     ELSE Become(p, r, "write", to)

VerifyProduct(p, r, approved) ==
  /\ Begin(p, r)
  /\ status[r] \in Verifiable
  /\ Become(p, r, "verify", IF approved THEN "VERIFIED" ELSE "REJECTED")

\* The RPC for TriggerRefund.
ProcessRefund(p, r) == Begin(p, r) /\ Become(p, r, "refund", "COMPLETED")

-----------------------------------------------------------------------------
(* The repository writes *)

\* Status s for return r, whatever its status is.
SetStatus(r, s, events) ==
  /\ status' = [status EXCEPT ![r] = s]
  /\ told' = [told EXCEPT ![r] = @ \cup events]
  /\ inspected' = IF s \in Received \cup {"VERIFIED"} THEN inspected \cup {r} ELSE inspected

At(p, step) == proc[p].step = step

\* The events UpdateReturnStatus adds.
StatusEvents(s) == IF s = "COMPLETED" THEN {"ReturnCompleted"} ELSE {}

WriteStatus(p) ==
  LET r == proc[p].ret IN
  /\ At(p, "write")
  /\ SetStatus(r, proc[p].to, StatusEvents(proc[p].to))
  /\ Finish(p)
  /\ UNCHANGED <<phase, payment, stops>>

\* The verification is stored, and for a RETURN that passed it the refund is told to
\* payment-service and tried at once.
WriteVerification(p) ==
  LET r == proc[p].ret
      refundNow == proc[p].to = "VERIFIED" /\ TypeOf[r] = "RETURN" IN
  /\ At(p, "verify")
  /\ SetStatus(r, proc[p].to, IF refundNow THEN {"ReturnRefundEligible"} ELSE {})
  /\ IF refundNow THEN Become(p, r, "refund", "COMPLETED") ELSE Finish(p)
  /\ UNCHANGED <<phase, payment, stops>>

-----------------------------------------------------------------------------
(* TriggerRefund *)

\* Mutant: the return's status is not looked at.
RefundAnyStatus(p) ==
  LET r == proc[p].ret IN
  /\ At(p, "refund")
  /\ IF TypeOf[r] = "RETURN" /\ status[r] # "COMPLETED"
     THEN Become(p, r, IF status[r] = "REFUND_INITIATED" THEN "pay" ELSE "initiate", "COMPLETED")
     ELSE Finish(p)
  /\ UNCHANGED <<phase, rows, payment, stops>>

\* Only a RETURN that is not completed and has been seen is refunded; the payment of
\* the order is found and large enough.
ReadForRefund(p) ==
  LET r == proc[p].ret IN
  /\ At(p, "refund")
  /\ IF TypeOf[r] = "RETURN" /\ status[r] \in Refundable
     THEN Become(p, r, IF status[r] = "REFUND_INITIATED" THEN "pay" ELSE "initiate", "COMPLETED")
     ELSE Finish(p)
  /\ UNCHANGED <<phase, rows, payment, stops>>

InitiateRefund(p) ==
  LET r == proc[p].ret IN
  /\ At(p, "initiate")
  /\ SetStatus(r, "REFUND_INITIATED", {})
  /\ Become(p, r, "pay", "COMPLETED")
  /\ UNCHANGED <<phase, payment, stops>>

\* payment-service's UpdateRefundStatus; with SUCCESS comes the id of the gateway.
UpdateRefundStatus(r, s) ==
  /\ refund' = [refund EXCEPT ![r] = s]
  /\ paid' = IF s = "SUCCESS" THEN paid \cup {r} ELSE paid

\* payment-service's CreateRefund stores the row PENDING before it asks the gateway: the
\* key refund_<return>_<order> has no refund, and the payment is refundable.
StoreRefund(r) == refund[r] = None /\ UpdateRefundStatus(r, "PENDING")

\* Mutant: the status of the refund is not looked at.
AnsweredTrusting(p, r, s) == Become(p, r, "complete", "COMPLETED")

\* CreateRefund answers a refund that is s: the return is completed only after SUCCESS;
\* otherwise REFUND_INITIATED is kept.
Answered(p, r, s) ==
  IF s = "SUCCESS" THEN Become(p, r, "complete", "COMPLETED") ELSE Finish(p)

\* The call of CreateRefund: it stores a refund, answers the one it finds under the key, or
\* fails (the payment is not refundable, or another call stored the key first).
Pay(p) ==
  LET r == proc[p].ret IN
  /\ At(p, "pay")
  /\ \/ StoreRefund(r) /\ Become(p, r, "await", "COMPLETED")
     \/ refund[r] # None /\ Answered(p, r, refund[r]) /\ UNCHANGED payment
     \/ Finish(p) /\ UNCHANGED payment
  /\ UNCHANGED <<phase, rows, stops>>

\* The gateway has refunded, or not: the rest of the CreateRefund that stored the row, and
\* its answer to the handler that called it.
AnswerRefund(p) ==
  LET r == proc[p].ret IN
  /\ At(p, "await")
  /\ \E s \in {"SUCCESS", "FAILED"} : UpdateRefundStatus(r, s) /\ Answered(p, r, s)
  /\ UNCHANGED <<phase, rows, stops>>

CompleteReturn(p) ==
  LET r == proc[p].ret IN
  /\ At(p, "complete")
  /\ SetStatus(r, "COMPLETED", {"ReturnCompleted"})
  /\ Finish(p)
  /\ UNCHANGED <<phase, payment, stops>>

\* A database or payment-service call fails, or the process stops.
Stop(p) ==
  /\ proc[p] # Idle
  /\ stops < MaxStops
  /\ stops' = stops + 1
  /\ Finish(p)
  /\ UNCHANGED <<phase, rows, payment>>

-----------------------------------------------------------------------------
(* payment-service on its own *)

\* ReturnRefundEligible is delivered, once or more; a refund that is there is returned.
ProcessReturnRefund(r) ==
  /\ "ReturnRefundEligible" \in told[r]
  /\ StoreRefund(r)
  /\ UNCHANGED <<phase, rows, proc, stops>>

\* The rest of a CreateRefund for whose answer no handler waits: it was made for the event,
\* or its caller is gone.
SettleRefund(r) ==
  /\ refund[r] = "PENDING"
  /\ \A p \in Procs : At(p, "await") => proc[p].ret # r
  /\ \E s \in {"SUCCESS", "FAILED"} : UpdateRefundStatus(r, s)
  /\ UNCHANGED <<phase, rows, proc, stops>>

\* refund.processed or refund.failed for a gateway id that is stored: the refund is set
\* whatever it is, without a check of the transition.
RefundWebhook(r) ==
  /\ r \in paid
  /\ \E s \in {"SUCCESS", "FAILED"} : UpdateRefundStatus(r, s)
  /\ UNCHANGED <<phase, rows, proc, stops>>

-----------------------------------------------------------------------------
RefundStep(p) ==
  ReadForRefund(p) \/ InitiateRefund(p) \/ Pay(p) \/ AnswerRefund(p) \/ CompleteReturn(p)

HandlerStep(p) == WriteStatus(p) \/ WriteVerification(p) \/ RefundStep(p)

Next ==
  \/ \E r \in Requests : CheckReturn(r) \/ CreateReturn(r)
  \/ \E p \in Procs, r \in Requests :
       \/ \E to \in Statuses : UpdateReturnStatus(p, r, to)
       \/ \E approved \in BOOLEAN : VerifyProduct(p, r, approved)
       \/ ProcessRefund(p, r)
  \/ \E p \in Procs : HandlerStep(p) \/ Stop(p)
  \/ \E r \in Requests : ProcessReturnRefund(r) \/ SettleRefund(r) \/ RefundWebhook(r)

Spec == Init /\ [][Next]_vars

-----------------------------------------------------------------------------
(* Properties *)

TypeOK ==
  /\ phase \in [Requests -> {"new", "checked", "duplicate", "failed", "created"}]
  /\ status \in [Requests -> Statuses \cup {None}]
  /\ told \in [Requests -> SUBSET EventTypes]
  /\ inspected \subseteq Requests
  /\ proc \in [Procs -> Work \cup {Idle}]
  /\ refund \in [Requests -> RefundStatuses]
  /\ paid \subseteq Requests
  /\ stops \in 0..MaxStops

\* Two requests for one item that both pass the check store one return.
OneReturnPerItem == \A r, s \in Requests : Exists(r) /\ Exists(s) /\ ItemOf[r] = ItemOf[s] => r = s

\* TriggerRefund: a RETURN is COMPLETED, and ReturnCompleted told of it, only after its refund
\* succeeded at the gateway, though the handler acts on an old read, may be gone while the
\* gateway answers, and shares the refund with the one of the event.  That the refund still
\* is SUCCESS is not claimed: a later refund.failed takes it back, and the return stays.
CompletedIsRefunded ==
  \A r \in Requests :
    TypeOf[r] = "RETURN" /\ (status[r] = "COMPLETED" \/ "ReturnCompleted" \in told[r])
      => r \in paid

\* Money goes back only for a RETURN whose item was verified or received before.
RefundNeedsInspection ==
  \A r \in Requests : refund[r] # None => TypeOf[r] = "RETURN" /\ r \in inspected

\* Returns and refunds agree: one return for an item, and a refund only of a return that was
\* inspected (RequestReturn, TriggerRefund).
ReturnsAreRight ==
  /\ TypeOK
  /\ OneReturnPerItem
  /\ RefundNeedsInspection
=============================================================================
