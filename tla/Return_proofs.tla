---------------------------- MODULE Return_proofs ----------------------------
(***************************************************************************)
(* Proofs about return-service, for any number of requests, items and      *)
(* handlers: one return for an item, no refund before the inspection, and  *)
(* nothing COMPLETED before its refund succeeded.                          *)
(***************************************************************************)
EXTENDS Return, TLAPS

-----------------------------------------------------------------------------
(* The inductive invariant *)

\* What a handler that acts on an old read may still rely on when it writes.
WorkFits(w) ==
  /\ Exists(w.ret)
  /\ w.step = "write" /\ TypeOf[w.ret] = "RETURN" => w.to \notin {"COMPLETED", "REFUND_INITIATED"}
  /\ w.step = "verify" => w.to \in {"VERIFIED", "REJECTED"}
  /\ w.step \in {"initiate", "pay", "await", "complete"} => TypeOf[w.ret] = "RETURN" /\ w.ret \in inspected
  /\ w.step = "complete" => w.ret \in paid

HandlersFit == \A p \in Procs : proc[p] # Idle => WorkFits(proc[p])

\* A return that payment-service may be asked to refund was inspected before.
InspectedFirst ==
  \A r \in Requests :
    /\ status[r] \in Received \cup {"VERIFIED"} => r \in inspected
    /\ status[r] = "REFUND_INITIATED" /\ TypeOf[r] = "RETURN" => r \in inspected
    /\ "ReturnRefundEligible" \in told[r] => TypeOf[r] = "RETURN" /\ r \in inspected

\* A refund that is SUCCESS has the gateway's id, and an id belongs to a refund.
PaidIsStored ==
  \A r \in Requests :
    /\ refund[r] = "SUCCESS" => r \in paid
    /\ r \in paid => refund[r] # None

Inv ==
  /\ TypeOK
  /\ OneReturnPerItem
  /\ HandlersFit
  /\ InspectedFirst
  /\ PaidIsStored
  /\ RefundNeedsInspection
  /\ CompletedIsRefunded

-----------------------------------------------------------------------------
(* What every step keeps *)

\* Rows stay, inspections and the ids of successful refunds are never taken back.
Grows ==
  /\ \A r \in Requests : Exists(r) => Exists(r)'
  /\ inspected \subseteq inspected'
  /\ paid \subseteq paid'

\* So what a handler relies on stays true while others act.
LEMMA WorkStaysFit ==
  ASSUME NEW w \in Work, WorkFits(w), Grows
  PROVE  WorkFits(w)'
BY DEF WorkFits, Grows, Work, Exists

LEMMA InitInv == Init => Inv
BY ReturnAssumption
   DEF Init, Inv, TypeOK, OneReturnPerItem, HandlersFit, InspectedFirst, PaidIsStored,
       RefundNeedsInspection, CompletedIsRefunded, Exists, None, Idle, RefundStatuses, Received

\* A handler takes up or drops work without touching a row.
LEMMA NewWork ==
  ASSUME Inv, NEW p \in Procs, NEW w \in Work \cup {Idle}, w # Idle => WorkFits(w),
         proc' = [proc EXCEPT ![p] = w], UNCHANGED <<phase, rows, payment>>, stops' \in 0..MaxStops
  PROVE  Inv'
<1> USE DEF Inv, rows, payment
<1>1. TypeOK' BY DEF TypeOK
<1>2. OneReturnPerItem' BY DEF OneReturnPerItem, Exists
<1>3. HandlersFit' BY DEF HandlersFit, WorkFits, Exists, TypeOK
<1>4. InspectedFirst' /\ PaidIsStored' /\ RefundNeedsInspection' /\ CompletedIsRefunded'
  BY DEF InspectedFirst, PaidIsStored, RefundNeedsInspection, CompletedIsRefunded
<1> QED BY <1>1, <1>2, <1>3, <1>4

-----------------------------------------------------------------------------
(* One lemma per operation *)

LEMMA CheckReturnInv == ASSUME Inv, NEW r \in Requests, CheckReturn(r) PROVE Inv'
BY DEF Inv, CheckReturn, TypeOK, rows, payment, OneReturnPerItem, HandlersFit, WorkFits, Exists,
       InspectedFirst, PaidIsStored, RefundNeedsInspection, CompletedIsRefunded

LEMMA CreateReturnInv == ASSUME Inv, NEW r \in Requests, CreateReturn(r) PROVE Inv'
<1> USE DEF Inv, CreateReturn, payment
<1> DEFINE first == InitialStatus(TypeOf[r])
<1>1. first \in Requested BY DEF InitialStatus, Requested
<1>2. CASE ItemTaken(ItemOf[r])
  BY <1>2 DEF TypeOK, OneReturnPerItem, HandlersFit, WorkFits, Exists,
       InspectedFirst, PaidIsStored, RefundNeedsInspection, CompletedIsRefunded
<1>3. CASE ~ItemTaken(ItemOf[r])
  <2> HIDE DEF first
  <2>1. first \in Statuses /\ first \notin Received \cup {"VERIFIED", "REFUND_INITIATED", "COMPLETED", None}
    BY <1>1 DEF Requested, Statuses, Received, None
  <2>2. status' = [status EXCEPT ![r] = first] /\ UNCHANGED <<told, inspected, proc, refund, paid, stops>>
    BY <1>3 DEF first
  <2>3. TypeOK' BY <1>3, <2>1, <2>2 DEF TypeOK
  <2>4. \A s \in Requests : ItemOf[s] = ItemOf[r] => ~Exists(s)
    BY <1>3 DEF ItemTaken, Holders
  <2>5. OneReturnPerItem' BY <2>2, <2>4 DEF OneReturnPerItem, Exists, TypeOK
  <2>6. Grows BY <2>1, <2>2 DEF Grows, Exists, TypeOK
  <2>7. HandlersFit' BY <2>2, <2>6, WorkStaysFit DEF HandlersFit, TypeOK
  <2>8. InspectedFirst' /\ PaidIsStored' /\ RefundNeedsInspection' /\ CompletedIsRefunded'
    BY <2>1, <2>2 DEF TypeOK, InspectedFirst, PaidIsStored, RefundNeedsInspection, CompletedIsRefunded
  <2> QED BY <2>3, <2>5, <2>7, <2>8
<1> QED BY <1>2, <1>3

LEMMA UpdateReturnStatusInv ==
  ASSUME Inv, NEW p \in Procs, NEW r \in Requests, NEW to \in Statuses, UpdateReturnStatus(p, r, to)
  PROVE  Inv'
<1> DEFINE step == IF to \in {"COMPLETED", "REFUND_INITIATED"} /\ TypeOf[r] = "RETURN"
                   THEN "refund" ELSE "write"
           w == [step |-> step, ret |-> r, to |-> to]
<1>1. proc' = [proc EXCEPT ![p] = w] /\ UNCHANGED <<phase, rows, payment, stops>> /\ Exists(r)
  BY DEF UpdateReturnStatus, Begin, Become
<1>2. w \in Work /\ WorkFits(w) BY <1>1 DEF Work, Steps, WorkFits
<1>3. stops' \in 0..MaxStops BY <1>1 DEF Inv, TypeOK
<1> QED BY <1>1, <1>2, <1>3, NewWork

LEMMA VerifyProductInv ==
  ASSUME Inv, NEW p \in Procs, NEW r \in Requests, NEW approved \in BOOLEAN,
         VerifyProduct(p, r, approved)
  PROVE  Inv'
<1> DEFINE w == [step |-> "verify", ret |-> r, to |-> IF approved THEN "VERIFIED" ELSE "REJECTED"]
<1>1. proc' = [proc EXCEPT ![p] = w] /\ UNCHANGED <<phase, rows, payment, stops>> /\ Exists(r)
  BY DEF VerifyProduct, Begin, Become
<1>2. w \in Work /\ WorkFits(w) BY <1>1 DEF Work, Steps, Statuses, Terminal, WorkFits
<1>3. stops' \in 0..MaxStops BY <1>1 DEF Inv, TypeOK
<1> QED BY <1>1, <1>2, <1>3, NewWork

LEMMA ProcessRefundInv ==
  ASSUME Inv, NEW p \in Procs, NEW r \in Requests, ProcessRefund(p, r) PROVE Inv'
<1> DEFINE w == [step |-> "refund", ret |-> r, to |-> "COMPLETED"]
<1>1. proc' = [proc EXCEPT ![p] = w] /\ UNCHANGED <<phase, rows, payment, stops>> /\ Exists(r)
  BY DEF ProcessRefund, Begin, Become
<1>2. w \in Work /\ WorkFits(w) BY <1>1 DEF Work, Steps, Statuses, Terminal, WorkFits
<1>3. stops' \in 0..MaxStops BY <1>1 DEF Inv, TypeOK
<1> QED BY <1>1, <1>2, <1>3, NewWork

\* The writes: a status that the return may take whatever it is now, and the handler's next work.
LEMMA WriteInv ==
  ASSUME Inv, NEW p \in Procs, NEW r \in Requests, Exists(r), NEW s \in Statuses,
         NEW events \in SUBSET EventTypes, NEW w \in Work \cup {Idle},
         SetStatus(r, s, events), proc' = [proc EXCEPT ![p] = w], w # Idle => WorkFits(w),
         UNCHANGED <<phase, payment, stops>>,
         TypeOf[r] = "RETURN" /\ s = "REFUND_INITIATED" => r \in inspected,
         TypeOf[r] = "RETURN" /\ (s = "COMPLETED" \/ "ReturnCompleted" \in events)
           => r \in paid,
         "ReturnRefundEligible" \in events => TypeOf[r] = "RETURN" /\ s = "VERIFIED"
  PROVE  Inv'
<1> USE DEF Inv, SetStatus, payment
<1>1. TypeOK' BY DEF TypeOK
<1>2. s # None BY DEF Statuses, Requested, Received, Initiated, Terminal, None
<1>3. OneReturnPerItem' BY <1>2 DEF OneReturnPerItem, Exists, TypeOK
<1>4. Grows BY <1>2 DEF Grows, Exists, TypeOK
<1>5. HandlersFit'
  <2> SUFFICES ASSUME NEW q \in Procs, proc'[q] # Idle PROVE WorkFits(proc[q])'
    BY DEF HandlersFit
  <2>1. CASE q = p BY <2>1, <1>4, WorkStaysFit DEF TypeOK
  <2>2. CASE q # p BY <2>2, <1>4, WorkStaysFit DEF HandlersFit, TypeOK
  <2> QED BY <2>1, <2>2
<1>6. InspectedFirst' BY DEF InspectedFirst, TypeOK
<1>7. PaidIsStored' /\ RefundNeedsInspection'
  BY <1>4 DEF PaidIsStored, RefundNeedsInspection, Grows
<1>8. CompletedIsRefunded' BY DEF CompletedIsRefunded, TypeOK
<1> QED BY <1>1, <1>3, <1>5, <1>6, <1>7, <1>8

\* What a busy handler's work says.
LEMMA BusyFits ==
  ASSUME Inv, NEW p \in Procs, proc[p].step # "idle"
  PROVE  proc[p] \in Work /\ proc[p].ret \in Requests /\ proc[p].to \in Statuses /\ WorkFits(proc[p])
BY DEF Inv, TypeOK, HandlersFit, Work, Idle

LEMMA WriteStatusInv == ASSUME Inv, NEW p \in Procs, WriteStatus(p) PROVE Inv'
<1> DEFINE r == proc[p].ret
           s == proc[p].to
<1>1. proc[p].step = "write" /\ SetStatus(r, s, StatusEvents(s)) /\ proc' = [proc EXCEPT ![p] = Idle]
      /\ UNCHANGED <<phase, payment, stops>>
  BY DEF WriteStatus, At, Finish
<1>2. r \in Requests /\ s \in Statuses /\ WorkFits(proc[p]) BY <1>1, BusyFits
<1>3. Exists(r) /\ (TypeOf[r] = "RETURN" => s \notin {"COMPLETED", "REFUND_INITIATED"})
  BY <1>1, <1>2 DEF WorkFits
<1>4. /\ StatusEvents(s) \in SUBSET EventTypes
      /\ "ReturnRefundEligible" \notin StatusEvents(s)
      /\ "ReturnCompleted" \in StatusEvents(s) => s = "COMPLETED"
  BY DEF StatusEvents, EventTypes
<1> HIDE DEF r, s
<1> QED BY <1>1, <1>2, <1>3, <1>4, WriteInv

LEMMA WriteVerificationInv == ASSUME Inv, NEW p \in Procs, WriteVerification(p) PROVE Inv'
<1> DEFINE r == proc[p].ret
           s == proc[p].to
           now == s = "VERIFIED" /\ TypeOf[r] = "RETURN"
           events == IF now THEN {"ReturnRefundEligible"} ELSE {}
           w == IF now THEN [step |-> "refund", ret |-> r, to |-> "COMPLETED"] ELSE Idle
<1>1. proc[p].step = "verify" /\ SetStatus(r, s, events) /\ proc' = [proc EXCEPT ![p] = w]
      /\ UNCHANGED <<phase, payment, stops>>
  BY DEF WriteVerification, At, Finish, Become
<1>2. r \in Requests /\ s \in Statuses /\ WorkFits(proc[p]) BY <1>1, BusyFits
<1>3. Exists(r) /\ s \in {"VERIFIED", "REJECTED"} BY <1>1, <1>2 DEF WorkFits
<1>4. events \in SUBSET EventTypes /\ "ReturnCompleted" \notin events
      /\ ("ReturnRefundEligible" \in events => TypeOf[r] = "RETURN" /\ s = "VERIFIED")
  BY DEF EventTypes
<1>5. w \in Work \cup {Idle} BY <1>2 DEF Work, Steps, Statuses, Terminal
<1>6. w # Idle => WorkFits(w) BY <1>3 DEF WorkFits
<1> HIDE DEF r, s, events, w
<1> QED BY <1>1, <1>2, <1>3, <1>4, <1>5, <1>6, WriteInv

LEMMA ReadForRefundInv == ASSUME Inv, NEW p \in Procs, ReadForRefund(p) PROVE Inv'
<1> DEFINE r == proc[p].ret
           step == IF status[r] = "REFUND_INITIATED" THEN "pay" ELSE "initiate"
           w == IF TypeOf[r] = "RETURN" /\ status[r] \in Refundable
                THEN [step |-> step, ret |-> r, to |-> "COMPLETED"] ELSE Idle
<1>1. proc[p].step = "refund" /\ proc' = [proc EXCEPT ![p] = w]
      /\ UNCHANGED <<phase, rows, payment, stops>>
  BY DEF ReadForRefund, At, Finish, Become
<1>2. r \in Requests /\ WorkFits(proc[p]) BY <1>1, BusyFits
<1>3. w \in Work \cup {Idle} BY <1>2 DEF Work, Steps, Statuses, Terminal
<1>4. w # Idle => WorkFits(w)
  BY <1>1, <1>2 DEF WorkFits, Inv, InspectedFirst, Refundable
<1>5. stops' \in 0..MaxStops BY <1>1 DEF Inv, TypeOK
<1> HIDE DEF w
<1> QED BY <1>1, <1>3, <1>4, <1>5, NewWork

LEMMA InitiateRefundInv == ASSUME Inv, NEW p \in Procs, InitiateRefund(p) PROVE Inv'
<1> DEFINE r == proc[p].ret
           w == [step |-> "pay", ret |-> r, to |-> "COMPLETED"]
<1>1. proc[p].step = "initiate" /\ SetStatus(r, "REFUND_INITIATED", {})
      /\ proc' = [proc EXCEPT ![p] = w] /\ UNCHANGED <<phase, payment, stops>>
  BY DEF InitiateRefund, At, Become
<1>2. r \in Requests /\ WorkFits(proc[p]) BY <1>1, BusyFits
<1>3. Exists(r) /\ TypeOf[r] = "RETURN" /\ r \in inspected BY <1>1, <1>2 DEF WorkFits
<1>4. "REFUND_INITIATED" \in Statuses BY DEF Statuses, Initiated
<1>5. w \in Work BY <1>2 DEF Work, Steps, Statuses, Terminal
<1>6. WorkFits(w) BY <1>3 DEF WorkFits
<1> HIDE DEF r, w
<1> QED BY <1>1, <1>2, <1>3, <1>4, <1>5, <1>6, WriteInv

LEMMA CompleteReturnInv == ASSUME Inv, NEW p \in Procs, CompleteReturn(p) PROVE Inv'
<1> DEFINE r == proc[p].ret
<1>1. proc[p].step = "complete" /\ SetStatus(r, "COMPLETED", {"ReturnCompleted"})
      /\ proc' = [proc EXCEPT ![p] = Idle] /\ UNCHANGED <<phase, payment, stops>>
  BY DEF CompleteReturn, At, Finish
<1>2. r \in Requests /\ WorkFits(proc[p]) BY <1>1, BusyFits
<1>3. Exists(r) /\ r \in paid BY <1>1, <1>2 DEF WorkFits
<1>4. "COMPLETED" \in Statuses /\ {"ReturnCompleted"} \in SUBSET EventTypes
  BY DEF Statuses, Terminal, EventTypes
<1> HIDE DEF r
<1> QED BY <1>1, <1>2, <1>3, <1>4, WriteInv

\* payment-service sets the refund of an inspected RETURN, whatever it was, and the handler
\* that asked for it, if any, goes on with w.
LEMMA RefundInv ==
  ASSUME Inv, NEW r \in Requests, NEW s \in RefundStatuses \ {None}, UpdateRefundStatus(r, s),
         TypeOf[r] = "RETURN", r \in inspected, UNCHANGED <<phase, rows, stops>>,
         \/ proc' = proc
         \/ \E p \in Procs, w \in Work \cup {Idle} :
              proc' = [proc EXCEPT ![p] = w] /\ (w # Idle => WorkFits(w)')
  PROVE  Inv'
<1> USE DEF Inv, UpdateRefundStatus, rows
<1>1. TypeOK' BY DEF TypeOK
<1>2. OneReturnPerItem' BY DEF OneReturnPerItem, Exists
<1>3. Grows BY DEF Grows, Exists, TypeOK
<1>4. HandlersFit'
  <2>1. CASE proc' = proc BY <1>3, <2>1, WorkStaysFit DEF HandlersFit, TypeOK
  <2>2. ASSUME NEW p \in Procs, NEW w \in Work \cup {Idle},
               proc' = [proc EXCEPT ![p] = w], w # Idle => WorkFits(w)'
        PROVE  HandlersFit'
    <3> SUFFICES ASSUME NEW q \in Procs, proc'[q] # Idle PROVE WorkFits(proc[q])'
      BY DEF HandlersFit
    <3>1. CASE q = p BY <2>2, <3>1 DEF TypeOK
    <3>2. CASE q # p BY <1>3, <2>2, <3>2, WorkStaysFit DEF HandlersFit, TypeOK
    <3> QED BY <3>1, <3>2
  <2> QED BY <2>1, <2>2
<1>6. InspectedFirst' BY DEF InspectedFirst
<1>7. PaidIsStored' BY DEF PaidIsStored, TypeOK
<1>8. RefundNeedsInspection' /\ CompletedIsRefunded'
  BY DEF RefundNeedsInspection, CompletedIsRefunded, TypeOK
<1> QED BY <1>1, <1>2, <1>4, <1>6, <1>7, <1>8

LEMMA PayInv == ASSUME Inv, NEW p \in Procs, Pay(p) PROVE Inv'
<1>0. PICK r, wait, done :
        /\ r = proc[p].ret
        /\ wait = [step |-> "await", ret |-> r, to |-> "COMPLETED"]
        /\ done = [step |-> "complete", ret |-> r, to |-> "COMPLETED"]
  OBVIOUS
<1>1. proc[p].step = "pay" /\ UNCHANGED <<phase, rows, stops>> BY DEF Pay, At
<1>2. r \in Requests /\ WorkFits(proc[p]) BY <1>0, <1>1, BusyFits
<1>3. Exists(r) /\ TypeOf[r] = "RETURN" /\ r \in inspected BY <1>0, <1>1, <1>2 DEF WorkFits
<1>4. wait \in Work /\ done \in Work BY <1>0, <1>2 DEF Work, Steps, Statuses, Terminal
<1>5. stops' \in 0..MaxStops BY <1>1 DEF Inv, TypeOK
<1>6. CASE StoreRefund(r) /\ Become(p, r, "await", "COMPLETED")
  <2>1. WorkFits(wait)' BY <1>0, <1>1, <1>3 DEF WorkFits, Exists, rows
  <2>2. UpdateRefundStatus(r, "PENDING") /\ proc' = [proc EXCEPT ![p] = wait]
    BY <1>0, <1>6 DEF StoreRefund, Become
  <2>3. "PENDING" \in RefundStatuses \ {None} BY DEF RefundStatuses, None
  <2> QED BY <1>1, <1>2, <1>3, <1>4, <2>1, <2>2, <2>3, RefundInv
<1>7. CASE refund[r] # None /\ Answered(p, r, refund[r]) /\ UNCHANGED payment
  <2>1. CASE refund[r] = "SUCCESS"
    <3>1. proc' = [proc EXCEPT ![p] = done] BY <1>0, <1>7, <2>1 DEF Answered, Become
    <3>2. r \in paid BY <1>2, <2>1 DEF Inv, PaidIsStored
    <3>3. WorkFits(done) BY <1>0, <1>3, <3>2 DEF WorkFits
    <3> QED BY <1>1, <1>4, <1>5, <1>7, <3>1, <3>3, NewWork
  <2>2. CASE refund[r] # "SUCCESS"
    BY <1>1, <1>5, <1>7, <2>2, NewWork DEF Answered, Finish
  <2> QED BY <2>1, <2>2
<1>8. CASE Finish(p) /\ UNCHANGED payment
  BY <1>1, <1>5, <1>8, NewWork DEF Finish
<1> QED BY <1>0, <1>6, <1>7, <1>8 DEF Pay

LEMMA AnswerRefundInv == ASSUME Inv, NEW p \in Procs, AnswerRefund(p) PROVE Inv'
<1>0. PICK r, done :
        r = proc[p].ret /\ done = [step |-> "complete", ret |-> r, to |-> "COMPLETED"]
  OBVIOUS
<1>1. proc[p].step = "await" /\ UNCHANGED <<phase, rows, stops>> BY DEF AnswerRefund, At
<1>2. r \in Requests /\ WorkFits(proc[p]) BY <1>0, <1>1, BusyFits
<1>3. Exists(r) /\ TypeOf[r] = "RETURN" /\ r \in inspected BY <1>0, <1>1, <1>2 DEF WorkFits
<1>4. PICK s \in {"SUCCESS", "FAILED"} : UpdateRefundStatus(r, s) /\ Answered(p, r, s)
  BY <1>0 DEF AnswerRefund
<1>5. s \in RefundStatuses \ {None} BY DEF RefundStatuses, None
<1>6. \E w \in Work \cup {Idle} :
        proc' = [proc EXCEPT ![p] = w] /\ (w # Idle => WorkFits(w)')
  <2>1. CASE s = "SUCCESS"
    <3>1. proc' = [proc EXCEPT ![p] = done] BY <1>0, <1>4, <2>1 DEF Answered, Become
    <3>2. done \in Work BY <1>0, <1>2 DEF Work, Steps, Statuses, Terminal
    <3>3. r \in paid' BY <1>4, <2>1 DEF UpdateRefundStatus
    <3>4. WorkFits(done)' BY <1>0, <1>1, <1>3, <3>3 DEF WorkFits, Exists, rows
    <3> QED BY <3>1, <3>2, <3>4
  <2>2. CASE s # "SUCCESS" BY <1>4, <2>2 DEF Answered, Finish
  <2> QED BY <2>1, <2>2
<1> QED BY <1>1, <1>2, <1>3, <1>4, <1>5, <1>6, RefundInv

LEMMA StopInv == ASSUME Inv, NEW p \in Procs, Stop(p) PROVE Inv'
<1>1. stops' \in 0..MaxStops BY ReturnAssumption DEF Inv, TypeOK, Stop
<1> QED BY <1>1, NewWork DEF Stop, Finish

LEMMA ProcessReturnRefundInv == ASSUME Inv, NEW r \in Requests, ProcessReturnRefund(r) PROVE Inv'
<1>1. TypeOf[r] = "RETURN" /\ r \in inspected BY DEF ProcessReturnRefund, Inv, InspectedFirst
<1>2. "PENDING" \in RefundStatuses \ {None} BY DEF RefundStatuses, None
<1> QED BY <1>1, <1>2, RefundInv DEF ProcessReturnRefund, StoreRefund

LEMMA SettleRefundInv == ASSUME Inv, NEW r \in Requests, SettleRefund(r) PROVE Inv'
<1>1. TypeOf[r] = "RETURN" /\ r \in inspected
  BY DEF SettleRefund, Inv, RefundNeedsInspection, None
<1>2. {"SUCCESS", "FAILED"} \subseteq RefundStatuses \ {None} BY DEF RefundStatuses, None
<1> QED BY <1>1, <1>2, RefundInv DEF SettleRefund

LEMMA RefundWebhookInv == ASSUME Inv, NEW r \in Requests, RefundWebhook(r) PROVE Inv'
<1>1. TypeOf[r] = "RETURN" /\ r \in inspected
  BY DEF RefundWebhook, Inv, RefundNeedsInspection, PaidIsStored
<1>2. {"SUCCESS", "FAILED"} \subseteq RefundStatuses \ {None} BY DEF RefundStatuses, None
<1> QED BY <1>1, <1>2, RefundInv DEF RefundWebhook

-----------------------------------------------------------------------------
(* The theorems *)

\* Every step of requests, handlers and payment-service keeps the invariant.
THEOREM NextInv == Inv /\ [Next]_vars => Inv'
<1> SUFFICES ASSUME Inv, [Next]_vars PROVE Inv' OBVIOUS
<1>1. CASE UNCHANGED vars
  BY <1>1 DEF vars, rows, payment, Inv, TypeOK, OneReturnPerItem, HandlersFit, WorkFits, Exists,
       InspectedFirst, PaidIsStored, RefundNeedsInspection, CompletedIsRefunded
<1>2. ASSUME NEW r \in Requests, CheckReturn(r) \/ CreateReturn(r) PROVE Inv'
  BY <1>2, CheckReturnInv, CreateReturnInv
<1>3. ASSUME NEW p \in Procs, NEW r \in Requests,
             \/ \E to \in Statuses : UpdateReturnStatus(p, r, to)
             \/ \E approved \in BOOLEAN : VerifyProduct(p, r, approved)
             \/ ProcessRefund(p, r)
      PROVE  Inv'
  BY <1>3, UpdateReturnStatusInv, VerifyProductInv, ProcessRefundInv
<1>4. ASSUME NEW p \in Procs, HandlerStep(p) \/ Stop(p) PROVE Inv'
  BY <1>4, WriteStatusInv, WriteVerificationInv, ReadForRefundInv, InitiateRefundInv, PayInv,
     AnswerRefundInv, CompleteReturnInv, StopInv
     DEF HandlerStep, RefundStep
<1>5. ASSUME NEW r \in Requests, ProcessReturnRefund(r) \/ SettleRefund(r) \/ RefundWebhook(r) PROVE Inv'
  BY <1>5, ProcessReturnRefundInv, SettleRefundInv, RefundWebhookInv
<1> QED BY <1>1, <1>2, <1>3, <1>4, <1>5 DEF Next

LEMMA SpecInv == Spec => []Inv
BY InitInv, NextInv, PTL DEF Spec

\* RequestReturn and TriggerRefund: one return for an item, and money back only for a
\* RETURN that was inspected.
THEOREM ReturnsAreRightAlways == Spec => []ReturnsAreRight
<1>1. Inv => ReturnsAreRight BY DEF Inv, ReturnsAreRight
<1> QED BY <1>1, SpecInv, PTL

\* COMPLETED, and the ReturnCompleted event, mean for a RETURN that its refund succeeded at the
\* gateway before, whatever handlers stopped, read too early or were overtaken, and whatever
\* webhooks come later.
THEOREM CompletedIsRefundedAlways == Spec => []CompletedIsRefunded
<1>1. Inv => CompletedIsRefunded BY DEF Inv
<1> QED BY <1>1, SpecInv, PTL
=============================================================================
