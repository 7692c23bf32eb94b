------------------------------ MODULE Merchant ------------------------------
(***************************************************************************)
(* merchant-service: the life of one merchant, its audit trail, its        *)
(* appeals and the events it stores in the outbox.                         *)
(*                                                                         *)
(* A change of status is a transaction that locks the merchant's row, so   *)
(* it is one step here; what is not one step is the appeal, made of three  *)
(* statements outside a common transaction, and the refusal of an          *)
(* administrator's request, which writes its audit record on a second      *)
(* connection while the first still holds the row lock.                    *)
(***************************************************************************)
EXTENDS Naturals, Sequences

CONSTANTS
  Procs,       \* concurrent requests
  MaxAudit,    \* bound: changes of status requests start with
  MaxAppeals,  \* bound: appeals filed
  MaxFaults    \* bound: statements that fail

ASSUME MerchantAssumption == MaxAudit \in Nat /\ MaxAppeals \in Nat /\ MaxFaults \in Nat

VARIABLES
  status,   \* of the merchants row; "NONE" before there is one
  deleted,  \* deleted_at is set
  audit,    \* merchant_lifecycle_audit: who changed the status from what to what
  appeals,  \* merchant_appeals, by their status
  outbox,   \* events stored
  call,     \* the next step of a request
  holder,   \* the request that holds the row lock between two steps: at most one
  faults

merchant == <<status, deleted, audit, appeals, outbox>>
vars == <<merchant, call, holder, faults>>

Statuses == {"PENDING", "APPROVED", "REJECTED", "SUSPENDED", "ACTIVE", "INACTIVE",
             "PENDING_REVIEW", "TERMINATED"}

\* The statuses UpdateMerchantStatus can name: the protobuf enumeration has no others.
Requestable == {"PENDING", "APPROVED", "REJECTED", "SUSPENDED"}

\* Mutant: a merchant may always be put back to PENDING.
AlwaysPending ==
  [s \in Statuses |-> CASE s \in {"PENDING", "APPROVED"} -> {"REJECTED", "SUSPENDED", "APPROVED"}
                        [] OTHER -> {"PENDING", "SUSPENDED", "ACTIVE"}]

allowedTransitions ==
  [PENDING        |-> {"APPROVED", "REJECTED", "ACTIVE"},
   PENDING_REVIEW |-> {"ACTIVE", "REJECTED"},
   INACTIVE       |-> {"ACTIVE"},
   APPROVED       |-> {"SUSPENDED", "ACTIVE"},
   ACTIVE         |-> {"SUSPENDED", "INACTIVE", "TERMINATED"},
   SUSPENDED      |-> {"ACTIVE", "PENDING", "TERMINATED"},
   REJECTED       |-> {},
   TERMINATED     |-> {}]

Actions == {"ACTIVATE", "SUSPEND", "REACTIVATE"}

\* ValidateLifecycleTransition: from which statuses an action is accepted, and where it leads.
AcceptedFrom ==
  [ACTIVATE   |-> {"PENDING", "PENDING_REVIEW", "INACTIVE", "APPROVED"},
   SUSPEND    |-> {"ACTIVE", "APPROVED"},
   REACTIVATE |-> {"SUSPENDED"}]

Target(action) == IF action = "SUSPEND" THEN "SUSPENDED" ELSE "ACTIVE"

Init ==
  /\ status = "NONE" /\ deleted = FALSE
  /\ audit = <<>> /\ appeals = <<>> /\ outbox = <<>>
  /\ call = [p \in Procs |-> "idle"]
  /\ holder = {}
  /\ faults = 0

Goto(p, step) == call' = [call EXCEPT ![p] = step]

\* Mutant: the queries do not look at deleted_at.
LiveOrDeleted == status # "NONE"

Live == status # "NONE" /\ ~deleted

-----------------------------------------------------------------------------
(* Registration *)

\* A look-up that fails counts as one that finds nothing.
CreateMerchant(p) ==
  /\ call[p] = "idle"
  /\ \/ ~Live /\ UNCHANGED faults
     \/ Live /\ faults < MaxFaults /\ faults' = faults + 1
  /\ Goto(p, "create")
  /\ UNCHANGED <<merchant, holder>>

\* INSERT ... ON CONFLICT (id) DO NOTHING, with the event in the same transaction.
Create(p) ==
  /\ call[p] = "create"
  /\ IF status = "NONE"
     THEN status' = "PENDING" /\ outbox' = Append(outbox, "registered")
     ELSE UNCHANGED <<status, outbox>>
  /\ Goto(p, "idle")
  /\ UNCHANGED <<deleted, audit, appeals, holder, faults>>

-----------------------------------------------------------------------------
(* Changes of status *)

Announcement(to) ==
  CASE to \in {"ACTIVE", "APPROVED"} -> <<"activated">>
    [] to = "SUSPENDED" -> <<"suspended">>
    [] OTHER -> <<>>

Decided(to) ==
  [i \in DOMAIN appeals |->
     IF appeals[i] # "PENDING" THEN appeals[i]
     ELSE CASE to \in {"REJECTED", "SUSPENDED"} -> "REJECTED"
            [] to \in {"APPROVED", "ACTIVE"} -> "APPROVED"
            [] OTHER -> "PENDING"]

\* What the transaction of a change writes.
Commit(by, from, to) ==
  /\ status' = to
  /\ audit' = Append(audit, [by |-> by, from |-> from, to |-> to])
  /\ appeals' = Decided(to)
  /\ outbox' = outbox \o Announcement(to)
  /\ UNCHANGED deleted

\* Mutant: an appeal relies on the status it has read before.
StatusReadBefore(p) == IF call[p] = "filed" THEN "SUSPENDED" ELSE status

\* SELECT status ... FOR UPDATE
LockedStatus(p) == status

\* The transaction changes everything or nothing: an error of the event's insert is ignored
\* by the code, but it aborts the transaction, so that the commit fails.
UpdateStatusWithAudit(p, by, to) ==
  /\ holder = {}
  /\ \/ /\ Live /\ to \in allowedTransitions[LockedStatus(p)]
        /\ \/ Commit(by, LockedStatus(p), to) /\ UNCHANGED faults
           \/ UNCHANGED merchant /\ faults < MaxFaults /\ faults' = faults + 1
     \/ ~(Live /\ to \in allowedTransitions[LockedStatus(p)]) /\ UNCHANGED <<merchant, faults>>
  /\ Goto(p, "idle")
  /\ UNCHANGED holder

UpdateMerchantStatus(p) ==
  /\ call[p] = "idle" /\ status # "NONE" /\ Len(audit) < MaxAudit
  /\ \E to \in Requestable : UpdateStatusWithAudit(p, "ADMIN", to)

\* ActivateMerchant, SuspendMerchant and ReactivateMerchant, accepted.
ExecuteLifecycleTransition(p) ==
  /\ call[p] = "idle" /\ holder = {} /\ Live /\ Len(audit) < MaxAudit
  /\ \E action \in Actions :
       /\ status \in AcceptedFrom[action]
       /\ Commit("ADMIN", status, Target(action))
  /\ UNCHANGED <<call, holder, faults>>

\* Refused: the record of the refusal is inserted through the pool, not in the
\* transaction.  Its foreign key takes a key-share lock on the merchant's row, which this
\* request itself holds FOR UPDATE, so the insert does not return.
RefuseLifecycleTransition(p) ==
  /\ call[p] = "idle" /\ holder = {} /\ Live
  /\ \E action \in Actions : status \notin AcceptedFrom[action]
  /\ Goto(p, "recording")
  /\ holder' = {p}
  /\ UNCHANGED <<merchant, faults>>

\* Mutant: the request has no deadline.
EndNever(p) == FALSE /\ call[p] = "recording" /\ UNCHANGED vars

\* The deadline of the caller ends the insert; its error is dropped and the transaction is
\* rolled back.
EndRefusal(p) ==
  /\ call[p] = "recording"
  /\ Goto(p, "idle")
  /\ holder' = holder \ {p}
  /\ UNCHANGED <<merchant, faults>>

Delete(p) ==
  /\ call[p] = "idle" /\ holder = {} /\ Live
  /\ deleted' = TRUE
  /\ UNCHANGED <<status, audit, appeals, outbox, call, holder, faults>>

-----------------------------------------------------------------------------
(* Appeals *)

CreateAppeal(p) ==
  /\ call[p] = "idle" /\ Live /\ status = "SUSPENDED"
  /\ Len(audit) < MaxAudit /\ Len(appeals) < MaxAppeals
  /\ Goto(p, "appeal")
  /\ UNCHANGED <<merchant, holder, faults>>

\* The insert's foreign key waits for the row lock as well.
FileAppeal(p) ==
  /\ call[p] = "appeal" /\ holder = {}
  /\ \/ appeals' = Append(appeals, "PENDING") /\ Goto(p, "filed") /\ UNCHANGED faults
     \/ /\ faults < MaxFaults /\ faults' = faults + 1
        /\ Goto(p, "idle") /\ UNCHANGED appeals
  /\ UNCHANGED <<status, deleted, audit, outbox, holder>>

\* A refusal is only logged.
ReopenAppealed(p) ==
  /\ call[p] = "filed"
  /\ UpdateStatusWithAudit(p, "MERCHANT", "PENDING")

Next == \E p \in Procs :
  \/ CreateMerchant(p) \/ Create(p) \/ UpdateMerchantStatus(p) \/ ExecuteLifecycleTransition(p)
  \/ RefuseLifecycleTransition(p) \/ EndRefusal(p) \/ Delete(p)
  \/ CreateAppeal(p) \/ FileAppeal(p) \/ ReopenAppealed(p)

Spec == Init /\ [][Next]_vars

\* A request runs to its end.  Row locks are granted in the order in which they are asked
\* for, so that one who waits for the row is served although others come for it again.
Fairness == \A p \in Procs :
  /\ WF_vars(Create(p)) /\ WF_vars(EndRefusal(p))
  /\ SF_vars(FileAppeal(p)) /\ SF_vars(ReopenAppealed(p))

FairSpec == Spec /\ Fairness

-----------------------------------------------------------------------------
(* Properties *)

\* Types of the tables and of the requests' steps.
TypeOK ==
  /\ status \in Statuses \cup {"NONE"} /\ deleted \in BOOLEAN
  /\ audit \in Seq([by : {"ADMIN", "MERCHANT"}, from : Statuses, to : Statuses])
  /\ appeals \in Seq({"PENDING", "APPROVED", "REJECTED"})
  /\ outbox \in Seq({"registered", "activated", "suspended"})
  /\ call \in [Procs -> {"idle", "create", "recording", "appeal", "filed"}]
  /\ \A p \in Procs : p \in holder <=> call[p] = "recording"
  /\ \A p, q \in holder : p = q

\* The audit trail explains the status: from the registration, every record starts where the
\* one before it ended, and the last one ends in the present status, however the requests of
\* administrators and the appeals overlap.
AuditIsChain ==
  /\ \A i \in DOMAIN audit : audit[i].from = IF i = 1 THEN "PENDING" ELSE audit[i - 1].to
  /\ audit # <<>> => status = audit[Len(audit)].to
  /\ audit = <<>> => status \in {"NONE", "PENDING"}

\* The last word of seq that is in good or in bad is one of good.
LastIn(seq, good, bad) ==
  \E i \in DOMAIN seq :
    seq[i] \in good /\ \A j \in DOMAIN seq : j > i => seq[j] \notin bad

\* Who reads MerchantActivated and MerchantSuspended from the outbox knows of every merchant
\* what the audit trail says: whether it was last let in, last shut out, or neither ever.
StandingIsTold ==
  LET trail == [i \in DOMAIN audit |-> audit[i].to] IN
  /\ LastIn(outbox, {"activated"}, {"suspended"})
       <=> LastIn(trail, {"ACTIVE", "APPROVED"}, {"SUSPENDED"})
  /\ LastIn(outbox, {"suspended"}, {"activated"})
       <=> LastIn(trail, {"SUSPENDED"}, {"ACTIVE", "APPROVED"})

\* The status, the audit trail and the events of a merchant tell one story, however requests
\* overlap.
TrailIsTrue ==
  /\ TypeOK
  /\ AuditIsChain
  /\ StandingIsTold

\* A merchant returns from a suspension or a refusal only through an administrator: an appeal
\* that was read, filed and answered while others changed the status never does more than
\* put a suspended merchant back to PENDING, and a rejected merchant stays rejected.
OnlyAdminsReadmit ==
  \A i \in DOMAIN audit :
    /\ audit[i].by = "MERCHANT" => audit[i].from = "SUSPENDED" /\ audit[i].to = "PENDING"
    /\ audit[i].from \notin {"REJECTED", "TERMINATED"}

\* A deleted merchant is not changed by a request that found it before, and its id is not
\* registered again.
DeletedStays == [][deleted => UNCHANGED <<status, deleted, audit, outbox>>]_vars

\* No request holds the row of the merchant for ever, and every request that has begun ends:
\* the refused request that waits for its own lock is ended by its deadline, and an appeal
\* that waits for the row gets it.
EveryRequestEnds == \A p \in Procs : call[p] # "idle" ~> call[p] = "idle" /\ p \notin holder
=============================================================================
