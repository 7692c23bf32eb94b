---------------------------- MODULE Notification ----------------------------
(***************************************************************************)
(* notification-service: the pipeline that turns domain events into        *)
(* notification jobs, run by the consumers of KafkaConsumer.               *)
(*                                                                         *)
(* ProcessEvent is a sequence of database calls without a transaction: is  *)
(* the event in processed_events, is there a job for it, what does the     *)
(* user want, insert the job, insert the processed_events row.  Each call  *)
(* is a step, and each may fail.  One event may be in several handlers at  *)
(* once, after a rebalance or because it was published twice.              *)
(***************************************************************************)
EXTENDS KafkaConsumer

CONSTANTS
  Notifiable,  \* events with a known type and a well-formed payload
  OptedOut     \* events whose user has switched this notification off

Events == {Published[n] : n \in DOMAIN Published}

ASSUME NotificationAssumption ==
  /\ Notifiable \subseteq Events \ Undecodable
  /\ OptedOut \subseteq Notifiable

VARIABLES
  jobs,       \* notification_jobs: the statuses of the rows of each event
  processed,  \* processed_events
  step        \* the next database call of a consumer's handler

vars == <<consumerVars, jobs, processed, step>>

JobStatuses == {"PENDING", "OPTED_OUT"}
Steps == {"processed", "job", "preference", "create", "record"}

Init ==
  /\ ConsumerInit
  /\ jobs = [e \in Events |-> <<>>]
  /\ processed = {}
  /\ step = [c \in Consumers |-> "processed"]

-----------------------------------------------------------------------------
(* ProcessEvent *)

\* The event c's handler is working on.
Event(c) == log[hand[c]]

At(c, s) == pc[c] = "handle" /\ step[c] = s

Goto(c, s) == step' = [step EXCEPT ![c] = s] /\ UNCHANGED consumerVars

\* The handler returns nil, or an error, and its next call starts at the beginning.
Return(c) == HandlerSucceeds(c) /\ step' = [step EXCEPT ![c] = "processed"]
ReturnError(c) == HandlerFails(c) /\ Fault /\ step' = [step EXCEPT ![c] = "processed"]

IsEventProcessed(c) ==
  /\ At(c, "processed")
  /\ IF Event(c) \in processed THEN Return(c) ELSE Goto(c, "job")
  /\ UNCHANGED <<jobs, processed>>

\* Mutant: events that are in work elsewhere are skipped as duplicates.
SkipUnfinished(c) ==
  /\ At(c, "job")
  /\ IF \E d \in Consumers \ {c} : pc[d] = "handle" /\ Event(d) = Event(c)
     THEN Return(c)
     ELSE Goto(c, IF jobs[Event(c)] # <<>> THEN "record" ELSE "preference")
  /\ UNCHANGED <<jobs, processed>>

\* An existing job is only recorded; a payload or a type that is not understood is
\* acknowledged and left alone.
GetJobByEventID(c) ==
  /\ At(c, "job")
  /\ IF jobs[Event(c)] # <<>> THEN Goto(c, "record")
     ELSE IF Event(c) \in Notifiable THEN Goto(c, "preference")
     ELSE Return(c)
  /\ UNCHANGED <<jobs, processed>>

\* Channel, preference and template are read; none of them is ever written by the
\* service.
CheckPreferenceAndSelectChannel(c) ==
  /\ At(c, "preference")
  /\ Goto(c, "create")
  /\ UNCHANGED <<jobs, processed>>

JobStatus(e) == IF e \in OptedOut THEN "OPTED_OUT" ELSE "PENDING"

\* Mutant: event_id is not UNIQUE.
InsertAlways(e) == Append(jobs[e], JobStatus(e))

\* The rows of event e after an INSERT: the UNIQUE event_id admits one.
Inserted(e) == IF jobs[e] = <<>> THEN <<JobStatus(e)>> ELSE jobs[e]

\* "already exists" is a success and is not recorded in processed_events.
CreateJob(c) ==
  /\ At(c, "create")
  /\ jobs' = [jobs EXCEPT ![Event(c)] = Inserted(Event(c))]
  /\ IF Inserted(Event(c)) = jobs[Event(c)] THEN Return(c) ELSE Goto(c, "record")
  /\ UNCHANGED processed

\* The row is stored and the answer of the database lost: the handler fails.
CreateJobUnanswered(c) ==
  /\ At(c, "create")
  /\ jobs' = [jobs EXCEPT ![Event(c)] = Inserted(Event(c))]
  /\ ReturnError(c)
  /\ UNCHANGED processed

\* An error of this call is dropped.
RecordProcessedEvent(c) ==
  /\ At(c, "record")
  /\ processed' \in {processed, processed \cup {Event(c)}}
  /\ Return(c)
  /\ UNCHANGED jobs

\* One of the calls before the last fails.
CallFails(c) ==
  /\ step[c] # "record"
  /\ ReturnError(c)
  /\ UNCHANGED <<jobs, processed>>

-----------------------------------------------------------------------------
PipelineStep(c) ==
  \/ IsEventProcessed(c)
  \/ GetJobByEventID(c)
  \/ CheckPreferenceAndSelectChannel(c)
  \/ CreateJob(c)
  \/ RecordProcessedEvent(c)

\* The end of a process ends its handler.
Ends(c) == (Crash(c) \/ Shutdown(c)) /\ step' = [step EXCEPT ![c] = "processed"]

Next ==
  \E c \in Consumers :
    \/ PipelineStep(c) \/ CreateJobUnanswered(c) \/ CallFails(c)
    \/ Ends(c) /\ UNCHANGED <<jobs, processed>>
    \/ (LoopStep(c) \/ ReaderStep(c) \/ DLQFails(c)) /\ UNCHANGED <<jobs, processed, step>>

Spec == Init /\ [][Next]_vars

\* The Start loop, the handler and the reader's commits go on; a partition without an
\* owner is assigned.
FairSpec ==
  /\ Spec
  /\ \A c \in Consumers :
       /\ WF_vars(PipelineStep(c))
       /\ WF_vars(LoopStep(c) /\ UNCHANGED <<jobs, processed, step>>)
       /\ WF_vars(CommitMarked(c) /\ UNCHANGED <<jobs, processed, step>>)
       /\ WF_vars(owner = {} /\ Assign(c) /\ UNCHANGED <<jobs, processed, step>>)

-----------------------------------------------------------------------------
(* Properties *)

TypeOK ==
  /\ ConsumerTypeOK
  /\ jobs \in [Events -> Seq(JobStatuses)]
  /\ processed \in SUBSET Events
  /\ step \in [Consumers -> Steps]

\* Two deliveries of an event that both pass the two look-ups make one job.
OneJobPerEvent == \A e \in Events : Len(jobs[e]) <= 1

\* An event recorded in processed_events has its job: a repetition that is skipped
\* because of the record has nothing left to do.
ProcessedHasJob == \A e \in processed : jobs[e] # <<>>

\* Jobs and processed_events agree: one job for an event, and a record only of an event that
\* has one (ProcessEvent).
JobsAreRight ==
  /\ TypeOK
  /\ OneJobPerEvent
  /\ ProcessedHasJob

\* End to end: an event the broker counts as done has its job, or it is a dead letter,
\* or its dead letter could not be written.
AcknowledgedIsNotified ==
  \A n \in 1..committed :
    log[n] \in Notifiable => jobs[log[n]] # <<>> \/ DeadLettered(n) \/ n \in lost

\* What the offsets committed by the consumers mean, for the topic and for the jobs: nothing
\* behind them is lost silently (Consumer.Start, ProcessEvent).
AcknowledgedIsDone ==
  /\ NothingDropped
  /\ AcknowledgedIsNotified

\* Every event gets its job in the end, however consumers fail, unless a dead letter
\* of it was lost.
EventuallyNotified ==
  \A e \in Notifiable : <>(jobs[e] # <<>> \/ \E n \in lost : log[n] = e)
=============================================================================
