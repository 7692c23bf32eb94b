------------------------------- MODULE Outbox -------------------------------
(***************************************************************************)
(* The transactional outbox of pkg/outbox: rows of outbox_events that      *)
(* business transactions insert, and the publisher instances that poll the *)
(* table, publish to Kafka and mark the rows.                              *)
(*                                                                         *)
(* One poll cycle is one database transaction.  What a cycle has marked is *)
(* kept in mark, apart from the committed rows, until Commit; a publisher  *)
(* that stops loses it.  When the database connection of a cycle breaks,   *)
(* the server rolls the transaction back and frees the row locks, but      *)
(* processOnce only logs the failing marks and goes on publishing the rest *)
(* of the batch: that is the phase "lost".                                 *)
(*                                                                         *)
(* An event is identified by its position in created_at order.             *)
(***************************************************************************)
EXTENDS Naturals, FiniteSets, Sequences

CONSTANTS
  NumEvents,      \* rows that may be inserted
  Publishers,     \* publisher instances polling the same table
  Invalid,        \* events whose payload is not a decodable envelope
  Filters,        \* the row sets that RequeueFailed's filters can select
  MaxRetries,     \* Config.MaxRetries
  BatchSize,      \* Config.BatchSize
  MaxFaults,      \* bound: stops, broken connections and writes that fail half way
  MaxRequeues     \* bound: operator calls of RequeueFailed

Events == 1..NumEvents

ASSUME OutboxAssumption ==
  /\ NumEvents \in Nat
  /\ MaxRetries \in Nat \ {0}
  /\ BatchSize \in Nat \ {0}
  /\ MaxFaults \in Nat
  /\ MaxRequeues \in Nat
  /\ IsFiniteSet(Publishers)
  /\ Invalid \subseteq Events
  /\ Filters \subseteq SUBSET Events

VARIABLES
  status,     \* committed status column; "none" before the insert commits
  retry,      \* committed retry_count
  due,        \* next_retry_at has passed
  topic,      \* what the broker has appended, in order
  dlq,        \* events appended to the dead-letter topic
  sent,       \* history: events that a Publish was done with, without an error
  phase,      \* a publisher's cycle: "idle", "open" or "lost" transaction
  locked,     \* rows its open transaction holds FOR UPDATE
  batch,      \* fetched rows it has still to handle
  fetched,    \* RetryCount of the batch as scanned by the fetch
  mark,       \* its uncommitted marks
  faults,     \* faults so far
  requeues    \* RequeueFailed calls so far

rows == <<status, retry, due>>
broker == <<topic, dlq, sent>>
cycle == <<phase, locked, batch, fetched, mark>>
bounds == <<faults, requeues>>
vars == <<rows, broker, cycle, bounds>>

Statuses == {"none", "PENDING", "PUBLISHED", "FAILED"}
Phases == {"idle", "open", "lost"}
Marks == {"none", "published", "failed"}

NoMark == [e \in Events |-> "none"]
NoCount == [e \in Events |-> 0]

Init ==
  /\ status = [e \in Events |-> "none"]
  /\ retry = NoCount
  /\ due = [e \in Events |-> FALSE]
  /\ topic = <<>>
  /\ dlq = {}
  /\ sent = {}
  /\ phase = [p \in Publishers |-> "idle"]
  /\ locked = [p \in Publishers |-> {}]
  /\ batch = [p \in Publishers |-> {}]
  /\ fetched = [p \in Publishers |-> NoCount]
  /\ mark = [p \in Publishers |-> NoMark]
  /\ faults = 0
  /\ requeues = 0

-----------------------------------------------------------------------------
(* The table *)

\* A business transaction that inserted event e commits.  created_at is the
\* start of that transaction, so rows may become visible out of order.
Insert(e) ==
  /\ status[e] = "none"
  /\ status' = [status EXCEPT ![e] = "PENDING"]
  /\ due' = [due EXCEPT ![e] = TRUE]
  /\ UNCHANGED <<retry, broker, cycle, bounds>>

RowLocked(e) == \E p \in Publishers : phase[p] = "open" /\ e \in locked[p]

\* Mutants of Selectable: the query without SKIP LOCKED, and one that never
\* returns a row that was tried before.
SelectableNoLock(e) == status[e] = "PENDING" /\ due[e]
SelectableFresh(e) == status[e] = "PENDING" /\ due[e] /\ retry[e] = 0 /\ ~RowLocked(e)

\* The rows FetchAndLockPending's query can return: FOR UPDATE SKIP LOCKED.
Selectable(e) ==
  /\ status[e] = "PENDING"
  /\ due[e]
  /\ ~RowLocked(e)

\* The status MarkFailedWithBackoff gives a row whose retry_count becomes n.
FailedStatus(n) == IF n >= MaxRetries THEN "FAILED" ELSE "PENDING"

\* next_retry_at passes: the backoff delay is over.
BackoffElapses(e) ==
  /\ status[e] = "PENDING"
  /\ ~due[e]
  /\ due' = [due EXCEPT ![e] = TRUE]
  /\ UNCHANGED <<status, retry, broker, cycle, bounds>>

\* RequeueFailed: one UPDATE over the FAILED rows the filters select.
RequeueFailed(f) ==
  LET hit == {e \in f : status[e] = "FAILED"} IN
  /\ requeues < MaxRequeues
  /\ hit # {}
  /\ requeues' = requeues + 1
  /\ status' = [e \in Events |-> IF e \in hit THEN "PENDING" ELSE status[e]]
  /\ retry' = [e \in Events |-> IF e \in hit THEN 0 ELSE retry[e]]
  /\ due' = [e \in Events |-> due[e] \/ e \in hit]
  /\ UNCHANGED <<broker, cycle, faults>>

-----------------------------------------------------------------------------
(* One publisher cycle: processOnce *)

\* B is the first BatchSize selectable rows in created_at order.
IsBatch(B) ==
  LET candidates == {e \in Events : Selectable(e)} IN
  /\ B \subseteq candidates
  /\ B # {}
  /\ Cardinality(B) <= BatchSize
  /\ \A e \in candidates \ B : Cardinality(B) = BatchSize /\ \A b \in B : b < e

\* Begin and FetchAndLockPending.  An empty result commits an empty
\* transaction, which changes nothing.
FetchAndLockPending(p, B) ==
  /\ phase[p] = "idle"
  /\ IsBatch(B)
  /\ phase' = [phase EXCEPT ![p] = "open"]
  /\ locked' = [locked EXCEPT ![p] = B]
  /\ batch' = [batch EXCEPT ![p] = B]
  /\ fetched' = [fetched EXCEPT ![p] = [e \in Events |-> IF e \in B THEN retry[e] ELSE 0]]
  /\ UNCHANGED <<rows, broker, mark, bounds>>

\* e is the event the loop of processOnce is at.
Current(p, e) ==
  /\ phase[p] # "idle"
  /\ e \in batch[p]
  /\ \A f \in batch[p] : e <= f

\* A mark inside the transaction; on a lost one the statement fails and the
\* error is logged.
Marked(p, m) == IF phase[p] = "open" THEN m ELSE "none"

MarkAndGoOn(p, e, m) ==
  /\ mark' = [mark EXCEPT ![p][e] = Marked(p, m)]
  /\ batch' = [batch EXCEPT ![p] = @ \ {e}]
  /\ UNCHANGED <<rows, phase, locked, fetched, requeues>>

\* UnmarshalEnvelope fails: MarkFailed, no publish and no dead-letter record.
InvalidPayload(p, e) ==
  /\ Current(p, e)
  /\ e \in Invalid
  /\ MarkAndGoOn(p, e, "failed")
  /\ UNCHANGED <<broker, faults>>

\* Publish returns nil, then MarkPublished.  The writer of NewProducer asks for no
\* acknowledgement (RequiredAcks is not set), so the broker may not have the event.
PublishOk(p, e) ==
  /\ Current(p, e)
  /\ e \notin Invalid
  /\ sent' = sent \cup {e}
  /\ topic' \in {Append(topic, e), topic}
  /\ MarkAndGoOn(p, e, "published")
  /\ UNCHANGED <<dlq, faults>>

\* One write attempt inside Publish reaches the broker but ends in an error; Publish
\* tries again or gives up.
LoseAck(p, e) ==
  /\ Current(p, e)
  /\ e \notin Invalid
  /\ faults < MaxFaults
  /\ faults' = faults + 1
  /\ topic' = Append(topic, e)
  /\ UNCHANGED <<rows, dlq, sent, cycle, requeues>>

GivesUp(p, e) == fetched[p][e] + 1 >= MaxRetries

\* Mutant: the continue after a failed publish is missing.
PublishErrMarksPublished(p, e, routed) ==
  /\ Current(p, e)
  /\ e \notin Invalid
  /\ routed => GivesUp(p, e)
  /\ dlq' = IF routed THEN dlq \cup {e} ELSE dlq
  /\ MarkAndGoOn(p, e, "published")
  /\ UNCHANGED <<topic, sent, faults>>

\* All attempts of Publish fail: on the last retry the event is sent to the
\* dead-letter topic (routed says whether that write succeeded; its error is
\* only logged), then MarkFailedWithBackoff.
PublishErr(p, e, routed) ==
  /\ Current(p, e)
  /\ e \notin Invalid
  /\ routed => GivesUp(p, e)
  /\ dlq' = IF routed THEN dlq \cup {e} ELSE dlq
  /\ MarkAndGoOn(p, e, "failed")
  /\ UNCHANGED <<topic, sent, faults>>

EndCycle(p) ==
  /\ phase' = [phase EXCEPT ![p] = "idle"]
  /\ locked' = [locked EXCEPT ![p] = {}]
  /\ batch' = [batch EXCEPT ![p] = {}]
  /\ fetched' = [fetched EXCEPT ![p] = NoCount]
  /\ mark' = [mark EXCEPT ![p] = NoMark]

CommittedStatus(p, e) ==
  CASE mark[p][e] = "published" -> "PUBLISHED"
    [] mark[p][e] = "failed" -> FailedStatus(retry[e] + 1)
    [] OTHER -> status[e]

\* tx.Commit at the end of the batch makes every mark of the cycle visible at
\* once; on a lost transaction it returns an error and nothing is written.
Commit(p) ==
  /\ phase[p] # "idle"
  /\ batch[p] = {}
  /\ status' = [e \in Events |-> CommittedStatus(p, e)]
  /\ retry' = [e \in Events |-> IF mark[p][e] = "failed" THEN retry[e] + 1 ELSE retry[e]]
  /\ due' = [e \in Events |-> due[e] /\ mark[p][e] # "failed"]
  /\ EndCycle(p)
  /\ UNCHANGED <<broker, bounds>>

\* The connection of the transaction breaks: rollback, locks freed.
LoseTx(p) ==
  /\ phase[p] = "open"
  /\ faults < MaxFaults
  /\ faults' = faults + 1
  /\ phase' = [phase EXCEPT ![p] = "lost"]
  /\ locked' = [locked EXCEPT ![p] = {}]
  /\ mark' = [mark EXCEPT ![p] = NoMark]
  /\ UNCHANGED <<rows, broker, batch, fetched, requeues>>

\* The process crashes, or ctx is cancelled and processOnce returns early: the
\* deferred Rollback, and the publisher polls again after its restart.
Stop(p) ==
  /\ phase[p] # "idle"
  /\ faults < MaxFaults
  /\ faults' = faults + 1
  /\ EndCycle(p)
  /\ UNCHANGED <<rows, broker, requeues>>

-----------------------------------------------------------------------------
Fetch(p) == \E B \in SUBSET Events : FetchAndLockPending(p, B)

\* The loop body of processOnce on the current event, when the call returns.
Handle(p) ==
  \E e \in Events :
    \/ InvalidPayload(p, e)
    \/ PublishOk(p, e)
    \/ \E routed \in BOOLEAN : PublishErr(p, e, routed)

Next ==
  \/ \E e \in Events : Insert(e) \/ BackoffElapses(e)
  \/ \E f \in Filters : RequeueFailed(f)
  \/ \E p \in Publishers :
       \/ Fetch(p)
       \/ Handle(p)
       \/ \E e \in Events : LoseAck(p, e)
       \/ Commit(p)
       \/ LoseTx(p)
       \/ Stop(p)

\* A publisher's ticker keeps firing and its calls return; time passes.
Fairness ==
  /\ \A p \in Publishers : WF_vars(Fetch(p)) /\ WF_vars(Handle(p)) /\ WF_vars(Commit(p))
  /\ \A e \in Events : WF_vars(BackoffElapses(e))

Spec == Init /\ [][Next]_vars
FairSpec == Spec /\ Fairness

-----------------------------------------------------------------------------
(* Properties *)

TypeOK ==
  /\ status \in [Events -> Statuses]
  /\ retry \in [Events -> 0..MaxRetries]
  /\ due \in [Events -> BOOLEAN]
  /\ topic \in Seq(Events)
  /\ dlq \subseteq Events
  /\ sent \subseteq Events
  /\ phase \in [Publishers -> Phases]
  /\ locked \in [Publishers -> SUBSET Events]
  /\ batch \in [Publishers -> SUBSET Events]
  /\ fetched \in [Publishers -> [Events -> Nat]]
  /\ mark \in [Publishers -> [Events -> Marks]]
  /\ faults \in 0..MaxFaults
  /\ requeues \in 0..MaxRequeues

\* "PUBLISHED status set only after WriteMessages returns nil" (README), whatever stopped,
\* broke or was retried on the way.  The guarantee the README draws from it, that no event
\* is PUBLISHED without the broker's ack, does not follow and is not claimed: the writer
\* asks for none.
PublishedWasSent ==
  \A e \in Events : status[e] = "PUBLISHED" => e \in sent

\* FOR UPDATE SKIP LOCKED: no two open cycles hold one row, and a held row is
\* still a committed PENDING row, so no commit overwrites another's outcome.
ExclusiveClaim ==
  /\ \A p, q \in Publishers : p # q => locked[p] \cap locked[q] = {}
  /\ \A p \in Publishers : \A e \in locked[p] : status[e] = "PENDING"

\* A row is FAILED exactly when its attempts are used up; a PENDING row always
\* has one left (no event is stranded, none is retried for ever).
FailedIffExhausted ==
  \A e \in Events : status[e] = "FAILED" <=> retry[e] = MaxRetries

\* What a row says is true at any moment: the parts above together.
StatusIsTrue ==
  /\ TypeOK
  /\ PublishedWasSent
  /\ FailedIffExhausted

Copies(e) == Cardinality({i \in DOMAIN topic : topic[i] = e})

\* What "No duplicate publishing across instances" amounts to: with any number
\* of instances, every extra copy of an event is paid for by a stop, a broken
\* connection or a write that failed half way.
DuplicatesNeedFaults ==
  \A e \in Events : Copies(e) <= 1 + faults

\* An action property: a PUBLISHED row never changes again, and a FAILED row
\* changes only by being requeued with all its attempts restored.
SettledRowsStay ==
  [][\A e \in Events :
       /\ status[e] = "PUBLISHED" => status'[e] = "PUBLISHED"
       /\ status[e] = "FAILED" =>
            \/ status'[e] = "FAILED"
            \/ status'[e] = "PENDING" /\ retry'[e] = 0]_vars

\* "Failed events are retried ... survives service restarts": an inserted event
\* does not stay PENDING for ever.
EventuallySettled ==
  \A e \in Events : status[e] = "PENDING" ~> status[e] \in {"PUBLISHED", "FAILED"}

-----------------------------------------------------------------------------
(* The parts that make the invariants above inductive (Outbox_proofs). *)

\* What a cycle holds: marks exist only in an open transaction, on rows that it
\* has locked and already handled, and a "published" mark follows a Publish.
CycleShape ==
  \A p \in Publishers :
    /\ phase[p] # "open" => locked[p] = {}
    /\ phase[p] = "idle" => batch[p] = {}
    /\ phase[p] = "open" => batch[p] \subseteq locked[p]
    /\ \A e \in Events :
         /\ mark[p][e] # "none" => e \in locked[p] /\ e \notin batch[p]
         /\ mark[p][e] = "published" => e \in sent

\* A row that was not inserted has never been tried.
FreshRows == \A e \in Events : status[e] = "none" => retry[e] = 0

\* e has been published, or an open cycle is about to commit that it has.
Settling(e) ==
  \/ status[e] = "PUBLISHED"
  \/ \E p \in Publishers : mark[p][e] = "published"

\* Cycles whose transaction is gone but that will still publish e.
Ghosts(e) == {p \in Publishers : phase[p] = "lost" /\ e \in batch[p]}

\* Every copy of e, and every copy a ghost cycle may still make, is covered by a
\* fault or is the one that settles the row.
CopyBudget ==
  \A e \in Events :
    Copies(e) + Cardinality(Ghosts(e)) <= faults + (IF Settling(e) THEN 1 ELSE 0)

IInv ==
  /\ TypeOK
  /\ CycleShape
  /\ ExclusiveClaim
  /\ PublishedWasSent
  /\ FailedIffExhausted
  /\ FreshRows
  /\ CopyBudget
=============================================================================
