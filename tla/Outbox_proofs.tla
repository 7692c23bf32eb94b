---------------------------- MODULE Outbox_proofs ----------------------------
(***************************************************************************)
(* Proofs about Outbox for any number of events, publishers, retries and   *)
(* faults.  BaseInv is inductive by itself; CopyBudget is inductive        *)
(* relative to it.                                                         *)
(***************************************************************************)
EXTENDS Outbox, FiniteSetTheorems, TLAPS

BaseInv ==
  /\ TypeOK
  /\ CycleShape
  /\ ExclusiveClaim
  /\ PublishedWasSent
  /\ FailedIffExhausted
  /\ FreshRows

-----------------------------------------------------------------------------
(* BaseInv is inductive *)

LEMMA InitBase == Init => BaseInv
<1> SUFFICES ASSUME Init PROVE BaseInv
  OBVIOUS
<1> USE OutboxAssumption DEF Init, NoMark, NoCount
<1>1. TypeOK BY DEF TypeOK, Statuses, Phases, Marks
<1>2. CycleShape BY DEF CycleShape
<1>3. ExclusiveClaim /\ PublishedWasSent /\ FreshRows
  BY DEF ExclusiveClaim, PublishedWasSent, FreshRows
<1>4. FailedIffExhausted BY DEF FailedIffExhausted
<1> QED BY <1>1, <1>2, <1>3, <1>4 DEF BaseInv

\* A committed insert.
LEMMA InsertBase ==
  ASSUME BaseInv, NEW e \in Events, Insert(e)
  PROVE  BaseInv'
<1> USE OutboxAssumption DEF BaseInv, Insert, cycle, broker, bounds, rows
<1>1. TypeOK' BY DEF TypeOK, Statuses
<1>2. sent' = sent OBVIOUS
<1>3. CycleShape' BY <1>2 DEF CycleShape
<1>4. ExclusiveClaim' BY DEF ExclusiveClaim, TypeOK
<1>5. PublishedWasSent' BY <1>2 DEF PublishedWasSent, TypeOK
<1>6. FailedIffExhausted' /\ FreshRows'
  BY DEF FailedIffExhausted, FreshRows, TypeOK
<1> QED BY <1>1, <1>3, <1>4, <1>5, <1>6

\* A backoff that ends changes due only.
LEMMA BackoffBase ==
  ASSUME BaseInv, NEW e \in Events, BackoffElapses(e)
  PROVE  BaseInv'
<1> USE DEF BaseInv, BackoffElapses, cycle, broker, bounds
<1>1. TypeOK' BY DEF TypeOK
<1>2. sent' = sent OBVIOUS
<1> QED BY <1>1, <1>2 DEF CycleShape, ExclusiveClaim, PublishedWasSent,
                         FailedIffExhausted, FreshRows

\* The operator's requeue touches FAILED rows only, which no cycle holds.
LEMMA RequeueBase ==
  ASSUME BaseInv, NEW f \in Filters, RequeueFailed(f)
  PROVE  BaseInv'
<1> USE OutboxAssumption DEF BaseInv, RequeueFailed, cycle, broker, bounds
<1>1. TypeOK' BY DEF TypeOK, Statuses
<1>2. sent' = sent OBVIOUS
<1>3. CycleShape' BY <1>2 DEF CycleShape
<1>4. ExclusiveClaim' BY DEF ExclusiveClaim, TypeOK
<1>5. PublishedWasSent' BY <1>2 DEF PublishedWasSent, TypeOK
<1>6. FailedIffExhausted' BY DEF FailedIffExhausted, TypeOK
<1>7. FreshRows' BY DEF FreshRows, TypeOK
<1> QED BY <1>1, <1>3, <1>4, <1>5, <1>6, <1>7

\* A fetch claims selectable rows: PENDING, and locked by nobody.
LEMMA FetchBase ==
  ASSUME BaseInv, NEW p \in Publishers, NEW B \in SUBSET Events,
         FetchAndLockPending(p, B)
  PROVE  BaseInv'
<1> USE DEF BaseInv, FetchAndLockPending, rows, broker, bounds
<1>1. \A e \in B : status[e] = "PENDING" /\ ~RowLocked(e)
  BY DEF IsBatch, Selectable
<1>2. TypeOK'
  BY OutboxAssumption DEF TypeOK, Phases
<1>3. sent' = sent OBVIOUS
<1>4. \A q \in Publishers : locked[q] # {} => phase[q] = "open"
  BY DEF CycleShape
<1>5. \A q \in Publishers : locked[q] \cap B = {}
  BY <1>1, <1>4 DEF RowLocked
<1>6. CycleShape'
  BY <1>3 DEF CycleShape, TypeOK
<1>7. ExclusiveClaim'
  BY <1>1, <1>5 DEF ExclusiveClaim, TypeOK
<1> QED BY <1>2, <1>3, <1>6, <1>7
       DEF PublishedWasSent, FailedIffExhausted, FreshRows

\* Handling the current event marks a row that is locked and was in the batch.
LEMMA HandleBase ==
  ASSUME BaseInv, NEW p \in Publishers, NEW e \in Events, NEW m \in Marks,
         Current(p, e), MarkAndGoOn(p, e, m),
         topic' \in Seq(Events), dlq' \subseteq Events, faults' = faults,
         sent \subseteq sent', sent' \subseteq Events,
         m = "published" => e \in sent'
  PROVE  BaseInv'
<1> USE DEF BaseInv, MarkAndGoOn, rows
<1>1. TypeOK' BY DEF TypeOK, Marked, Marks
<1>2. CycleShape'
  <2> SUFFICES ASSUME NEW q \in Publishers
               PROVE  /\ phase'[q] # "open" => locked'[q] = {}
                      /\ phase'[q] = "idle" => batch'[q] = {}
                      /\ phase'[q] = "open" => batch'[q] \subseteq locked'[q]
                      /\ \A f \in Events :
                           /\ mark'[q][f] # "none" => f \in locked'[q] /\ f \notin batch'[q]
                           /\ mark'[q][f] = "published" => f \in sent'
    BY DEF CycleShape
  <2>1. /\ phase'[q] # "open" => locked'[q] = {}
        /\ phase'[q] = "idle" => batch'[q] = {}
        /\ phase'[q] = "open" => batch'[q] \subseteq locked'[q]
    BY DEF CycleShape, TypeOK
  <2>2. ASSUME NEW f \in Events
        PROVE  /\ mark'[q][f] # "none" => f \in locked'[q] /\ f \notin batch'[q]
               /\ mark'[q][f] = "published" => f \in sent'
    <3>1. CASE q = p /\ f = e
      BY <3>1 DEF CycleShape, TypeOK, Marked, Current
    <3>2. CASE ~(q = p /\ f = e)
      <4>1. mark'[q][f] = mark[q][f] BY <3>2 DEF TypeOK
      <4>2. f \in batch'[q] => f \in batch[q] BY DEF TypeOK
      <4> QED BY <4>1, <4>2 DEF CycleShape, TypeOK
    <3> QED BY <3>1, <3>2
  <2> QED BY <2>1, <2>2
<1>3. ExclusiveClaim' BY DEF ExclusiveClaim
<1> QED BY <1>1, <1>2, <1>3 DEF PublishedWasSent, FailedIffExhausted, FreshRows

LEMMA InvalidBase ==
  ASSUME BaseInv, NEW p \in Publishers, NEW e \in Events, InvalidPayload(p, e)
  PROVE  BaseInv'
<1>1. "failed" \in Marks /\ "failed" # "published" BY DEF Marks
<1>2. sent' = sent /\ sent \subseteq Events
  BY DEF InvalidPayload, broker, BaseInv, TypeOK
<1>3. topic' \in Seq(Events) /\ dlq' \subseteq Events /\ faults' = faults
  BY DEF InvalidPayload, broker, BaseInv, TypeOK
<1> QED BY <1>1, <1>2, <1>3, HandleBase DEF InvalidPayload

LEMMA PublishOkBase ==
  ASSUME BaseInv, NEW p \in Publishers, NEW e \in Events, PublishOk(p, e)
  PROVE  BaseInv'
<1>1. "published" \in Marks BY DEF Marks
<1>2. topic' \in Seq(Events)
  <2>1. topic \in Seq(Events) BY DEF BaseInv, TypeOK
  <2>2. CASE topic' = topic BY <2>1, <2>2
  <2>3. CASE topic' = Append(topic, e) BY <2>1, <2>3
  <2> QED BY <2>2, <2>3 DEF PublishOk
<1>3. /\ dlq' \subseteq Events /\ faults' = faults
      /\ sent \subseteq sent' /\ sent' \subseteq Events /\ e \in sent'
  BY DEF PublishOk, BaseInv, TypeOK
<1> QED BY <1>1, <1>2, <1>3, HandleBase DEF PublishOk

LEMMA PublishErrBase ==
  ASSUME BaseInv, NEW p \in Publishers, NEW e \in Events, NEW routed \in BOOLEAN,
         PublishErr(p, e, routed)
  PROVE  BaseInv'
<1>1. "failed" \in Marks /\ "failed" # "published" BY DEF Marks
<1>2. sent' = sent /\ sent \subseteq Events
  BY DEF PublishErr, BaseInv, TypeOK
<1>3. topic' \in Seq(Events) /\ dlq' \subseteq Events /\ faults' = faults
  BY DEF PublishErr, BaseInv, TypeOK
<1> QED BY <1>1, <1>2, <1>3, HandleBase DEF PublishErr

LEMMA LoseAckBase ==
  ASSUME BaseInv, NEW p \in Publishers, NEW e \in Events, LoseAck(p, e)
  PROVE  BaseInv'
<1> USE DEF BaseInv, LoseAck, rows, cycle
<1>1. topic \in Seq(Events) /\ topic' = Append(topic, e) BY DEF TypeOK
<1>2. topic' \in Seq(Events) /\ sent' = sent
  BY <1>1
<1>3. TypeOK' BY <1>2, OutboxAssumption DEF TypeOK
<1>4. CycleShape' BY <1>2 DEF CycleShape
<1> QED BY <1>2, <1>3, <1>4 DEF ExclusiveClaim, PublishedWasSent,
                               FailedIffExhausted, FreshRows

\* Ending a cycle without writing rows: Stop, and Commit of a lost transaction.
LEMMA EndCycleShape ==
  ASSUME BaseInv, NEW p \in Publishers, EndCycle(p), sent' = sent
  PROVE  /\ CycleShape'
         /\ phase' \in [Publishers -> Phases]
         /\ locked' \in [Publishers -> SUBSET Events]
         /\ batch' \in [Publishers -> SUBSET Events]
         /\ fetched' \in [Publishers -> [Events -> Nat]]
         /\ mark' \in [Publishers -> [Events -> Marks]]
BY DEF BaseInv, EndCycle, CycleShape, TypeOK, NoMark, NoCount, Marks, Phases

LEMMA StopBase ==
  ASSUME BaseInv, NEW p \in Publishers, Stop(p)
  PROVE  BaseInv'
<1> USE DEF BaseInv, Stop, rows, broker
<1>1. sent' = sent OBVIOUS
<1>2. EndCycle(p) OBVIOUS
<1>3. CycleShape' /\ TypeOK' BY <1>1, <1>2, EndCycleShape, OutboxAssumption DEF TypeOK
<1>4. ExclusiveClaim' BY DEF ExclusiveClaim, EndCycle, TypeOK
<1> QED BY <1>1, <1>3, <1>4 DEF PublishedWasSent, FailedIffExhausted, FreshRows

LEMMA LoseTxBase ==
  ASSUME BaseInv, NEW p \in Publishers, LoseTx(p)
  PROVE  BaseInv'
<1> USE DEF BaseInv, LoseTx, rows, broker
<1>1. sent' = sent OBVIOUS
<1>2. TypeOK' BY OutboxAssumption DEF TypeOK, Phases, NoMark, Marks
<1>3. CycleShape' BY <1>1 DEF CycleShape, TypeOK, NoMark
<1>4. ExclusiveClaim' BY DEF ExclusiveClaim, TypeOK
<1> QED BY <1>1, <1>2, <1>3, <1>4 DEF PublishedWasSent, FailedIffExhausted, FreshRows

\* A commit writes only rows its transaction holds, which are PENDING, have an
\* attempt left and are held by no other open transaction.
LEMMA CommitBase ==
  ASSUME BaseInv, NEW p \in Publishers, Commit(p)
  PROVE  BaseInv'
<1> USE DEF BaseInv, Commit, broker, bounds
<1>1. sent' = sent OBVIOUS
<1>2. EndCycle(p) OBVIOUS
<1>3. \A e \in Events : mark[p][e] # "none" =>
        /\ e \in locked[p] /\ status[e] = "PENDING"
        /\ retry[e] \in Nat /\ retry[e] < MaxRetries
  BY OutboxAssumption DEF CycleShape, ExclusiveClaim, FailedIffExhausted, TypeOK
<1>4. TypeOK'
  <2>1. status' \in [Events -> Statuses]
    BY DEF CommittedStatus, FailedStatus, TypeOK, Statuses
  <2>2. retry' \in [Events -> 0..MaxRetries]
    <3>1. \A e \in Events : retry[e] \in 0..MaxRetries BY DEF TypeOK
    <3>2. \A e \in Events : mark[p][e] = "failed" => retry[e] + 1 \in 0..MaxRetries
      BY <1>3, OutboxAssumption
    <3> QED BY <3>1, <3>2
  <2> QED BY <1>1, <1>2, <2>1, <2>2, EndCycleShape DEF TypeOK
<1>5. CycleShape' BY <1>1, <1>2, EndCycleShape
<1>6. ExclusiveClaim'
  <2>1. \A q \in Publishers : locked'[q] = IF q = p THEN {} ELSE locked[q]
    BY DEF EndCycle, TypeOK
  <2>2. ASSUME NEW q \in Publishers, NEW e \in locked'[q]
        PROVE  status'[e] = "PENDING"
    <3>1. q # p /\ e \in locked[q] /\ e \in Events BY <2>1 DEF TypeOK
    <3>2. mark[p][e] = "none" BY <3>1, <1>3 DEF ExclusiveClaim
    <3> QED BY <3>1, <3>2 DEF CommittedStatus, ExclusiveClaim
  <2> QED BY <2>1, <2>2 DEF ExclusiveClaim
<1>7. PublishedWasSent'
  BY <1>1 DEF PublishedWasSent, CommittedStatus, FailedStatus, CycleShape
<1>8. FailedIffExhausted' /\ FreshRows'
  <2> SUFFICES ASSUME NEW e \in Events
               PROVE  /\ status'[e] = "FAILED" <=> retry'[e] = MaxRetries
                      /\ status'[e] = "none" => retry'[e] = 0
    BY DEF FailedIffExhausted, FreshRows
  <2>1. CASE mark[p][e] = "published"
    BY <2>1, <1>3 DEF CommittedStatus
  <2>2. CASE mark[p][e] = "failed"
    BY <2>2, <1>3, OutboxAssumption DEF CommittedStatus, FailedStatus
  <2>3. CASE mark[p][e] = "none"
    BY <2>3 DEF CommittedStatus, FailedIffExhausted, FreshRows
  <2> QED BY <2>1, <2>2, <2>3 DEF TypeOK, Marks
<1> QED BY <1>4, <1>5, <1>6, <1>7, <1>8

LEMMA StutterBase ==
  ASSUME BaseInv, UNCHANGED vars
  PROVE  BaseInv'
BY DEF BaseInv, vars, rows, broker, cycle, bounds, TypeOK, CycleShape, ExclusiveClaim,
       PublishedWasSent, FailedIffExhausted, FreshRows

LEMMA NextBase == BaseInv /\ [Next]_vars => BaseInv'
<1> SUFFICES ASSUME BaseInv, [Next]_vars PROVE BaseInv'
  OBVIOUS
<1>1. ASSUME NEW e \in Events, Insert(e) PROVE BaseInv' BY <1>1, InsertBase
<1>2. ASSUME NEW e \in Events, BackoffElapses(e) PROVE BaseInv' BY <1>2, BackoffBase
<1>3. ASSUME NEW f \in Filters, RequeueFailed(f) PROVE BaseInv' BY <1>3, RequeueBase
<1>4. ASSUME NEW p \in Publishers, Fetch(p) PROVE BaseInv' BY <1>4, FetchBase DEF Fetch
<1>5. ASSUME NEW p \in Publishers, Handle(p) PROVE BaseInv'
  BY <1>5, InvalidBase, PublishOkBase, PublishErrBase DEF Handle
<1>6. ASSUME NEW p \in Publishers, NEW e \in Events, LoseAck(p, e) PROVE BaseInv'
  BY <1>6, LoseAckBase
<1>7. ASSUME NEW p \in Publishers, Commit(p) PROVE BaseInv' BY <1>7, CommitBase
<1>8. ASSUME NEW p \in Publishers, LoseTx(p) PROVE BaseInv' BY <1>8, LoseTxBase
<1>9. ASSUME NEW p \in Publishers, Stop(p) PROVE BaseInv' BY <1>9, StopBase
<1>10. CASE UNCHANGED vars BY <1>10, StutterBase
<1> QED BY <1>1, <1>2, <1>3, <1>4, <1>5, <1>6, <1>7, <1>8, <1>9, <1>10 DEF Next

-----------------------------------------------------------------------------
(* Counting copies *)

\* The positions of e in the topic are a finite set.
LEMMA CopiesFinite ==
  ASSUME topic \in Seq(Events), NEW e \in Events
  PROVE  /\ IsFiniteSet({i \in DOMAIN topic : topic[i] = e})
         /\ Copies(e) \in Nat
<1>1. DOMAIN topic = 1..Len(topic) /\ Len(topic) \in Int OBVIOUS
<1>2. IsFiniteSet(1..Len(topic)) BY <1>1, FS_Interval
<1>3. IsFiniteSet({i \in DOMAIN topic : topic[i] = e}) BY <1>1, <1>2, FS_Subset
<1> QED BY <1>3, FS_CardinalityType DEF Copies

\* An append adds one copy of the appended event and of no other.
LEMMA AppendCopies ==
  ASSUME topic \in Seq(Events), NEW e \in Events, NEW f \in Events,
         topic' = Append(topic, e)
  PROVE  Copies(f)' = IF f = e THEN Copies(f) + 1 ELSE Copies(f)
<1> DEFINE S == {i \in DOMAIN topic : topic[i] = f}
           n == Len(topic) + 1
<1>1. /\ DOMAIN topic = 1..Len(topic) /\ Len(topic) \in Nat
      /\ DOMAIN topic' = 1..n
      /\ topic'[n] = e
      /\ \A i \in 1..Len(topic) : topic'[i] = topic[i]
  OBVIOUS
<1>2. IsFiniteSet(S) /\ Copies(f) = Cardinality(S) BY CopiesFinite DEF Copies
<1>3. n \notin S BY <1>1
<1>4. CASE f = e
  <2>1. {i \in DOMAIN topic' : topic'[i] = f} = S \cup {n} BY <1>1, <1>4
  <2>2. Cardinality(S \cup {n}) = Cardinality(S) + 1 BY <1>2, <1>3, FS_AddElement
  <2> QED BY <1>2, <1>4, <2>1, <2>2 DEF Copies
<1>5. CASE f # e
  <2>1. {i \in DOMAIN topic' : topic'[i] = f} = S BY <1>1, <1>5
  <2> QED BY <1>2, <1>5, <2>1 DEF Copies
<1> QED BY <1>4, <1>5

\* Ghost cycles are publishers, so there are finitely many.
LEMMA GhostsFinite ==
  ASSUME NEW e \in Events
  PROVE  IsFiniteSet(Ghosts(e)) /\ Cardinality(Ghosts(e)) \in Nat
<1>1. IsFiniteSet(Ghosts(e)) BY OutboxAssumption, FS_Subset DEF Ghosts
<1> QED BY <1>1, FS_CardinalityType

\* A step that changes neither the topic, the ghosts of e nor what settles e,
\* and undoes no fault, keeps the budget of e.
Within(e) == Copies(e) + Cardinality(Ghosts(e)) <= faults + (IF Settling(e) THEN 1 ELSE 0)

LEMMA BudgetUntouched ==
  ASSUME NEW e \in Events, Within(e), topic' = topic, faults' = faults,
         Ghosts(e)' = Ghosts(e), Settling(e) => Settling(e)',
         topic \in Seq(Events), faults \in Nat
  PROVE  Within(e)'
<1>1. Copies(e)' = Copies(e) BY DEF Copies
<1>2. Copies(e) \in Nat /\ Cardinality(Ghosts(e)) \in Nat BY CopiesFinite, GhostsFinite
<1> QED BY <1>1, <1>2 DEF Within

\* Steps that only write rows: an insert, a backoff, a requeue.
LEMMA RowStepBudget ==
  ASSUME BaseInv, CopyBudget, UNCHANGED <<broker, cycle, faults>>,
         \A e \in Events : status[e] = "PUBLISHED" => status'[e] = "PUBLISHED"
  PROVE  CopyBudget'
<1> SUFFICES ASSUME NEW e \in Events PROVE Within(e)'
  BY DEF CopyBudget, Within
<1>1. Within(e) BY DEF CopyBudget, Within
<1>2. topic \in Seq(Events) /\ faults \in Nat BY OutboxAssumption DEF BaseInv, TypeOK
<1>3. topic' = topic /\ faults' = faults /\ Ghosts(e)' = Ghosts(e)
  BY DEF broker, cycle, Ghosts
<1>4. Settling(e) => Settling(e)' BY DEF Settling, cycle
<1> QED BY <1>1, <1>2, <1>3, <1>4, BudgetUntouched

\* Handling without a publish: the marks that settle are kept.
LEMMA NoPublishBudget ==
  ASSUME BaseInv, CopyBudget, NEW p \in Publishers, NEW f \in Events,
         Current(p, f), MarkAndGoOn(p, f, "failed"), topic' = topic, faults' = faults
  PROVE  CopyBudget'
<1> SUFFICES ASSUME NEW e \in Events PROVE Within(e)'
  BY DEF CopyBudget, Within
<1> USE DEF BaseInv, MarkAndGoOn, rows
<1>1. Within(e) BY DEF CopyBudget, Within
<1>2. topic \in Seq(Events) /\ faults \in Nat BY OutboxAssumption DEF TypeOK
<1>3. Ghosts(e)' \subseteq Ghosts(e) BY DEF Ghosts, TypeOK
<1>4. Cardinality(Ghosts(e)') <= Cardinality(Ghosts(e))
      /\ Cardinality(Ghosts(e)') \in Nat /\ Cardinality(Ghosts(e)) \in Nat
  BY <1>3, GhostsFinite, FS_Subset, FS_CardinalityType
<1>5. Settling(e) => Settling(e)'
  <2>1. mark[p][f] # "published" BY DEF CycleShape, Current, TypeOK
  <2>2. \A q \in Publishers : mark[q][e] = "published" => mark'[q][e] = "published"
    BY <2>1 DEF TypeOK
  <2> QED BY <2>2 DEF Settling
<1>6. Copies(e)' = Copies(e) /\ Copies(e) \in Nat BY <1>2, CopiesFinite DEF Copies
<1> QED BY <1>1, <1>2, <1>4, <1>5, <1>6 DEF Within

\* A publish by an open cycle makes the copy that settles the row; a publish by
\* a ghost uses up the ghost.
LEMMA PublishOkBudget ==
  ASSUME BaseInv, CopyBudget, NEW p \in Publishers, NEW f \in Events, PublishOk(p, f)
  PROVE  CopyBudget'
<1> SUFFICES ASSUME NEW e \in Events PROVE Within(e)'
  BY DEF CopyBudget, Within
<1> USE DEF BaseInv, PublishOk, MarkAndGoOn, rows
<1>1. Within(e) BY DEF CopyBudget, Within
<1>2. /\ topic \in Seq(Events) /\ faults \in Nat /\ topic' \in {Append(topic, f), topic}
      /\ faults' = faults /\ phase[p] # "idle" /\ f \in batch[p]
  BY OutboxAssumption DEF TypeOK, Current
<1>3. /\ Copies(e)' <= (IF e = f THEN Copies(e) + 1 ELSE Copies(e))
      /\ Copies(e) \in Nat /\ Copies(e)' \in Nat
  <2>1. Copies(e) \in Nat BY <1>2, CopiesFinite
  <2>2. CASE topic' = topic
    <3>1. Copies(e)' = Copies(e) BY <2>2 DEF Copies
    <3> QED BY <2>1, <3>1
  <2>3. CASE topic' = Append(topic, f)
    <3>1. Copies(e)' = (IF e = f THEN Copies(e) + 1 ELSE Copies(e)) BY <1>2, <2>3, AppendCopies
    <3> QED BY <2>1, <3>1
  <2> QED BY <1>2, <2>2, <2>3
<1>4. /\ IsFiniteSet(Ghosts(e)) /\ Cardinality(Ghosts(e)) \in Nat
  BY GhostsFinite
<1>5. CASE e # f
  <2>1. Ghosts(e)' = Ghosts(e) BY <1>5 DEF Ghosts, TypeOK
  <2>2. Settling(e)' <=> Settling(e) BY <1>5 DEF Settling, TypeOK
  <2> QED BY <1>1, <1>2, <1>3, <1>4, <1>5, <2>1, <2>2 DEF Within
<1>6. CASE e = f /\ phase[p] = "open"
  <2>1. Ghosts(e)' = Ghosts(e) BY <1>6 DEF Ghosts, TypeOK
  <2>2. Settling(e)'
    <3>1. mark'[p][e] = "published" BY <1>6 DEF Marked, TypeOK
    <3> QED BY <3>1 DEF Settling
  <2>3. ~Settling(e)
    <3>1. e \in locked[p] /\ e \in batch[p] BY <1>2, <1>6 DEF CycleShape
    <3>2. \A q \in Publishers : mark[q][e] # "published"
      BY <3>1 DEF CycleShape, ExclusiveClaim
    <3>3. status[e] = "PENDING" BY <3>1 DEF ExclusiveClaim
    <3> QED BY <3>2, <3>3 DEF Settling
  <2> QED BY <1>1, <1>2, <1>3, <1>4, <1>6, <2>1, <2>2, <2>3 DEF Within
<1>7. CASE e = f /\ phase[p] = "lost"
  <2>1. Ghosts(e)' = Ghosts(e) \ {p} BY <1>7 DEF Ghosts, TypeOK
  <2>2. p \in Ghosts(e) BY <1>2, <1>7 DEF Ghosts
  <2>3. Cardinality(Ghosts(e)') = Cardinality(Ghosts(e)) - 1
    BY <1>4, <2>1, <2>2, FS_RemoveElement
  <2>4. Settling(e) => Settling(e)'
    <3>1. mark[p][e] # "published" BY <1>2, <1>7 DEF CycleShape
    <3>2. \A q \in Publishers : mark[q][e] = "published" => mark'[q][e] = "published"
      BY <3>1, <1>7 DEF TypeOK
    <3> QED BY <3>2 DEF Settling
  <2> QED BY <1>1, <1>2, <1>3, <1>4, <1>7, <2>3, <2>4 DEF Within
<1> QED BY <1>2, <1>5, <1>6, <1>7 DEF TypeOK, Phases

LEMMA LoseAckBudget ==
  ASSUME BaseInv, CopyBudget, NEW p \in Publishers, NEW f \in Events, LoseAck(p, f)
  PROVE  CopyBudget'
<1> SUFFICES ASSUME NEW e \in Events PROVE Within(e)'
  BY DEF CopyBudget, Within
<1> USE DEF BaseInv, LoseAck, rows, cycle
<1>1. Within(e) BY DEF CopyBudget, Within
<1>2. topic \in Seq(Events) /\ faults \in Nat /\ topic' = Append(topic, f)
      /\ faults' = faults + 1
  BY OutboxAssumption DEF TypeOK
<1>3. /\ Copies(e)' = (IF e = f THEN Copies(e) + 1 ELSE Copies(e))
      /\ Copies(e) \in Nat
  BY <1>2, AppendCopies, CopiesFinite
<1>4. Ghosts(e)' = Ghosts(e) /\ (Settling(e)' <=> Settling(e)) BY DEF Ghosts, Settling
<1>5. Cardinality(Ghosts(e)) \in Nat BY GhostsFinite
<1> QED BY <1>1, <1>2, <1>3, <1>4, <1>5 DEF Within

\* A broken connection is one fault; it turns the cycle into a ghost of the rows
\* still in its batch or forgets the mark of a handled row, never both for one row.
LEMMA LoseTxBudget ==
  ASSUME BaseInv, CopyBudget, NEW p \in Publishers, LoseTx(p)
  PROVE  CopyBudget'
<1> SUFFICES ASSUME NEW e \in Events PROVE Within(e)'
  BY DEF CopyBudget, Within
<1> USE DEF BaseInv, LoseTx, rows, broker
<1>1. Within(e) BY DEF CopyBudget, Within
<1>2. topic \in Seq(Events) /\ faults \in Nat /\ topic' = topic /\ faults' = faults + 1
  BY OutboxAssumption DEF TypeOK
<1>3. Copies(e)' = Copies(e) /\ Copies(e) \in Nat BY <1>2, CopiesFinite DEF Copies
<1>4. IsFiniteSet(Ghosts(e)) /\ Cardinality(Ghosts(e)) \in Nat BY GhostsFinite
<1>5. CASE e \in batch[p]
  <2>1. Ghosts(e)' = Ghosts(e) \cup {p} BY <1>5 DEF Ghosts, TypeOK
  <2>2. Cardinality(Ghosts(e)') = Cardinality(Ghosts(e)) + 1
    <3>1. p \notin Ghosts(e) BY DEF Ghosts
    <3>2. Cardinality(Ghosts(e) \cup {p}) = Cardinality(Ghosts(e)) + 1
      BY <1>4, <3>1, FS_AddElement
    <3> QED BY <2>1, <3>2
  <2>3. Settling(e) => Settling(e)'
    <3>1. mark[p][e] # "published" BY <1>5 DEF CycleShape
    <3> QED BY <3>1 DEF Settling, TypeOK
  <2> QED BY <1>1, <1>2, <1>3, <1>4, <2>2, <2>3 DEF Within
<1>6. CASE e \notin batch[p]
  <2>1. Ghosts(e)' = Ghosts(e) BY <1>6 DEF Ghosts, TypeOK
  <2> QED BY <1>1, <1>2, <1>3, <1>4, <2>1 DEF Within
<1> QED BY <1>5, <1>6

\* A stop is one fault and forgets at most one mark or one ghost of a row.
LEMMA StopBudget ==
  ASSUME BaseInv, CopyBudget, NEW p \in Publishers, Stop(p)
  PROVE  CopyBudget'
<1> SUFFICES ASSUME NEW e \in Events PROVE Within(e)'
  BY DEF CopyBudget, Within
<1> USE DEF BaseInv, Stop, rows, broker
<1>1. Within(e) BY DEF CopyBudget, Within
<1>2. topic \in Seq(Events) /\ faults \in Nat /\ topic' = topic /\ faults' = faults + 1
  BY OutboxAssumption DEF TypeOK
<1>3. Copies(e)' = Copies(e) /\ Copies(e) \in Nat BY <1>2, CopiesFinite DEF Copies
<1>4. Ghosts(e)' \subseteq Ghosts(e) BY DEF Ghosts, EndCycle, TypeOK
<1>5. Cardinality(Ghosts(e)') <= Cardinality(Ghosts(e))
      /\ Cardinality(Ghosts(e)') \in Nat /\ Cardinality(Ghosts(e)) \in Nat
  BY <1>4, GhostsFinite, FS_Subset, FS_CardinalityType
<1> QED BY <1>1, <1>2, <1>3, <1>5 DEF Within

\* A commit turns the marks that settle into PUBLISHED rows.
LEMMA CommitBudget ==
  ASSUME BaseInv, CopyBudget, NEW p \in Publishers, Commit(p)
  PROVE  CopyBudget'
<1> SUFFICES ASSUME NEW e \in Events PROVE Within(e)'
  BY DEF CopyBudget, Within
<1> USE DEF BaseInv, Commit, broker, bounds
<1>1. Within(e) BY DEF CopyBudget, Within
<1>2. topic \in Seq(Events) /\ faults \in Nat /\ topic' = topic /\ faults' = faults
  BY OutboxAssumption DEF TypeOK
<1>3. Ghosts(e)' = Ghosts(e) BY DEF Ghosts, EndCycle, TypeOK
<1>4. Settling(e) => Settling(e)'
  <2>1. CASE mark[p][e] = "published"
    BY <2>1 DEF Settling, CommittedStatus
  <2>2. CASE status[e] = "PUBLISHED"
    <3>1. mark[p][e] = "none" BY <2>2 DEF CycleShape, ExclusiveClaim
    <3> QED BY <2>2, <3>1 DEF Settling, CommittedStatus
  <2>3. CASE \E q \in Publishers : q # p /\ mark[q][e] = "published"
    BY <2>3 DEF Settling, EndCycle, TypeOK
  <2> QED BY <2>1, <2>2, <2>3 DEF Settling
<1> QED BY <1>1, <1>2, <1>3, <1>4, BudgetUntouched

LEMMA FetchBudget ==
  ASSUME BaseInv, CopyBudget, NEW p \in Publishers, NEW B \in SUBSET Events,
         FetchAndLockPending(p, B)
  PROVE  CopyBudget'
<1> SUFFICES ASSUME NEW e \in Events PROVE Within(e)'
  BY DEF CopyBudget, Within
<1> USE DEF BaseInv, FetchAndLockPending, rows, broker, bounds
<1>1. Within(e) BY DEF CopyBudget, Within
<1>2. topic \in Seq(Events) /\ faults \in Nat /\ topic' = topic /\ faults' = faults
  BY OutboxAssumption DEF TypeOK
<1>3. Ghosts(e)' = Ghosts(e) BY DEF Ghosts, TypeOK
<1>4. Settling(e) => Settling(e)' BY DEF Settling
<1> QED BY <1>1, <1>2, <1>3, <1>4, BudgetUntouched

LEMMA NextBudget == BaseInv /\ CopyBudget /\ [Next]_vars => CopyBudget'
<1> SUFFICES ASSUME BaseInv, CopyBudget, [Next]_vars PROVE CopyBudget'
  OBVIOUS
<1>1. ASSUME NEW e \in Events, Insert(e) \/ BackoffElapses(e) PROVE CopyBudget'
  <2>1. /\ UNCHANGED <<broker, cycle, faults>>
        /\ \A f \in Events : status[f] = "PUBLISHED" => status'[f] = "PUBLISHED"
    BY <1>1 DEF Insert, BackoffElapses, bounds, BaseInv, TypeOK
  <2> QED BY <2>1, RowStepBudget
<1>2. ASSUME NEW f \in Filters, RequeueFailed(f) PROVE CopyBudget'
  <2>1. /\ UNCHANGED <<broker, cycle, faults>>
        /\ \A e \in Events : status[e] = "PUBLISHED" => status'[e] = "PUBLISHED"
    BY <1>2 DEF RequeueFailed
  <2> QED BY <2>1, RowStepBudget
<1>3. ASSUME NEW p \in Publishers, Fetch(p) PROVE CopyBudget'
  BY <1>3, FetchBudget DEF Fetch
<1>4. ASSUME NEW p \in Publishers, Handle(p) PROVE CopyBudget'
  <2>1. ASSUME NEW e \in Events, InvalidPayload(p, e) PROVE CopyBudget'
    BY <2>1, NoPublishBudget DEF InvalidPayload, broker
  <2>2. ASSUME NEW e \in Events, NEW routed \in BOOLEAN, PublishErr(p, e, routed)
        PROVE  CopyBudget'
    BY <2>2, NoPublishBudget DEF PublishErr
  <2> QED BY <1>4, <2>1, <2>2, PublishOkBudget DEF Handle
<1>5. ASSUME NEW p \in Publishers, NEW e \in Events, LoseAck(p, e) PROVE CopyBudget'
  BY <1>5, LoseAckBudget
<1>6. ASSUME NEW p \in Publishers, Commit(p) PROVE CopyBudget' BY <1>6, CommitBudget
<1>7. ASSUME NEW p \in Publishers, LoseTx(p) PROVE CopyBudget' BY <1>7, LoseTxBudget
<1>8. ASSUME NEW p \in Publishers, Stop(p) PROVE CopyBudget' BY <1>8, StopBudget
<1>9. CASE UNCHANGED vars
  <2>1. UNCHANGED <<broker, cycle, faults>> /\ status' = status
    BY <1>9 DEF vars, rows, bounds
  <2> QED BY <2>1, RowStepBudget
<1> QED BY <1>1, <1>2, <1>3, <1>4, <1>5, <1>6, <1>7, <1>8, <1>9 DEF Next

LEMMA InitBudget == Init => CopyBudget
<1> SUFFICES ASSUME Init, NEW e \in Events
             PROVE  Copies(e) + Cardinality(Ghosts(e)) <= faults + (IF Settling(e) THEN 1 ELSE 0)
  BY DEF CopyBudget
<1>1. {i \in DOMAIN topic : topic[i] = e} = {} /\ Ghosts(e) = {} BY DEF Init, Ghosts
<1>2. Copies(e) = 0 /\ Cardinality(Ghosts(e)) = 0 BY <1>1, FS_EmptySet DEF Copies
<1> QED BY <1>2 DEF Init

-----------------------------------------------------------------------------
(* The theorems *)

\* IInv, the conjunction of everything above, is an inductive invariant.
THEOREM OutboxInvariant == Spec => []IInv
<1>1. Init => IInv BY InitBase, InitBudget DEF IInv, BaseInv
<1>2. IInv /\ [Next]_vars => IInv' BY NextBase, NextBudget DEF IInv, BaseInv
<1> QED BY <1>1, <1>2, PTL DEF Spec

\* Types: in particular retry_count never passes MaxRetries.
THEOREM OutboxTypeCorrect == Spec => []TypeOK
<1>1. IInv => TypeOK BY DEF IInv
<1> QED BY <1>1, OutboxInvariant, PTL

\* A row is PUBLISHED only after a Publish of it returned without an error (processOnce); that
\* the broker has it is not claimed, since the writer asks for no acknowledgement.
THEOREM PublishedOnlyAfterSend == Spec => []PublishedWasSent
<1>1. IInv => PublishedWasSent BY DEF IInv
<1> QED BY <1>1, OutboxInvariant, PTL

\* SKIP LOCKED keeps open cycles apart, for any number of instances.
THEOREM ClaimsAreExclusive == Spec => []ExclusiveClaim
<1>1. IInv => ExclusiveClaim BY DEF IInv
<1> QED BY <1>1, OutboxInvariant, PTL

\* FAILED means exactly that MaxRetries attempts have failed.
THEOREM FailedMeansExhausted == Spec => []FailedIffExhausted
<1>1. IInv => FailedIffExhausted BY DEF IInv
<1> QED BY <1>1, OutboxInvariant, PTL

\* The number of copies of an event is bounded by the faults that happened.
THEOREM DuplicatesBounded == Spec => []DuplicatesNeedFaults
<1>1. IInv => DuplicatesNeedFaults
  <2> SUFFICES ASSUME IInv, NEW e \in Events PROVE Copies(e) <= 1 + faults
    BY DEF DuplicatesNeedFaults
  <2>1. topic \in Seq(Events) /\ faults \in Nat
    BY OutboxAssumption DEF IInv, TypeOK
  <2>2. Copies(e) \in Nat /\ Cardinality(Ghosts(e)) \in Nat
    BY <2>1, CopiesFinite, GhostsFinite
  <2> QED BY <2>1, <2>2 DEF IInv, CopyBudget
<1> QED BY <1>1, OutboxInvariant, PTL

\* PUBLISHED is final and FAILED is left only by a requeue with fresh attempts.
THEOREM SettledRowsAreFinal == Spec => SettledRowsStay
<1> DEFINE Stay == \A e \in Events :
                     /\ status[e] = "PUBLISHED" => status'[e] = "PUBLISHED"
                     /\ status[e] = "FAILED" =>
                          \/ status'[e] = "FAILED"
                          \/ status'[e] = "PENDING" /\ retry'[e] = 0
<1>1. IInv /\ [Next]_vars => [Stay]_vars
  <2> SUFFICES ASSUME IInv, Next PROVE Stay
    OBVIOUS
  <2> USE DEF IInv
  <2>1. ASSUME NEW e \in Events, Insert(e) \/ BackoffElapses(e) PROVE Stay
    BY <2>1 DEF Insert, BackoffElapses, TypeOK
  <2>2. ASSUME NEW f \in Filters, RequeueFailed(f) PROVE Stay
    BY <2>2 DEF RequeueFailed
  <2>3. ASSUME NEW p \in Publishers, Commit(p) PROVE Stay
    <3>1. \A e \in Events : mark[p][e] # "none" => status[e] = "PENDING"
      BY DEF CycleShape, ExclusiveClaim
    <3> QED BY <2>3, <3>1 DEF Commit, CommittedStatus, TypeOK, Marks
  <2>4. ASSUME NEW p \in Publishers,
               Fetch(p) \/ Handle(p) \/ (\E e \in Events : LoseAck(p, e)) \/ LoseTx(p) \/ Stop(p)
        PROVE  Stay
    BY <2>4 DEF Fetch, FetchAndLockPending, Handle, InvalidPayload, PublishOk, PublishErr,
                MarkAndGoOn, LoseAck, LoseTx, Stop, rows
  <2> QED BY <2>1, <2>2, <2>3, <2>4 DEF Next
<1> QED BY <1>1, OutboxInvariant, PTL DEF Spec, SettledRowsStay

\* With any number of rows, instances and faults: a row is PUBLISHED only after a Publish of
\* it returned without an error, FAILED exactly when its attempts are used up, and typed
\* (processOnce, MarkFailedWithBackoff).
THEOREM StatusIsAlwaysTrue == Spec => []StatusIsTrue
<1>1. IInv => StatusIsTrue BY DEF IInv, StatusIsTrue
<1> QED BY <1>1, OutboxInvariant, PTL

-----------------------------------------------------------------------------
(***************************************************************************)
(* The other end of a topic: the consumers of pkg/kafka, whatever their    *)
(* handler does, and the pipeline of notification-service as the handler,  *)
(* for any number of consumers, messages and faults.                       *)
(***************************************************************************)

CONSTANTS Consumers, Published, Undecodable, HandlerRetries, DLQSuffix, MaxLog, MaxFailures,
          Notifiable, OptedOut
VARIABLES log, dead, committed, owner, next, pc, hand, attempt, marked, handled, lost, failures,
          jobs, processed, step

N == INSTANCE Notification
       WITH MaxRetries <- HandlerRetries, MaxFaults <- MaxFailures,
            dlq <- dead, mark <- marked, faults <- failures

\* Offset n needs no more work.
Done(n) == n \in handled \cup lost \/ N!DeadLettered(n)

\* No offset up to n does.
UpTo(n) == n <= Len(log) /\ \A m \in 1..n : Done(m)

\* What the broker and the readers call done is.
OffsetsAreDone == UpTo(committed) /\ \A c \in Consumers : UpTo(marked[c])

\* A consumer with a message in hand has left nothing behind it, and is finished with it
\* when it marks it.
HandFits(c) ==
  /\ pc[c] # "fetch" => hand[c] \in 1..Len(log) /\ UpTo(hand[c] - 1)
  /\ pc[c] = "mark" => Done(hand[c])

\* The owner of the partition fetches right behind what is done, or behind the message in
\* its hands.
GoesOn(c) == UpTo(next[c] - 1) \/ (pc[c] # "fetch" /\ next[c] = hand[c] + 1)

ConsumerInv == N!ConsumerAssumption /\ N!ConsumerTypeOK /\ OffsetsAreDone
               /\ (\A c \in Consumers : HandFits(c)) /\ (\A c \in owner : GoesOn(c))

LEMMA ConsumerStarts == N!ConsumerAssumption /\ N!ConsumerInit => ConsumerInv
<1> SUFFICES ASSUME N!ConsumerAssumption, N!ConsumerInit PROVE ConsumerInv OBVIOUS
<1> USE DEF N!ConsumerInit, N!ConsumerAssumption
<1>1. N!ConsumerTypeOK
  BY DEF N!ConsumerTypeOK, N!Offsets, N!Phases, N!MaxAttempts
<1>2. Len(log) \in Nat OBVIOUS
<1>3. OffsetsAreDone /\ (\A c \in Consumers : HandFits(c)) /\ owner = {}
  BY <1>2 DEF OffsetsAreDone, HandFits, UpTo
<1> QED BY <1>1, <1>3 DEF ConsumerInv

\* The topics and the history only grow, and what is done stays done.
Grows ==
  /\ Len(log) <= Len(log') /\ \A n \in 1..Len(log) : log'[n] = log[n]
  /\ Len(dead) <= Len(dead') /\ \A n \in 1..Len(dead) : dead'[n] = dead[n]
  /\ handled \subseteq handled' /\ lost \subseteq lost'

LEMMA DoneStays ==
  ASSUME N!ConsumerTypeOK, N!ConsumerTypeOK', Grows
  PROVE  /\ \A n \in 1..Len(log) : Done(n) => Done(n)'
         /\ \A n \in Int : UpTo(n) => UpTo(n)'
<1>1. Len(log) \in Nat /\ Len(log') \in Nat /\ Len(dead) \in Nat /\ Len(dead') \in Nat
      /\ DOMAIN log = 1..Len(log) /\ DOMAIN log' = 1..Len(log')
      /\ DOMAIN dead = 1..Len(dead) /\ DOMAIN dead' = 1..Len(dead')
  BY DEF N!ConsumerTypeOK
<1>2. ASSUME NEW n \in 1..Len(log), Done(n) PROVE Done(n)'
  BY <1>1, <1>2 DEF Done, N!DeadLettered, Grows
<1>3. ASSUME NEW n \in Int, UpTo(n) PROVE UpTo(n)'
  BY <1>1, <1>2, <1>3 DEF UpTo, Grows
<1> QED BY <1>2, <1>3

\* Offsets that the step leaves alone stay as they are.
LEMMA SameTopics ==
  ASSUME N!ConsumerTypeOK, UNCHANGED <<N!topics, N!history>> PROVE Grows
BY DEF Grows, N!topics, N!history, N!ConsumerTypeOK

\* A step of consumer d, which need only be looked at for d.
LEMMA StepOf ==
  ASSUME ConsumerInv, N!ConsumerTypeOK', Grows, NEW d \in Consumers,
         \A c \in Consumers \ {d} : pc'[c] = pc[c] /\ hand'[c] = hand[c]
                                    /\ marked'[c] = marked[c] /\ next'[c] = next[c],
         owner' \subseteq owner \cup {d},
         UpTo(committed)', UpTo(marked[d])', HandFits(d)', d \in owner' => GoesOn(d)'
  PROVE  ConsumerInv'
<1> USE DEF ConsumerInv
<1>1. /\ \A n \in 1..Len(log) : Done(n) => Done(n)'
      /\ \A n \in Int : UpTo(n) => UpTo(n)'
  BY DoneStays
<1>2. ASSUME NEW c \in Consumers \ {d} PROVE UpTo(marked[c])' /\ HandFits(c)'
  <2>1. marked'[c] = marked[c] /\ pc'[c] = pc[c] /\ hand'[c] = hand[c]
        /\ marked[c] \in Int /\ hand[c] \in Int
    BY DEF N!ConsumerTypeOK, N!Offsets
  <2>2. UpTo(marked[c])'
    <3>1. UpTo(marked[c]) BY DEF OffsetsAreDone
    <3> QED BY <1>1, <2>1, <3>1 DEF UpTo
  <2>3. pc[c] # "fetch" => hand'[c] \in 1..Len(log') /\ UpTo(hand[c] - 1)'
    <3> SUFFICES ASSUME pc[c] # "fetch" PROVE hand'[c] \in 1..Len(log') /\ UpTo(hand[c] - 1)'
      OBVIOUS
    <3>1. hand[c] \in 1..Len(log) /\ UpTo(hand[c] - 1) BY DEF HandFits
    <3>2. Len(log) \in Nat /\ Len(log') \in Nat BY DEF N!ConsumerTypeOK
    <3>3. PICK n \in Int : n = hand[c] - 1 /\ n = hand'[c] - 1 BY <2>1
    <3>4. UpTo(n)' BY <1>1, <3>1, <3>3
    <3> QED BY <2>1, <3>1, <3>2, <3>3, <3>4 DEF Grows
  <2>4. pc[c] = "mark" => Done(hand[c])'
    <3> SUFFICES ASSUME pc[c] = "mark" PROVE Done(hand[c])' OBVIOUS
    <3>1. hand[c] \in 1..Len(log) /\ Done(hand[c]) BY DEF HandFits
    <3>2. PICK n \in 1..Len(log) : n = hand[c] /\ n = hand'[c] BY <2>1, <3>1
    <3>3. Done(n)' BY <1>1, <3>1, <3>2
    <3> QED BY <3>2, <3>3
  <2> QED BY <2>1, <2>2, <2>3, <2>4 DEF HandFits
<1>3. ASSUME NEW c \in owner' \ {d} PROVE GoesOn(c)'
  <2>1. c \in owner /\ c \in Consumers BY DEF N!ConsumerTypeOK
  <2>2. pc'[c] = pc[c] /\ hand'[c] = hand[c] /\ next'[c] = next[c] /\ next[c] \in Int
    BY <2>1 DEF N!ConsumerTypeOK, N!Offsets
  <2>3. GoesOn(c) BY <2>1
  <2>4. PICK n \in Int : n = next[c] - 1 /\ n = next'[c] - 1 BY <2>2
  <2>5. UpTo(n) => UpTo(n)' BY <1>1
  <2> QED BY <2>2, <2>3, <2>4, <2>5 DEF GoesOn
<1>4. OffsetsAreDone' BY <1>2 DEF OffsetsAreDone
<1>5. \A c \in Consumers : HandFits(c)' BY <1>2
<1>6. \A c \in owner' : GoesOn(c)' BY <1>3
<1> QED BY <1>4, <1>5, <1>6

\* A step that does not commit leaves what is committed done.
LEMMA StillCommitted ==
  ASSUME ConsumerInv, N!ConsumerTypeOK', Grows, committed' = committed PROVE UpTo(committed)'
<1>1. PICK n \in Int : n = committed /\ n = committed' BY DEF ConsumerInv, N!ConsumerTypeOK,
     N!Offsets
<1>2. UpTo(n) /\ UpTo(n)' BY <1>1, DoneStays DEF ConsumerInv, OffsetsAreDone
<1> QED BY <1>1, <1>2

LEMMA StillMarked ==
  ASSUME ConsumerInv, N!ConsumerTypeOK', Grows, NEW c \in Consumers, marked'[c] = marked[c]
  PROVE  UpTo(marked[c])'
<1>1. PICK n \in Int : n = marked[c] /\ n = marked'[c] BY DEF ConsumerInv, N!ConsumerTypeOK,
     N!Offsets
<1>2. UpTo(n) /\ UpTo(n)' BY <1>1, DoneStays DEF ConsumerInv, OffsetsAreDone
<1> QED BY <1>1, <1>2

\* Nothing is behind offset 0.
LEMMA UpToZero == ASSUME N!ConsumerTypeOK PROVE UpTo(0)
BY DEF UpTo, N!ConsumerTypeOK

LEMMA AssignKeeps == ASSUME ConsumerInv, NEW c \in Consumers, N!Assign(c) PROVE ConsumerInv'
<1> USE DEF N!Assign
<1>1. N!ConsumerTypeOK'
  <2>1. failures' \in 0..MaxFailures
    BY DEF ConsumerInv, N!ConsumerTypeOK, N!ConsumerAssumption, N!Fault, N!NoFault
  <2>2. next' \in [Consumers -> N!Offsets \ {0}]
    BY DEF ConsumerInv, N!ConsumerTypeOK, N!Offsets
  <2> QED BY <2>1, <2>2 DEF ConsumerInv, N!ConsumerTypeOK, N!topics, N!history
<1>2. Grows BY SameTopics DEF ConsumerInv
<1>3. UpTo(committed)' /\ UpTo(marked[c])' BY <1>1, <1>2, StillCommitted, StillMarked
<1>4. HandFits(c)'
  BY DEF ConsumerInv, HandFits, UpTo, Done, N!DeadLettered, N!topics, N!history
<1>5. GoesOn(c)'
  <2>1. next'[c] - 1 = committed /\ committed' = committed
    BY DEF ConsumerInv, N!ConsumerTypeOK, N!Offsets
  <2> QED BY <1>3, <2>1 DEF GoesOn, UpTo
<1>6. \A d \in Consumers \ {c} : next'[d] = next[d]
  BY DEF ConsumerInv, N!ConsumerTypeOK
<1> QED BY <1>1, <1>2, <1>3, <1>4, <1>5, <1>6, StepOf

LEMMA CommitKeeps == ASSUME ConsumerInv, NEW c \in Consumers, N!CommitMarked(c) PROVE ConsumerInv'
<1> USE DEF N!CommitMarked
<1>1. N!ConsumerTypeOK'
  BY DEF ConsumerInv, N!ConsumerTypeOK, N!topics, N!history, N!Offsets
<1>2. Grows BY SameTopics DEF ConsumerInv
<1>3. UpTo(committed)' /\ UpTo(marked[c])'
  <2>1. UpTo(marked[c]) /\ UpTo(0) BY UpToZero DEF ConsumerInv, OffsetsAreDone
  <2>2. marked[c] \in Int /\ committed' = marked[c] /\ marked'[c] = 0 BY DEF ConsumerInv,
       N!ConsumerTypeOK, N!Offsets
  <2> QED BY <2>1, <2>2 DEF UpTo, Done, N!DeadLettered, N!topics, N!history
<1>4. HandFits(c)'
  BY DEF ConsumerInv, HandFits, UpTo, Done, N!DeadLettered, N!topics, N!history
<1>5. c \in owner' => GoesOn(c)'
  BY DEF ConsumerInv, GoesOn, UpTo, Done, N!DeadLettered, N!topics, N!history
<1>6. \A d \in Consumers \ {c} : marked'[d] = marked[d]
  BY DEF ConsumerInv, N!ConsumerTypeOK
<1> QED BY <1>1, <1>2, <1>3, <1>4, <1>5, <1>6, StepOf

LEMMA FetchKeeps == ASSUME ConsumerInv, NEW c \in Consumers, N!FetchMessage(c) PROVE ConsumerInv'
<1> USE DEF N!FetchMessage
<1>1. N!ConsumerTypeOK'
  BY DEF ConsumerInv, N!ConsumerTypeOK, N!topics, N!history, N!Offsets, N!Phases, N!MaxAttempts,
     N!ConsumerAssumption
<1>2. Grows BY SameTopics DEF ConsumerInv
<1>3. UpTo(committed)' /\ UpTo(marked[c])' BY <1>1, <1>2, StillCommitted, StillMarked
<1>4. pc[c] = "fetch" /\ pc'[c] \in {"dead", "handle"}
      /\ hand'[c] = next[c] /\ next'[c] = next[c] + 1
      /\ next[c] \in Nat \ {0} /\ next[c] <= Len(log) /\ log' = log /\ Len(log) \in Nat
  BY DEF ConsumerInv, N!ConsumerTypeOK, N!Offsets, N!topics
<1>5. UpTo(next[c] - 1) BY <1>4 DEF ConsumerInv, GoesOn
<1>6. PICK n \in Int : n = next[c] - 1 /\ n = hand'[c] - 1 BY <1>4
<1>7. UpTo(n)' BY <1>1, <1>2, <1>5, <1>6, DoneStays DEF ConsumerInv
<1>8. HandFits(c)' BY <1>4, <1>6, <1>7 DEF HandFits
<1>9. GoesOn(c)' BY <1>4 DEF GoesOn
<1>10. \A d \in Consumers \ {c} : next'[d] = next[d] /\ pc'[d] = pc[d] /\ hand'[d] = hand[d]
  BY DEF ConsumerInv, N!ConsumerTypeOK
<1> QED BY <1>1, <1>2, <1>3, <1>8, <1>9, <1>10, StepOf

\* A handler ends its attempt at the message in its hands, or the dead letter is written
\* or lost: the reader is left alone.
LEMMA WorkKeeps ==
  ASSUME ConsumerInv, N!ConsumerTypeOK', Grows, NEW c \in Consumers, UNCHANGED <<N!reader, hand>>,
         pc[c] # "fetch", pc'[c] # "fetch", pc'[c] = "mark" => Done(hand[c])',
         \A d \in Consumers \ {c} : pc'[d] = pc[d]
  PROVE  ConsumerInv'
<1>1. UpTo(committed)' /\ UpTo(marked[c])' BY StillCommitted, StillMarked DEF N!reader
<1>2. hand[c] \in 1..Len(log) /\ UpTo(hand[c] - 1) /\ Len(log) \in Nat /\ Len(log') \in Nat
  BY DEF ConsumerInv, HandFits, N!ConsumerTypeOK
<1>3. PICK n \in Int : n = hand[c] - 1 /\ n = hand'[c] - 1 BY <1>2 DEF ConsumerInv
<1>4. UpTo(n)' BY <1>2, <1>3, DoneStays DEF ConsumerInv
<1>5. HandFits(c)' BY <1>2, <1>3, <1>4 DEF HandFits, Grows
<1>6. c \in owner' => GoesOn(c)'
  <2> SUFFICES ASSUME c \in owner PROVE GoesOn(c)' BY DEF N!reader
  <2>1. GoesOn(c) BY DEF ConsumerInv
  <2>2. PICK m \in Int : m = next[c] - 1 /\ m = next'[c] - 1
    BY DEF ConsumerInv, N!ConsumerTypeOK, N!Offsets, N!reader
  <2>3. UpTo(m) => UpTo(m)' BY DoneStays DEF ConsumerInv
  <2> QED BY <2>1, <2>2, <2>3 DEF GoesOn, N!reader
<1> QED BY <1>1, <1>5, <1>6, StepOf DEF N!reader

LEMMA SucceedsKeeps ==
  ASSUME ConsumerInv, NEW c \in Consumers, N!HandlerSucceeds(c) PROVE ConsumerInv'
<1> USE DEF N!HandlerSucceeds
<1>1. N!ConsumerTypeOK'
  BY DEF ConsumerInv, N!ConsumerTypeOK, N!reader, N!topics, N!Offsets, N!Phases
<1>2. Grows BY DEF Grows, N!topics, ConsumerInv, N!ConsumerTypeOK
<1>3. Done(hand[c])' BY DEF Done
<1>4. pc'[c] = "mark" /\ \A d \in Consumers \ {c} : pc'[d] = pc[d] BY DEF ConsumerInv,
     N!ConsumerTypeOK
<1> QED BY <1>1, <1>2, <1>3, <1>4, WorkKeeps

LEMMA FailsKeeps ==
  ASSUME ConsumerInv, NEW c \in Consumers, N!HandlerFails(c), N!Fault PROVE ConsumerInv'
<1> USE DEF N!HandlerFails, N!Fault
<1>1. N!ConsumerTypeOK'
  <2>1. failures' \in 0..MaxFailures BY DEF ConsumerInv, N!ConsumerTypeOK, N!ConsumerAssumption
  <2>2. attempt' \in [Consumers -> 0..N!MaxAttempts]
    <3>1. N!MaxAttempts \in Nat BY DEF ConsumerInv, N!ConsumerAssumption, N!MaxAttempts
    <3>2. CASE attempt[c] < N!MaxAttempts
      <4>1. attempt \in [Consumers -> 0..N!MaxAttempts] BY DEF ConsumerInv, N!ConsumerTypeOK
      <4>2. attempt[c] + 1 \in 0..N!MaxAttempts BY <3>1, <3>2, <4>1
      <4>3. attempt' = [attempt EXCEPT ![c] = attempt[c] + 1] BY <3>2
      <4> HIDE DEF N!HandlerFails
      <4> QED BY <4>1, <4>2, <4>3
    <3>3. CASE ~(attempt[c] < N!MaxAttempts) BY <3>3 DEF ConsumerInv, N!ConsumerTypeOK
    <3> QED BY <3>2, <3>3
  <2>3. pc' \in [Consumers -> N!Phases] BY DEF ConsumerInv, N!ConsumerTypeOK, N!Phases
  <2> QED BY <2>1, <2>2, <2>3 DEF ConsumerInv, N!ConsumerTypeOK, N!reader, N!topics, N!history
<1>2. Grows BY SameTopics DEF ConsumerInv
<1>3. pc'[c] \in {"handle", "dead"} /\ \A d \in Consumers \ {c} : pc'[d] = pc[d]
  BY DEF ConsumerInv, N!ConsumerTypeOK
<1> QED BY <1>1, <1>2, <1>3, WorkKeeps

LEMMA DLQFailsKeeps == ASSUME ConsumerInv, NEW c \in Consumers, N!DLQFails(c) PROVE ConsumerInv'
<1> USE DEF N!DLQFails, N!Fault
<1>1. N!ConsumerTypeOK'
  <2>1. failures' \in 0..MaxFailures BY DEF ConsumerInv, N!ConsumerTypeOK, N!ConsumerAssumption
  <2>2. lost' \in SUBSET N!Offsets BY DEF ConsumerInv, N!ConsumerTypeOK
  <2>3. pc' \in [Consumers -> N!Phases] BY DEF ConsumerInv, N!ConsumerTypeOK, N!Phases
  <2> QED BY <2>1, <2>2, <2>3 DEF ConsumerInv, N!ConsumerTypeOK, N!reader, N!topics
<1>2. Grows BY DEF Grows, N!topics, ConsumerInv, N!ConsumerTypeOK
<1>3. Done(hand[c])' BY DEF Done
<1>4. pc'[c] = "mark" /\ \A d \in Consumers \ {c} : pc'[d] = pc[d] BY DEF ConsumerInv,
     N!ConsumerTypeOK
<1> QED BY <1>1, <1>2, <1>3, <1>4, WorkKeeps

\* The dead letter is a copy of the message, behind it in its own topic if there is no other.
LEMMA PublishKeeps == ASSUME ConsumerInv, NEW c \in Consumers, N!PublishToDLQ(c) PROVE ConsumerInv'
<1>0. pc[c] = "dead" /\ pc' = [pc EXCEPT ![c] = "mark"]
      /\ UNCHANGED <<N!reader, N!history, hand, attempt, failures>>
  BY DEF N!PublishToDLQ
<1>1. hand[c] \in 1..Len(log) /\ log \in Seq(Nat) /\ dead \in Seq(Nat) /\ hand' = hand
  BY <1>0 DEF ConsumerInv, HandFits, N!ConsumerTypeOK
<1>2. PICK n \in 1..Len(log) : n = hand[c] /\ n = hand'[c] BY <1>1
<1>3. log[n] \in Nat BY <1>1
<1>4. CASE log' = Append(log, log[n]) /\ dead' = dead
  <2>1. log' \in Seq(Nat) /\ Len(log') = Len(log) + 1 /\ log'[Len(log) + 1] = log[n]
        /\ \A k \in 1..Len(log) : log'[k] = log[k]
    BY <1>1, <1>3, <1>4
  <2>2. N!ConsumerTypeOK' BY <1>0, <1>4, <2>1 DEF ConsumerInv, N!ConsumerTypeOK, N!reader,
       N!history, N!Phases
  <2>3. Grows BY <1>0, <1>1, <1>4, <2>1 DEF Grows, N!history
  <2>4. Done(n)'
    <3>1. Len(log) + 1 \in DOMAIN log' /\ Len(log) + 1 > n BY <1>1, <2>1
    <3> QED BY <2>1, <3>1 DEF Done, N!DeadLettered
  <2>5. pc'[c] = "mark" /\ \A d \in Consumers \ {c} : pc'[d] = pc[d] BY <1>0 DEF ConsumerInv,
       N!ConsumerTypeOK
  <2> QED BY <1>1, <1>2, <2>2, <2>3, <2>4, <2>5, <1>0, WorkKeeps
<1>5. CASE dead' = Append(dead, log[n]) /\ log' = log
  <2>1. dead' \in Seq(Nat) /\ Len(dead') = Len(dead) + 1 /\ dead'[Len(dead) + 1] = log[n]
        /\ \A k \in 1..Len(dead) : dead'[k] = dead[k]
    BY <1>1, <1>3, <1>5
  <2>2. N!ConsumerTypeOK' BY <1>0, <1>5, <2>1 DEF ConsumerInv, N!ConsumerTypeOK, N!reader,
       N!history, N!Phases
  <2>3. Grows BY <1>0, <1>1, <1>5, <2>1 DEF Grows, N!history
  <2>4. Done(n)'
    <3>1. Len(dead) + 1 \in DOMAIN dead' BY <1>1, <2>1
    <3> QED BY <1>5, <2>1, <3>1 DEF Done, N!DeadLettered
  <2>5. pc'[c] = "mark" /\ \A d \in Consumers \ {c} : pc'[d] = pc[d] BY <1>0 DEF ConsumerInv,
       N!ConsumerTypeOK
  <2> QED BY <1>1, <1>2, <2>2, <2>3, <2>4, <2>5, <1>0, WorkKeeps
<1> QED BY <1>2, <1>4, <1>5 DEF N!PublishToDLQ

\* The offset a consumer marks when it is finished with the message in its hands.
LEMMA MarkedIsDone ==
  ASSUME ConsumerInv, N!ConsumerTypeOK', Grows, hand' = hand,
         NEW c \in Consumers, pc[c] # "fetch", Done(hand[c])', NEW n, n = N!Marked(c)
  PROVE  n \in Nat /\ UpTo(n)'
<1>1. marked[c] \in Int /\ hand[c] \in 1..Len(log) /\ Len(log) \in Nat /\ Len(log') \in Nat
      /\ UpTo(marked[c]) /\ UpTo(hand[c] - 1) /\ marked[c] >= 0
  <2>1. log \in Seq(Nat) /\ log' \in Seq(Nat) /\ marked[c] \in N!Offsets
    BY DEF ConsumerInv, N!ConsumerTypeOK
  <2>2. hand[c] \in 1..Len(log) /\ UpTo(hand[c] - 1)
    BY DEF ConsumerInv, HandFits
  <2>3. UpTo(marked[c])
    BY DEF ConsumerInv, OffsetsAreDone
  <2> QED BY <2>1, <2>2, <2>3 DEF N!Offsets
<1>2. PICK m \in Int : m = marked[c] BY <1>1
<1>3. PICK h \in Int : h = hand[c] BY <1>1
<1>4. UpTo(m)' /\ UpTo(h - 1)' BY <1>1, <1>2, <1>3, DoneStays DEF ConsumerInv
<1>5. Done(h)' BY <1>3
<1>6. UpTo(h)' BY <1>1, <1>3, <1>4, <1>5 DEF UpTo, Grows
<1> QED BY <1>1, <1>2, <1>3, <1>4, <1>6 DEF N!Marked

LEMMA MarkKeeps == ASSUME ConsumerInv, NEW c \in Consumers, N!CommitMessages(c) PROVE ConsumerInv'
<1> USE DEF N!CommitMessages
<1>1. PICK n \in Nat : n = N!Marked(c) BY DEF N!Marked, ConsumerInv, N!ConsumerTypeOK, N!Offsets
<1>2. N!ConsumerTypeOK'
  BY <1>1 DEF ConsumerInv, N!ConsumerTypeOK, N!topics, N!history, N!Offsets, N!Phases
<1>3. Grows BY SameTopics DEF ConsumerInv
<1>4. Done(hand[c])' BY DEF ConsumerInv, HandFits, Done, N!DeadLettered, N!topics, N!history
<1>5. UpTo(n)' BY <1>1, <1>2, <1>3, <1>4, MarkedIsDone
<1>6. marked'[c] = n /\ pc'[c] = "fetch" BY <1>1 DEF ConsumerInv, N!ConsumerTypeOK
<1>7. UpTo(committed)' /\ UpTo(marked[c])' BY <1>2, <1>3, <1>5, <1>6, StillCommitted
<1>8. HandFits(c)' BY <1>6 DEF HandFits
<1>9. c \in owner' => GoesOn(c)'
  <2> SUFFICES ASSUME c \in owner PROVE UpTo(next[c] - 1)' BY DEF GoesOn
  <2>1. CASE UpTo(next[c] - 1)
    BY <2>1 DEF UpTo, Done, N!DeadLettered, N!topics, N!history
  <2>2. CASE next[c] = hand[c] + 1
    <3>1. hand[c] \in 1..Len(log) /\ UpTo(hand[c] - 1) /\ Done(hand[c]) /\ Len(log) \in Nat
      BY DEF ConsumerInv, HandFits, N!ConsumerTypeOK
    <3>2. UpTo(hand[c]) BY <3>1 DEF UpTo
    <3>3. next'[c] - 1 = hand[c] BY <2>2, <3>1
    <3> QED BY <3>2, <3>3 DEF UpTo, Done, N!DeadLettered, N!topics, N!history
  <2> QED BY <2>1, <2>2 DEF ConsumerInv, GoesOn
<1>10. \A d \in Consumers \ {c} : marked'[d] = marked[d] /\ pc'[d] = pc[d]
  BY DEF ConsumerInv, N!ConsumerTypeOK
<1> QED BY <1>2, <1>3, <1>7, <1>8, <1>9, <1>10, StepOf

\* The end of a process: its marks are gone, and the partition is taken from it.
LEMMA EndKeeps ==
  ASSUME ConsumerInv, N!ConsumerTypeOK', Grows, NEW c \in Consumers, UpTo(committed)',
         pc' = [pc EXCEPT ![c] = "fetch"], marked' = [marked EXCEPT ![c] = 0], owner' = owner \ {c},
         UNCHANGED <<next, hand>>
  PROVE  ConsumerInv'
<1>1. marked'[c] = 0 /\ pc'[c] = "fetch"
      /\ \A d \in Consumers \ {c} : marked'[d] = marked[d] /\ pc'[d] = pc[d]
  BY DEF ConsumerInv, N!ConsumerTypeOK
<1>2. UpTo(marked[c])' BY <1>1 DEF UpTo, N!ConsumerTypeOK
<1>3. HandFits(c)' BY <1>1 DEF HandFits
<1> QED BY <1>1, <1>2, <1>3, StepOf

LEMMA CrashKeeps == ASSUME ConsumerInv, NEW c \in Consumers, N!Crash(c) PROVE ConsumerInv'
<1> USE DEF N!Crash, N!Fault
<1>1. N!ConsumerTypeOK'
  <2>1. failures' \in 0..MaxFailures BY DEF ConsumerInv, N!ConsumerTypeOK, N!ConsumerAssumption
  <2>2. pc' \in [Consumers -> N!Phases] /\ marked' \in [Consumers -> N!Offsets]
    BY DEF ConsumerInv, N!ConsumerTypeOK, N!Phases, N!Offsets
  <2> QED BY <2>1, <2>2 DEF ConsumerInv, N!ConsumerTypeOK, N!topics, N!history
<1>2. Grows BY SameTopics DEF ConsumerInv
<1>3. UpTo(committed)' BY <1>1, <1>2, StillCommitted
<1> QED BY <1>1, <1>2, <1>3, EndKeeps

LEMMA ShutdownKeeps == ASSUME ConsumerInv, NEW c \in Consumers, N!Shutdown(c) PROVE ConsumerInv'
<1>1. /\ pc' = [pc EXCEPT ![c] = "fetch"] /\ marked' = [marked EXCEPT ![c] = 0]
      /\ owner' = owner \ {c}
      /\ UNCHANGED <<N!topics, handled, next, hand, attempt>> /\ N!Fault
  BY DEF N!Shutdown
<1>2. lost' \in SUBSET N!Offsets /\ lost \subseteq lost'
  BY DEF N!Shutdown, ConsumerInv, N!ConsumerTypeOK
<1>3. PICK n \in Nat : n = N!Marked(c) BY DEF N!Marked, ConsumerInv, N!ConsumerTypeOK, N!Offsets
<1>4. committed' \in N!Offsets BY <1>3 DEF N!Shutdown, ConsumerInv, N!ConsumerTypeOK, N!Offsets
<1>5. N!ConsumerTypeOK'
  <2>1. failures' \in 0..MaxFailures BY <1>1 DEF ConsumerInv, N!ConsumerTypeOK,
       N!ConsumerAssumption, N!Fault
  <2>2. pc' \in [Consumers -> N!Phases] /\ marked' \in [Consumers -> N!Offsets]
    BY <1>1 DEF ConsumerInv, N!ConsumerTypeOK, N!Phases, N!Offsets
  <2> QED BY <1>1, <1>2, <1>4, <2>1, <2>2 DEF ConsumerInv, N!ConsumerTypeOK, N!topics
<1>6. Grows BY <1>1, <1>2 DEF Grows, ConsumerInv, N!ConsumerTypeOK, N!topics
<1>7. CASE pc[c] \in {"handle", "dead"} /\ lost' = lost \cup {hand[c]} /\ committed' = N!Marked(c)
  <2>1. Done(hand[c])' BY <1>1, <1>7 DEF Done
  <2>2. UpTo(n)' BY <1>1, <1>3, <1>5, <1>6, <1>7, <2>1, MarkedIsDone
  <2> QED BY <1>1, <1>3, <1>5, <1>6, <1>7, <2>2, EndKeeps
<1>8. CASE pc[c] = "mark" /\ committed' = N!Marked(c) /\ lost' = lost
  <2>1. Done(hand[c])' BY <1>1, <1>8 DEF ConsumerInv, HandFits, Done, N!DeadLettered, N!topics
  <2>2. UpTo(n)' BY <1>1, <1>3, <1>5, <1>6, <1>8, <2>1, MarkedIsDone
  <2> QED BY <1>1, <1>3, <1>5, <1>6, <1>8, <2>2, EndKeeps
<1>9. CASE committed' = IF marked[c] = 0 THEN committed ELSE marked[c]
  <2>1. PICK m \in Int : m = committed' /\ UpTo(m)
    BY <1>9 DEF ConsumerInv, N!ConsumerTypeOK, OffsetsAreDone, N!Offsets
  <2>2. UpTo(m)' BY <1>5, <1>6, <2>1, DoneStays DEF ConsumerInv
  <2> QED BY <1>1, <1>5, <1>6, <2>1, <2>2, EndKeeps
<1> QED BY <1>7, <1>8, <1>9 DEF N!Shutdown

LEMMA ConsumerGoesOn == ConsumerInv /\ [N!ConsumerNext]_N!consumerVars => ConsumerInv'
<1> SUFFICES ASSUME ConsumerInv, [N!ConsumerNext]_N!consumerVars PROVE ConsumerInv' OBVIOUS
<1>1. CASE UNCHANGED N!consumerVars
  <2> USE <1>1 DEF N!consumerVars, N!reader, N!topics, N!history
  <2>1. N!ConsumerTypeOK' BY DEF ConsumerInv, N!ConsumerTypeOK
  <2>2. \A n : Done(n)' <=> Done(n) BY DEF Done, N!DeadLettered
  <2>3. \A n : UpTo(n)' <=> UpTo(n) BY <2>2 DEF UpTo
  <2>4. OffsetsAreDone' BY <2>3 DEF ConsumerInv, OffsetsAreDone
  <2>5. \A c \in Consumers : HandFits(c)' BY <2>2, <2>3 DEF ConsumerInv, HandFits
  <2>6. \A c \in owner' : GoesOn(c)' BY <2>3 DEF ConsumerInv, GoesOn
  <2> QED BY <2>1, <2>4, <2>5, <2>6 DEF ConsumerInv
<1> QED
  BY <1>1, AssignKeeps, CommitKeeps, FetchKeeps, SucceedsKeeps, FailsKeeps, DLQFailsKeeps,
     PublishKeeps,
     MarkKeeps, CrashKeeps, ShutdownKeeps DEF N!ConsumerNext, N!LoopStep, N!ReaderStep, N!FaultStep

\* Consumer.Start is at-least-once whatever its handler does and however consumers end or
\* lose the partition: behind a committed offset nothing is dropped silently.
THEOREM AtLeastOnce == N!ConsumerAssumption => (N!ConsumerSpec => []N!NothingDropped)
<1>1. ConsumerInv => N!NothingDropped BY DEF ConsumerInv, OffsetsAreDone, UpTo, N!NothingDropped,
     Done
<1> QED BY <1>1, ConsumerStarts, ConsumerGoesOn, PTL DEF N!ConsumerSpec

-----------------------------------------------------------------------------
(* The pipeline *)

\* Every step of the pipeline is a step of a consumer with some handler, or none.
LEMMA PipelineIsConsumer == [N!Next]_N!vars => [N!ConsumerNext]_N!consumerVars
<1> SUFFICES ASSUME [N!Next]_N!vars PROVE [N!ConsumerNext]_N!consumerVars OBVIOUS
<1>1. CASE UNCHANGED N!vars BY <1>1 DEF N!vars
<1>2. ASSUME NEW c \in Consumers,
             N!PipelineStep(c) \/ N!CreateJobUnanswered(c) \/ N!CallFails(c) \/ N!Ends(c)
             \/ N!LoopStep(c) \/ N!ReaderStep(c) \/ N!DLQFails(c)
      PROVE  [N!ConsumerNext]_N!consumerVars
  <2>1. \/ N!HandlerSucceeds(c) \/ UNCHANGED N!consumerVars \/ (N!HandlerFails(c) /\ N!Fault)
        \/ N!Crash(c) \/ N!Shutdown(c) \/ N!LoopStep(c) \/ N!ReaderStep(c) \/ N!DLQFails(c)
    BY <1>2 DEF N!PipelineStep, N!IsEventProcessed, N!GetJobByEventID,
       N!CheckPreferenceAndSelectChannel,
       N!CreateJob, N!RecordProcessedEvent, N!CreateJobUnanswered, N!CallFails, N!Ends, N!Return,
       N!ReturnError, N!Goto
  <2> QED BY <2>1 DEF N!ConsumerNext, N!FaultStep
<1> QED BY <1>1, <1>2 DEF N!Next

\* An event with a job keeps it.
HasJob(e) == jobs[e] # <<>>

\* The topic holds nothing but what was published and copies of it.
InTopic == \A n \in 1..Len(log) : log[n] \in N!Events

\* A handler starts at the beginning, and records an event only when its job is there.
StepsFit ==
  \A c \in Consumers :
    /\ pc[c] # "handle" => step[c] = "processed"
    /\ N!At(c, "record") => HasJob(N!Event(c))

\* What a handler succeeded for has its job.
HandledHasJob ==
  \A n \in handled : n \in 1..Len(log) /\ (log[n] \in Notifiable => HasJob(log[n]))

JobInv ==
  /\ ConsumerInv
  /\ N!TypeOK /\ N!OneJobPerEvent /\ N!ProcessedHasJob
  /\ InTopic /\ StepsFit /\ HandledHasJob

LEMMA JobInit == N!ConsumerAssumption /\ N!Init => JobInv
<1> SUFFICES ASSUME N!ConsumerAssumption, N!Init PROVE JobInv OBVIOUS
<1> USE DEF N!Init
<1>1. ConsumerInv BY ConsumerStarts
<1>2. N!TypeOK BY <1>1 DEF N!TypeOK, ConsumerInv, N!Steps
<1>3. N!OneJobPerEvent BY DEF N!OneJobPerEvent
<1>4. N!ProcessedHasJob /\ HandledHasJob /\ StepsFit
  BY DEF N!ProcessedHasJob, HandledHasJob, StepsFit, N!At, N!ConsumerInit
<1>5. InTopic BY DEF InTopic, N!Events, N!ConsumerInit, N!ConsumerAssumption
<1> QED BY <1>1, <1>2, <1>3, <1>4, <1>5 DEF JobInv

\* The message in a handler's hands is an event of the topic.
LEMMA EventInHand ==
  ASSUME JobInv, NEW c \in Consumers, pc[c] # "fetch"
  PROVE  hand[c] \in 1..Len(log) /\ N!Event(c) \in N!Events
BY DEF JobInv, ConsumerInv, HandFits, InTopic, N!Event

\* Every offset and step other than those of d, when the step keeps jobs.
LEMMA JobStep ==
  ASSUME JobInv, ConsumerInv', Grows, InTopic', NEW d \in Consumers,
         jobs' \in [N!Events -> Seq(N!JobStatuses)], N!OneJobPerEvent',
         \A e \in N!Events : HasJob(e) => HasJob(e)',
         processed' \subseteq N!Events, N!ProcessedHasJob',
         step' \in [Consumers -> N!Steps],
         \A c \in Consumers \ {d} : pc'[c] = pc[c] /\ hand'[c] = hand[c] /\ step'[c] = step[c],
         pc'[d] # "handle" => step'[d] = "processed",
         N!At(d, "record")' => HasJob(N!Event(d))',
         HandledHasJob'
  PROVE  JobInv'
<1>1. N!TypeOK' BY DEF N!TypeOK, ConsumerInv
<1>2. ASSUME NEW c \in Consumers \ {d}
      PROVE  (pc'[c] # "handle" => step'[c] = "processed") /\ (N!At(c,
      "record")' => HasJob(N!Event(c))')
  <2>1. pc'[c] = pc[c] /\ hand'[c] = hand[c] /\ step'[c] = step[c] OBVIOUS
  <2>2. pc[c] # "handle" => step[c] = "processed" BY DEF JobInv, StepsFit
  <2>3. ASSUME N!At(c, "record")' PROVE HasJob(N!Event(c))'
    <3>1. N!At(c, "record") /\ pc[c] # "fetch" BY <2>1, <2>3 DEF N!At
    <3>2. hand[c] \in 1..Len(log) /\ N!Event(c) \in N!Events BY <3>1, EventInHand
    <3>3. PICK e \in N!Events : e = N!Event(c) /\ e = log'[hand'[c]] BY <2>1, <3>2 DEF Grows,
         N!Event
    <3>4. HasJob(e)' BY <3>1, <3>3 DEF JobInv, StepsFit
    <3> QED BY <3>3, <3>4 DEF N!Event, HasJob
  <2> QED BY <2>1, <2>2, <2>3
<1>3. StepsFit' BY <1>2 DEF StepsFit
<1> QED BY <1>1, <1>3 DEF JobInv

\* What was handled keeps its job.
LEMMA StillHandled ==
  ASSUME JobInv, ConsumerInv', Grows, \A e \in N!Events : HasJob(e) => HasJob(e)',
         NEW n \in handled
  PROVE  n \in 1..Len(log') /\ (log'[n] \in Notifiable => HasJob(log[n])')
<1>1. n \in 1..Len(log) /\ log[n] \in N!Events /\ log'[n] = log[n]
      /\ (log[n] \in Notifiable => HasJob(log[n]))
  BY DEF JobInv, HandledHasJob, InTopic, Grows
<1>2. PICK e \in N!Events : e = log[n] /\ e = log'[n] BY <1>1
<1>3. e \in Notifiable => HasJob(e)' BY <1>1, <1>2
<1>4. Len(log) \in Nat /\ Len(log') \in Nat BY DEF JobInv, ConsumerInv, N!ConsumerTypeOK
<1> QED BY <1>1, <1>2, <1>3, <1>4 DEF Grows, HasJob

\* What a step may do to the two tables.
JobsGoOn ==
  /\ jobs' \in [N!Events -> Seq(N!JobStatuses)] /\ N!OneJobPerEvent'
  /\ \A e \in N!Events : HasJob(e) => HasJob(e)'
  /\ processed' \subseteq N!Events /\ N!ProcessedHasJob'

LEMMA SameJobs == ASSUME JobInv, UNCHANGED <<jobs, processed>> PROVE JobsGoOn
BY DEF JobInv, N!TypeOK, JobsGoOn, N!OneJobPerEvent, N!ProcessedHasJob, HasJob

LEMMA SameHandled ==
  ASSUME JobInv, ConsumerInv', Grows, JobsGoOn, handled' = handled PROVE HandledHasJob'
BY StillHandled DEF HandledHasJob, JobsGoOn, HasJob

LEMMA GotoKeeps ==
  ASSUME JobInv, ConsumerInv', JobsGoOn, NEW c \in Consumers, pc[c] = "handle",
         NEW s \in N!Steps, N!Goto(c, s), s = "record" => HasJob(N!Event(c))'
  PROVE  JobInv'
<1> USE DEF N!Goto, N!consumerVars, N!topics, N!history
<1>1. Grows BY SameTopics DEF JobInv, ConsumerInv
<1>2. InTopic' BY DEF JobInv, InTopic
<1>3. HandledHasJob' BY <1>1, SameHandled
<1>4. /\ step' \in [Consumers -> N!Steps] /\ step'[c] = s
      /\ \A d \in Consumers \ {c} : step'[d] = step[d]
  BY DEF JobInv, N!TypeOK
<1>5. N!At(c, "record")' => HasJob(N!Event(c))' BY <1>4 DEF N!At
<1> QED BY <1>1, <1>2, <1>3, <1>4, <1>5, JobStep DEF JobsGoOn

LEMMA ReturnKeeps ==
  ASSUME JobInv, ConsumerInv', JobsGoOn, NEW c \in Consumers, N!Return(c),
         N!Event(c) \in Notifiable => HasJob(N!Event(c))'
  PROVE  JobInv'
<1> USE DEF N!Return, N!HandlerSucceeds, N!topics
<1>1. Grows BY DEF Grows, JobInv, ConsumerInv, N!ConsumerTypeOK
<1>2. InTopic' BY DEF JobInv, InTopic
<1>3. HandledHasJob'
  <2>1. hand[c] \in 1..Len(log) BY EventInHand
  <2>2. ASSUME NEW n \in handled
        PROVE  n \in 1..Len(log') /\ (log'[n] \in Notifiable => HasJob(log[n])')
    BY <1>1, StillHandled DEF JobsGoOn
  <2>3. PICK h \in 1..Len(log) : h = hand[c] BY <2>1
  <2>4. h \in 1..Len(log') /\ (log'[h] \in Notifiable => HasJob(log[h])') BY <2>3 DEF N!Event,
       HasJob
  <2>5. handled' = handled \cup {h} BY <2>3
  <2> HIDE DEF N!Return
  <2> QED BY <2>2, <2>4, <2>5 DEF HandledHasJob, HasJob
<1>4. /\ step' \in [Consumers -> N!Steps] /\ step'[c] = "processed" /\ pc'[c] = "mark"
      /\ \A d \in Consumers \ {c} : step'[d] = step[d] /\ pc'[d] = pc[d] /\ hand'[d] = hand[d]
  BY DEF JobInv, N!TypeOK, N!ConsumerTypeOK, N!Steps
<1>5. ~N!At(c, "record")' BY <1>4 DEF N!At
<1> QED BY <1>1, <1>2, <1>3, <1>4, <1>5, JobStep DEF JobsGoOn

\* A handler that fails, and the steps of the consumer around it: the pipeline starts again.
LEMMA RestartKeeps ==
  ASSUME JobInv, ConsumerInv', JobsGoOn, Grows, InTopic', handled' = handled, NEW c \in Consumers,
         step' = [step EXCEPT ![c] = "processed"],
         \A d \in Consumers \ {c} : pc'[d] = pc[d] /\ hand'[d] = hand[d]
  PROVE  JobInv'
<1>1. HandledHasJob' BY SameHandled
<1>2. /\ step' \in [Consumers -> N!Steps] /\ step'[c] = "processed"
      /\ \A d \in Consumers \ {c} : step'[d] = step[d]
  BY DEF JobInv, N!TypeOK, N!Steps
<1>3. ~N!At(c, "record")' BY <1>2 DEF N!At
<1> QED BY <1>1, <1>2, <1>3, JobStep DEF JobsGoOn

LEMMA ErrorKeeps ==
  ASSUME JobInv, ConsumerInv', JobsGoOn, NEW c \in Consumers, N!ReturnError(c) PROVE JobInv'
<1> USE DEF N!ReturnError, N!HandlerFails, N!topics, N!history
<1>1. Grows BY SameTopics DEF JobInv, ConsumerInv
<1>2. InTopic' BY DEF JobInv, InTopic
<1>3. \A d \in Consumers \ {c} : pc'[d] = pc[d] /\ hand'[d] = hand[d]
  BY DEF JobInv, N!TypeOK, N!ConsumerTypeOK
<1> QED BY <1>1, <1>2, <1>3, RestartKeeps

\* The insert, under the UNIQUE event_id.
LEMMA InsertGoesOn ==
  ASSUME JobInv, NEW e \in N!Events, jobs' = [jobs EXCEPT ![e] = N!Inserted(e)], UNCHANGED processed
  PROVE  JobsGoOn /\ HasJob(e)'
<1>1. jobs \in [N!Events -> Seq(N!JobStatuses)] /\ Len(jobs[e]) <= 1 BY DEF JobInv, N!TypeOK,
     N!OneJobPerEvent
<1>2. <<N!JobStatus(e)>> \in Seq(N!JobStatuses) /\ Len(<<N!JobStatus(e)>>) = 1
      /\ <<N!JobStatus(e)>> # <<>>
  BY DEF N!JobStatus, N!JobStatuses
<1>3. N!Inserted(e) \in Seq(N!JobStatuses) /\ Len(N!Inserted(e)) <= 1 /\ N!Inserted(e) # <<>>
  BY <1>1, <1>2 DEF N!Inserted
<1>4. jobs' \in [N!Events -> Seq(N!JobStatuses)] /\ jobs'[e] = N!Inserted(e)
      /\ \A f \in N!Events \ {e} : jobs'[f] = jobs[f]
  BY <1>1, <1>3
<1>5. N!OneJobPerEvent' BY <1>3, <1>4 DEF JobInv, N!OneJobPerEvent
<1>6. \A f \in N!Events : HasJob(f) => HasJob(f)' BY <1>3, <1>4 DEF HasJob
<1>7. processed' \subseteq N!Events BY DEF JobInv, N!TypeOK
<1>8. N!ProcessedHasJob' BY <1>3, <1>4, <1>7 DEF JobInv, N!ProcessedHasJob
<1> QED BY <1>3, <1>4, <1>5, <1>6, <1>7, <1>8 DEF JobsGoOn, HasJob

LEMMA LookupKeeps ==
  ASSUME JobInv, ConsumerInv', NEW c \in Consumers,
         N!IsEventProcessed(c) \/ N!GetJobByEventID(c) \/ N!CheckPreferenceAndSelectChannel(c)
  PROVE  JobInv'
<1>1. pc[c] = "handle" /\ UNCHANGED <<jobs, processed>>
  BY DEF N!IsEventProcessed, N!GetJobByEventID, N!CheckPreferenceAndSelectChannel, N!At
<1>2. JobsGoOn BY <1>1, SameJobs
<1>3. ASSUME N!Goto(c, "record"), jobs[N!Event(c)] # <<>> PROVE HasJob(N!Event(c))'
  BY <1>1, <1>3 DEF N!Goto, N!consumerVars, N!topics, HasJob, N!Event
<1>4. ASSUME N!Return(c), N!Event(c) \in Notifiable => jobs[N!Event(c)] # <<>> PROVE JobInv'
  <2>1. N!Event(c) \in Notifiable => HasJob(N!Event(c))'
    BY <1>1, <1>4 DEF HasJob, N!Event, N!Return, N!HandlerSucceeds, N!topics
  <2> QED BY <1>2, <1>4, <2>1, ReturnKeeps
<1>5. CASE N!IsEventProcessed(c)
  <2>1. N!Event(c) \in processed => jobs[N!Event(c)] # <<>> BY DEF JobInv, N!ProcessedHasJob
  <2> QED BY <1>1, <1>2, <1>4, <1>5, <2>1, GotoKeeps DEF N!IsEventProcessed, N!Steps
<1>6. CASE N!GetJobByEventID(c)
  BY <1>1, <1>2, <1>3, <1>4, <1>6, GotoKeeps DEF N!GetJobByEventID, N!Steps
<1>7. CASE N!CheckPreferenceAndSelectChannel(c)
  BY <1>1, <1>2, <1>7, GotoKeeps DEF N!CheckPreferenceAndSelectChannel, N!Steps
<1> QED BY <1>5, <1>6, <1>7

LEMMA CreateKeeps ==
  ASSUME JobInv, ConsumerInv', NEW c \in Consumers, N!CreateJob(c) \/ N!CreateJobUnanswered(c)
  PROVE  JobInv'
<1>1. pc[c] = "handle" /\ UNCHANGED processed
      /\ jobs' = [jobs EXCEPT ![N!Event(c)] = N!Inserted(N!Event(c))]
  BY DEF N!CreateJob, N!CreateJobUnanswered, N!At
<1>2. PICK e \in N!Events : e = N!Event(c) BY <1>1, EventInHand
<1>3. JobsGoOn /\ HasJob(e)' BY <1>1, <1>2, InsertGoesOn
<1>4. CASE N!Return(c)
  <2>1. e = log'[hand'[c]] BY <1>2, <1>4 DEF N!Event, N!Return, N!HandlerSucceeds, N!topics
  <2>2. HasJob(N!Event(c))' BY <1>3, <2>1 DEF N!Event, HasJob
  <2> QED BY <1>3, <1>4, <2>2, ReturnKeeps
<1>5. CASE N!Goto(c, "record")
  <2>1. e = log'[hand'[c]] BY <1>2, <1>5 DEF N!Event, N!Goto, N!consumerVars, N!topics
  <2>2. HasJob(N!Event(c))' BY <1>3, <2>1 DEF N!Event, HasJob
  <2> QED BY <1>1, <1>3, <1>5, <2>2, GotoKeeps DEF N!Steps
<1>6. CASE N!ReturnError(c) BY <1>3, <1>6, ErrorKeeps
<1> QED BY <1>4, <1>5, <1>6 DEF N!CreateJob, N!CreateJobUnanswered

LEMMA RecordKeeps ==
  ASSUME JobInv, ConsumerInv', NEW c \in Consumers, N!RecordProcessedEvent(c) PROVE JobInv'
<1> USE DEF N!RecordProcessedEvent
<1>1. PICK e \in N!Events : e = N!Event(c) BY EventInHand DEF N!At
<1>2. HasJob(e) BY <1>1 DEF JobInv, StepsFit
<1>3. JobsGoOn
  BY <1>1, <1>2 DEF JobsGoOn, JobInv, N!TypeOK, N!OneJobPerEvent, N!ProcessedHasJob, HasJob
<1>4. HasJob(N!Event(c))'
  BY <1>1, <1>2 DEF HasJob, N!Event, N!Return, N!HandlerSucceeds, N!topics
<1> QED BY <1>3, <1>4, ReturnKeeps

LEMMA EndsKeep ==
  ASSUME JobInv, ConsumerInv', NEW c \in Consumers, N!Ends(c), UNCHANGED <<jobs, processed>>
  PROVE  JobInv'
<1>1. /\ UNCHANGED <<N!topics, handled, hand>> /\ pc' = [pc EXCEPT ![c] = "fetch"]
      /\ lost \subseteq lost' /\ step' = [step EXCEPT ![c] = "processed"]
  BY DEF N!Ends, N!Crash, N!Shutdown, N!history
<1>2. Grows BY <1>1 DEF Grows, N!topics, JobInv, ConsumerInv, N!ConsumerTypeOK
<1>3. InTopic' BY <1>1 DEF JobInv, InTopic, N!topics
<1>4. \A d \in Consumers \ {c} : pc'[d] = pc[d] BY <1>1 DEF JobInv, N!TypeOK, N!ConsumerTypeOK
<1> QED BY <1>1, <1>2, <1>3, <1>4, SameJobs, RestartKeeps

\* A step of the loop or the reader leaves the pipeline of its consumer where it is: the
\* beginning, unless the message stays in the handler's hands.
LEMMA LoopKeeps ==
  ASSUME JobInv, ConsumerInv', NEW c \in Consumers,
         N!LoopStep(c) \/ N!ReaderStep(c) \/ N!DLQFails(c),
         UNCHANGED <<jobs, processed, step>>
  PROVE  JobInv'
<1>1. JobsGoOn BY SameJobs
<1>2. CASE N!ReaderStep(c)
  <2> USE <1>2 DEF N!ReaderStep, N!Assign, N!CommitMarked, N!topics, N!history
  <2>1. UNCHANGED <<N!topics, N!history, pc, hand>> OBVIOUS
  <2>2. Grows BY <2>1, SameTopics DEF JobInv, ConsumerInv
  <2>3. InTopic' BY <2>1 DEF JobInv, InTopic
  <2>4. HandledHasJob' BY <1>1, <2>1, <2>2, SameHandled
  <2>5. (N!At(c, "record")' => HasJob(N!Event(c))') /\ (pc'[c] # "handle" => step'[c] = "processed")
    BY <2>1 DEF JobInv, StepsFit, N!At, HasJob, N!Event
  <2>6. step' \in [Consumers -> N!Steps] BY DEF JobInv, N!TypeOK
  <2> HIDE <1>2
  <2> QED BY <1>1, <2>1, <2>2, <2>3, <2>4, <2>5, <2>6, JobStep DEF JobsGoOn
<1>3. CASE N!LoopStep(c) \/ N!DLQFails(c)
  <2>1. /\ pc[c] # "handle" /\ handled' = handled /\ lost \subseteq lost'
        /\ \A d \in Consumers \ {c} : pc'[d] = pc[d] /\ hand'[d] = hand[d]
    BY <1>3 DEF N!LoopStep, N!FetchMessage, N!PublishToDLQ, N!CommitMessages, N!DLQFails,
       N!history, JobInv,
       N!TypeOK, N!ConsumerTypeOK
  <2>2. step' = [step EXCEPT ![c] = "processed"]
    BY <2>1 DEF JobInv, StepsFit, N!TypeOK
  <2>3. Grows /\ InTopic'
    <3>1. CASE UNCHANGED N!topics
      BY <2>1, <3>1 DEF Grows, N!topics, JobInv, ConsumerInv, N!ConsumerTypeOK, InTopic
    <3>2. CASE N!PublishToDLQ(c)
      <4>1. PICK n \in 1..Len(log) : n = hand[c] BY <3>2, EventInHand DEF N!PublishToDLQ
      <4>2. log[n] \in N!Events /\ log[n] \in Nat /\ log \in Seq(Nat) /\ dead \in Seq(Nat)
        BY <4>1 DEF JobInv, InTopic, ConsumerInv, N!ConsumerTypeOK
      <4>3. CASE log' = Append(log, log[n]) /\ dead' = dead
        <5>1. Len(log') = Len(log) + 1 /\ log'[Len(log) + 1] = log[n]
              /\ \A k \in 1..Len(log) : log'[k] = log[k]
          BY <4>2, <4>3
        <5>2. Grows BY <2>1, <4>2, <4>3, <5>1 DEF Grows
        <5>3. \A k \in 1..Len(log) : log[k] \in N!Events BY DEF JobInv, InTopic
        <5> QED BY <4>2, <5>1, <5>2, <5>3 DEF InTopic
      <4>4. CASE dead' = Append(dead, log[n]) /\ log' = log
        <5>1. Len(dead') = Len(dead) + 1 /\ \A k \in 1..Len(dead) : dead'[k] = dead[k] BY <4>2, <4>4
        <5>2. InTopic' BY <4>4 DEF JobInv, InTopic
        <5> QED BY <2>1, <4>2, <4>4, <5>1, <5>2 DEF Grows
      <4> QED BY <3>2, <4>1, <4>3, <4>4 DEF N!PublishToDLQ
    <3> QED BY <1>3, <3>1, <3>2 DEF N!LoopStep, N!FetchMessage, N!CommitMessages, N!DLQFails
  <2> QED BY <1>1, <2>1, <2>2, <2>3, RestartKeeps
<1> QED BY <1>2, <1>3

LEMMA JobNext == JobInv /\ [N!Next]_N!vars => JobInv'
<1> SUFFICES ASSUME JobInv, [N!Next]_N!vars PROVE JobInv' OBVIOUS
<1>1. ConsumerInv' BY PipelineIsConsumer, ConsumerGoesOn DEF JobInv
<1>2. CASE UNCHANGED N!vars
  BY <1>1, <1>2 DEF N!vars, N!consumerVars, N!topics, N!history, JobInv, N!TypeOK, ConsumerInv,
     N!OneJobPerEvent,
     N!ProcessedHasJob, InTopic, StepsFit, HandledHasJob, HasJob, N!At, N!Event
<1>3. ASSUME NEW c \in Consumers, N!CallFails(c) PROVE JobInv'
  BY <1>1, <1>3, SameJobs, ErrorKeeps DEF N!CallFails
<1> QED
  BY <1>1, <1>2, <1>3, LookupKeeps, CreateKeeps, RecordKeeps, EndsKeep, LoopKeeps DEF N!Next,
     N!PipelineStep

\* The pipeline implements the consumers' specification: ProcessEvent is a handler that
\* succeeds or fails, and steps that the loop of Start does not see.
THEOREM PipelineImplementsConsumer == N!Spec => N!ConsumerSpec
<1>1. N!Init => N!ConsumerInit BY DEF N!Init
<1> QED BY <1>1, PipelineIsConsumer, PTL DEF N!Spec, N!ConsumerSpec

\* Jobs and processed_events agree, however often and in however many hands an event is.
THEOREM JobsAreRightAlways == N!ConsumerAssumption => (N!Spec => []N!JobsAreRight)
<1>1. JobInv => N!JobsAreRight BY DEF JobInv, N!JobsAreRight
<1> QED BY <1>1, JobInit, JobNext, PTL DEF N!Spec

\* Behind a committed offset there is a job, a dead letter, or a dead letter that failed.
THEOREM AcknowledgedIsDoneAlways == N!ConsumerAssumption => (N!Spec => []N!AcknowledgedIsDone)
<1>1. JobInv => N!AcknowledgedIsDone
  <2> SUFFICES ASSUME JobInv PROVE N!AcknowledgedIsDone OBVIOUS
  <2>1. N!NothingDropped BY DEF JobInv, ConsumerInv, OffsetsAreDone, UpTo, N!NothingDropped, Done
  <2> QED BY <2>1 DEF JobInv, HandledHasJob, HasJob, N!AcknowledgedIsDone, N!AcknowledgedIsNotified,
                      N!NothingDropped
<1> QED BY <1>1, JobInit, JobNext, PTL DEF N!Spec
=============================================================================
