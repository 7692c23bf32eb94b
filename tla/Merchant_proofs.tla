--------------------------- MODULE Merchant_proofs ---------------------------
(***************************************************************************)
(* Proofs about merchant-service, for any number of concurrent requests,   *)
(* changes, appeals and faults: the audit trail, the status and the events *)
(* tell one story, no appeal readmits, and a deleted merchant stays so.    *)
(***************************************************************************)
EXTENDS Merchant, TLAPS

-----------------------------------------------------------------------------
(* The inductive invariant *)

\* Only a merchant that was registered is deleted, so its id is never free again.
DeletedExists == deleted => status # "NONE"

Inv ==
  /\ TypeOK
  /\ AuditIsChain
  /\ StandingIsTold
  /\ OnlyAdminsReadmit
  /\ DeletedExists

-----------------------------------------------------------------------------
(* Sequences of words *)

\* What one more word changes.
LEMMA LastInAppend ==
  ASSUME NEW n \in Nat, NEW s, DOMAIN s = 1..n, NEW t, DOMAIN t = 1..(n + 1), NEW e,
         \A i \in 1..n : t[i] = s[i], t[n + 1] = e, NEW good, NEW bad
  PROVE  LastIn(t, good, bad) <=> e \in good \/ (e \notin bad /\ LastIn(s, good, bad))
<1>1. ASSUME LastIn(t, good, bad), e \notin good PROVE e \notin bad /\ LastIn(s, good, bad)
  <2>1. PICK i \in 1..(n + 1) : t[i] \in good /\ \A j \in 1..(n + 1) : j > i => t[j] \notin bad
    BY <1>1 DEF LastIn
  <2>2. i \in 1..n /\ n + 1 > i /\ n + 1 \in 1..(n + 1) BY <1>1, <2>1
  <2>3. e \notin bad BY <2>1, <2>2
  <2>4. \A j \in 1..n : j \in 1..(n + 1) OBVIOUS
  <2>5. s[i] \in good /\ \A j \in 1..n : j > i => s[j] \notin bad BY <2>1, <2>2, <2>4
  <2> QED BY <2>2, <2>3, <2>5 DEF LastIn
<1>2. ASSUME e \in good PROVE LastIn(t, good, bad)
  <2>1. n + 1 \in DOMAIN t /\ \A j \in 1..(n + 1) : ~(j > n + 1) OBVIOUS
  <2> QED BY <1>2, <2>1 DEF LastIn
<1>3. ASSUME e \notin bad, LastIn(s, good, bad) PROVE LastIn(t, good, bad)
  <2>1. PICK i \in 1..n : s[i] \in good /\ \A j \in 1..n : j > i => s[j] \notin bad
    BY <1>3 DEF LastIn
  <2>2. i \in 1..(n + 1) /\ t[i] \in good BY <2>1
  <2>3. ASSUME NEW j \in 1..(n + 1), j > i PROVE t[j] \notin bad
    <3>1. j = n + 1 \/ j \in 1..n OBVIOUS
    <3> QED BY <1>3, <2>1, <2>3, <3>1
  <2> QED BY <2>2, <2>3 DEF LastIn
<1> QED BY <1>1, <1>2, <1>3

\* The facts about Append used here.
LEMMA AppendFacts ==
  ASSUME NEW S, NEW s \in Seq(S), NEW e \in S
  PROVE  /\ Append(s, e) \in Seq(S) /\ Len(s) \in Nat
         /\ DOMAIN s = 1..Len(s) /\ DOMAIN Append(s, e) = 1..(Len(s) + 1)
         /\ Len(Append(s, e)) = Len(s) + 1
         /\ \A i \in 1..Len(s) : Append(s, e)[i] = s[i]
         /\ Append(s, e)[Len(s) + 1] = e
         /\ Append(s, e) # <<>>
OBVIOUS

LEMMA LastInAppended ==
  ASSUME NEW S, NEW s \in Seq(S), NEW e \in S, NEW good, NEW bad
  PROVE  LastIn(Append(s, e), good, bad) <=> e \in good \/ (e \notin bad /\ LastIn(s, good, bad))
<1> DEFINE t == Append(s, e)
           n == Len(s)
<1>1. /\ n \in Nat /\ DOMAIN s = 1..n /\ DOMAIN t = 1..(n + 1)
      /\ \A i \in 1..n : t[i] = s[i]
      /\ t[n + 1] = e
  BY AppendFacts
<1> HIDE DEF t, n
<1>2. LastIn(t, good, bad) <=> e \in good \/ (e \notin bad /\ LastIn(s, good, bad))
  BY <1>1, LastInAppend
<1> QED BY <1>2 DEF t

-----------------------------------------------------------------------------
(* The transaction of a change of status *)

Events == {"registered", "activated", "suspended"}
Record == [by : {"ADMIN", "MERCHANT"}, from : Statuses, to : Statuses]
In == {"ACTIVE", "APPROVED"}

\* The event of a change says whether the merchant is let in or shut out by it.
LEMMA Announced ==
  ASSUME NEW to \in Statuses, outbox \in Seq(Events)
  PROVE  LET said == outbox \o Announcement(to) IN
         /\ said \in Seq(Events)
         /\ LastIn(said, {"activated"}, {"suspended"})
              <=> to \in In \/ (to # "SUSPENDED" /\ LastIn(outbox, {"activated"}, {"suspended"}))
         /\ LastIn(said, {"suspended"}, {"activated"})
              <=> to = "SUSPENDED" \/ (to \notin In /\ LastIn(outbox, {"suspended"}, {"activated"}))
<1>1. CASE to \in In
  <2>1. "activated" \in Events BY DEF Events
  <2>2. Announcement(to) = <<"activated">> BY <1>1 DEF Announcement, In
  <2>3. outbox \o Announcement(to) = Append(outbox, "activated") BY <2>1, <2>2
  <2>4. Append(outbox, "activated") \in Seq(Events) BY <2>1
  <2>5. /\ LastIn(Append(outbox, "activated"), {"activated"}, {"suspended"})
        /\ ~LastIn(Append(outbox, "activated"), {"suspended"}, {"activated"})
    BY <2>1, LastInAppended
  <2> QED BY <1>1, <2>3, <2>4, <2>5 DEF In
<1>2. CASE to = "SUSPENDED"
  <2>1. "suspended" \in Events BY DEF Events
  <2>2. Announcement(to) = <<"suspended">> BY <1>2 DEF Announcement
  <2>3. outbox \o Announcement(to) = Append(outbox, "suspended") BY <2>1, <2>2
  <2>4. Append(outbox, "suspended") \in Seq(Events) BY <2>1
  <2>5. /\ LastIn(Append(outbox, "suspended"), {"suspended"}, {"activated"})
        /\ ~LastIn(Append(outbox, "suspended"), {"activated"}, {"suspended"})
    BY <2>1, LastInAppended
  <2> QED BY <1>2, <2>3, <2>4, <2>5 DEF In
<1>3. CASE to \notin In \cup {"SUSPENDED"}
  <2>1. Announcement(to) = <<>> BY <1>3 DEF Announcement, In
  <2>2. outbox \o Announcement(to) = outbox BY <2>1
  <2> QED BY <1>3, <2>2
<1> QED BY <1>1, <1>2, <1>3

Trail(records) == [i \in DOMAIN records |-> records[i].to]

\* What a record adds to the trail.
LEMMA Trailed ==
  ASSUME NEW a \in Seq(Record), NEW r \in Record, NEW good, NEW bad
  PROVE  LastIn(Trail(Append(a, r)), good, bad)
           <=> r.to \in good \/ (r.to \notin bad /\ LastIn(Trail(a), good, bad))
<1> DEFINE s == Trail(a)
           t == Trail(Append(a, r))
           n == Len(a)
<1>1. /\ n \in Nat /\ DOMAIN a = 1..n /\ DOMAIN Append(a, r) = 1..(n + 1)
      /\ \A i \in 1..n : Append(a, r)[i] = a[i]
      /\ Append(a, r)[n + 1] = r
  BY AppendFacts
<1>2. DOMAIN s = 1..n /\ DOMAIN t = 1..(n + 1) BY <1>1 DEF Trail
<1>3. \A i \in 1..n : t[i] = s[i]
  <2> SUFFICES ASSUME NEW i \in 1..n PROVE t[i] = s[i] OBVIOUS
  <2>1. i \in 1..(n + 1) BY <1>1
  <2> QED BY <1>1, <2>1 DEF Trail
<1>4. t[n + 1] = r.to BY <1>1 DEF Trail
<1> HIDE DEF s, t, n
<1>5. LastIn(t, good, bad) <=> r.to \in good \/ (r.to \notin bad /\ LastIn(s, good, bad))
  BY <1>1, <1>2, <1>3, <1>4, LastInAppend
<1> QED BY <1>5 DEF s, t

\* The tables, without the requests.
TablesOK ==
  /\ status \in Statuses \cup {"NONE"} /\ deleted \in BOOLEAN
  /\ audit \in Seq(Record)
  /\ appeals \in Seq({"PENDING", "APPROVED", "REJECTED"})
  /\ outbox \in Seq(Events)

Tables == TablesOK /\ AuditIsChain /\ StandingIsTold /\ OnlyAdminsReadmit /\ DeletedExists

CallsOK ==
  /\ call \in [Procs -> {"idle", "create", "recording", "appeal", "filed"}]
  /\ \A p \in Procs : p \in holder <=> call[p] = "recording"
  /\ \A p, q \in holder : p = q

LEMMA InvParts == Inv <=> Tables /\ CallsOK
BY DEF Inv, TypeOK, Tables, TablesOK, CallsOK, Record, Events

\* A change that is allowed is told, recorded and continues the chain.
LEMMA CommitTables ==
  ASSUME Tables, Live, NEW by \in {"ADMIN", "MERCHANT"}, NEW to \in Statuses,
         Commit(by, status, to),
         by = "MERCHANT" => status = "SUSPENDED" /\ to = "PENDING",
         status \notin {"REJECTED", "TERMINATED"}
  PROVE  Tables'
<1> DEFINE r == [by |-> by, from |-> status, to |-> to]
           n == Len(audit)
<1>1. status \in Statuses /\ r \in Record BY DEF Tables, TablesOK, Live, Record
<1>2. /\ status' = to /\ audit' = Append(audit, r) /\ appeals' = Decided(to)
      /\ outbox' = outbox \o Announcement(to) /\ deleted' = deleted
  BY DEF Commit
<1>3. r.by = by /\ r.from = status /\ r.to = to OBVIOUS
<1> HIDE DEF r
<1>4. /\ n \in Nat /\ DOMAIN audit = 1..n /\ DOMAIN audit' = 1..(n + 1) /\ Len(audit') = n + 1
      /\ \A i \in 1..n : audit'[i] = audit[i]
      /\ audit'[n + 1] = r /\ audit' # <<>> /\ audit' \in Seq(Record)
  BY <1>1, <1>2, AppendFacts DEF Tables, TablesOK
<1>5. appeals' \in Seq({"PENDING", "APPROVED", "REJECTED"})
  <2>1. appeals \in Seq({"PENDING", "APPROVED", "REJECTED"}) BY DEF Tables, TablesOK
  <2>2. Len(appeals) \in Nat /\ DOMAIN appeals = 1..Len(appeals) BY <2>1
  <2>3. \A i \in 1..Len(appeals) : appeals[i] \in {"PENDING", "APPROVED", "REJECTED"} BY <2>1
  <2> DEFINE new(i) == IF appeals[i] # "PENDING" THEN appeals[i]
                       ELSE CASE to \in {"REJECTED", "SUSPENDED"} -> "REJECTED"
                              [] to \in {"APPROVED", "ACTIVE"} -> "APPROVED"
                              [] OTHER -> "PENDING"
  <2>4. \A i \in 1..Len(appeals) : new(i) \in {"PENDING", "APPROVED", "REJECTED"} BY <2>3
  <2>5. appeals' = [i \in 1..Len(appeals) |-> new(i)] BY <1>2, <2>2 DEF Decided
  <2> HIDE DEF new
  <2> QED BY <2>2, <2>4, <2>5
<1>6. TablesOK' BY <1>2, <1>4, <1>5, Announced DEF Tables, TablesOK
<1>7. AuditIsChain'
  <2>1. audit = <<>> => status = "PENDING" BY <1>1 DEF Tables, AuditIsChain, Statuses, Live
  <2>2. ASSUME NEW i \in 1..(n + 1)
        PROVE  audit'[i].from = IF i = 1 THEN "PENDING" ELSE audit'[i - 1].to
    <3>1. CASE i \in 1..n
      <4>1. audit'[i] = audit[i] /\ (i # 1 => i - 1 \in 1..n /\ audit'[i - 1] = audit[i - 1])
        BY <1>4, <3>1
      <4> QED BY <1>4, <3>1, <4>1 DEF Tables, AuditIsChain
    <3>2. CASE i = n + 1 /\ n = 0
      <4>1. audit = <<>> BY <3>2 DEF Tables, TablesOK
      <4> QED BY <1>3, <1>4, <2>1, <3>2, <4>1
    <3>3. CASE i = n + 1 /\ n # 0
      <4>1. audit # <<>> BY <3>3
      <4>2. audit[n].to = status BY <4>1 DEF Tables, AuditIsChain
      <4>3. i # 1 /\ i - 1 = n /\ n \in 1..n BY <1>4, <3>3
      <4>4. audit'[i - 1].to = status BY <1>4, <4>2, <4>3
      <4> QED BY <1>3, <1>4, <3>3, <4>3, <4>4
    <3> QED BY <1>4, <3>1, <3>2, <3>3
  <2>3. status' = audit'[Len(audit')].to BY <1>2, <1>3, <1>4
  <2> QED BY <1>4, <2>2, <2>3 DEF AuditIsChain
<1>8. StandingIsTold'
  <2>1. /\ LastIn(Trail(audit'), In, {"SUSPENDED"})
             <=> to \in In \/ (to # "SUSPENDED" /\ LastIn(Trail(audit), In, {"SUSPENDED"}))
        /\ LastIn(Trail(audit'), {"SUSPENDED"}, In)
             <=> to = "SUSPENDED" \/ (to \notin In /\ LastIn(Trail(audit), {"SUSPENDED"}, In))
    BY <1>1, <1>2, <1>3, Trailed DEF Tables, TablesOK
  <2>2. /\ LastIn(outbox, {"activated"}, {"suspended"}) <=> LastIn(Trail(audit), In, {"SUSPENDED"})
        /\ LastIn(outbox, {"suspended"}, {"activated"}) <=> LastIn(Trail(audit), {"SUSPENDED"}, In)
    BY DEF Tables, StandingIsTold, Trail, In
  <2>3. /\ LastIn(outbox', {"activated"}, {"suspended"})
             <=> to \in In \/ (to # "SUSPENDED" /\ LastIn(outbox, {"activated"}, {"suspended"}))
        /\ LastIn(outbox', {"suspended"}, {"activated"})
             <=> to = "SUSPENDED" \/ (to \notin In /\ LastIn(outbox, {"suspended"}, {"activated"}))
    BY <1>2, Announced DEF Tables, TablesOK
  <2>4. /\ LastIn(outbox', {"activated"}, {"suspended"}) <=> LastIn(Trail(audit'), In, {"SUSPENDED"})
        /\ LastIn(outbox', {"suspended"}, {"activated"}) <=> LastIn(Trail(audit'), {"SUSPENDED"}, In)
    BY <2>1, <2>2, <2>3
  <2> QED BY <2>4 DEF StandingIsTold, Trail, In, LastIn
<1>9. OnlyAdminsReadmit'
  <2> SUFFICES ASSUME NEW i \in 1..(n + 1)
               PROVE  /\ audit'[i].by = "MERCHANT" =>
                           audit'[i].from = "SUSPENDED" /\ audit'[i].to = "PENDING"
                      /\ audit'[i].from \notin {"REJECTED", "TERMINATED"}
    BY <1>4 DEF OnlyAdminsReadmit
  <2>1. CASE i \in 1..n BY <1>4, <2>1 DEF Tables, OnlyAdminsReadmit
  <2>2. CASE i = n + 1 BY <1>3, <1>4, <2>2
  <2> QED BY <1>4, <2>1, <2>2
<1>10. DeletedExists' BY <1>2 DEF DeletedExists, Statuses
<1> QED BY <1>6, <1>7, <1>8, <1>9, <1>10 DEF Tables
LEMMA SameTables == ASSUME Tables, UNCHANGED merchant PROVE Tables'
BY DEF Tables, TablesOK, AuditIsChain, StandingIsTold, OnlyAdminsReadmit, DeletedExists, LastIn,
       merchant

-----------------------------------------------------------------------------
(* The requests *)

\* A request that holds no lock and takes none goes on.
LEMMA GotoCalls ==
  ASSUME CallsOK, NEW p \in Procs, call[p] # "recording",
         NEW next \in {"idle", "create", "appeal", "filed"}, Goto(p, next), UNCHANGED holder
  PROVE  CallsOK'
BY DEF CallsOK, Goto

LEMMA AllowedIsStatus ==
  ASSUME NEW s \in Statuses, NEW t \in allowedTransitions[s]
  PROVE  /\ t \in Statuses
         /\ s \notin {"REJECTED", "TERMINATED"}
         /\ t = "PENDING" => s = "SUSPENDED"
BY DEF allowedTransitions, Statuses

\* UpdateStatusWithAudit, for an administrator or for an appeal.
LEMMA UpdateStatusWithAuditInv ==
  ASSUME Inv, NEW p \in Procs, NEW by \in {"ADMIN", "MERCHANT"}, NEW to,
         UpdateStatusWithAudit(p, by, to), call[p] # "recording",
         by = "MERCHANT" => to = "PENDING"
  PROVE  Inv'
<1>1. Tables /\ CallsOK BY InvParts
<1>2. CallsOK' BY <1>1, GotoCalls DEF UpdateStatusWithAudit
<1>3. CASE Live /\ to \in allowedTransitions[status] /\ Commit(by, status, to)
  <2>1. status \in Statuses BY <1>1, <1>3 DEF Tables, TablesOK, Live
  <2>2. /\ to \in Statuses
        /\ status \notin {"REJECTED", "TERMINATED"}
        /\ to = "PENDING" => status = "SUSPENDED"
    BY <1>3, <2>1, AllowedIsStatus
  <2>3. Tables' BY <1>1, <1>3, <2>2, CommitTables
  <2> QED BY <1>2, <2>3, InvParts, PTL
<1>4. CASE UNCHANGED merchant
  <2>1. Tables' BY <1>1, <1>4, SameTables
  <2> QED BY <1>2, <2>1, InvParts, PTL
<1> QED BY <1>3, <1>4 DEF UpdateStatusWithAudit, LockedStatus

LEMMA ExecuteLifecycleTransitionInv ==
  ASSUME Inv, NEW p \in Procs, ExecuteLifecycleTransition(p) PROVE Inv'
<1>1. Tables /\ CallsOK BY InvParts
<1>2. CallsOK' BY <1>1 DEF CallsOK, ExecuteLifecycleTransition
<1>3. PICK action \in Actions : status \in AcceptedFrom[action] /\ Commit("ADMIN", status, Target(action))
  BY DEF ExecuteLifecycleTransition
<1>4. status \notin {"REJECTED", "TERMINATED"} BY <1>3 DEF Actions, AcceptedFrom
<1>5. Target(action) \in Statuses BY DEF Target, Statuses
<1>6. Tables' BY <1>1, <1>3, <1>4, <1>5, CommitTables DEF ExecuteLifecycleTransition
<1> QED BY <1>2, <1>6, InvParts, PTL

LEMMA CreateInv == ASSUME Inv, NEW p \in Procs, Create(p) PROVE Inv'
<1>1. Tables /\ CallsOK BY InvParts
<1>2. CallsOK' BY <1>1, GotoCalls DEF Create
<1>3. CASE status = "NONE"
  <2>1. status' = "PENDING" /\ outbox' = Append(outbox, "registered")
        /\ UNCHANGED <<deleted, audit, appeals>>
    BY <1>3 DEF Create
  <2>2. "registered" \in Events /\ outbox \in Seq(Events) BY <1>1 DEF Events, Tables, TablesOK
  <2>3. /\ LastIn(outbox', {"activated"}, {"suspended"})
             <=> LastIn(outbox, {"activated"}, {"suspended"})
        /\ LastIn(outbox', {"suspended"}, {"activated"})
             <=> LastIn(outbox, {"suspended"}, {"activated"})
    BY <2>1, <2>2, LastInAppended
  <2>4. audit = <<>>
    <3> SUFFICES ASSUME audit # <<>> PROVE FALSE OBVIOUS
    <3>1. Len(audit) \in 1..Len(audit) /\ audit[Len(audit)] \in Record BY <1>1 DEF Tables, TablesOK
    <3>2. status \in Statuses BY <1>1, <3>1 DEF Tables, AuditIsChain, Record
    <3> QED BY <1>3, <3>2 DEF Statuses
  <2>5. TablesOK' BY <1>1, <2>1, <2>2 DEF Tables, TablesOK, Statuses
  <2>6. AuditIsChain' BY <1>1, <2>1, <2>4 DEF Tables, AuditIsChain
  <2>7. StandingIsTold' BY <1>1, <2>1, <2>3 DEF Tables, StandingIsTold, LastIn
  <2>8. OnlyAdminsReadmit' BY <1>1, <2>1 DEF Tables, OnlyAdminsReadmit
  <2>9. DeletedExists' BY <2>1 DEF DeletedExists
  <2>10. Tables' BY <2>5, <2>6, <2>7, <2>8, <2>9 DEF Tables
  <2> QED BY <1>2, <2>10, InvParts, PTL
<1>4. CASE UNCHANGED merchant
  <2>1. Tables' BY <1>1, <1>4, SameTables
  <2> QED BY <1>2, <2>1, InvParts, PTL
<1> QED BY <1>3, <1>4 DEF Create, merchant

LEMMA FileAppealInv == ASSUME Inv, NEW p \in Procs, FileAppeal(p) PROVE Inv'
<1>1. Tables /\ CallsOK BY InvParts
<1>2. CallsOK' BY <1>1, GotoCalls DEF FileAppeal
<1>3. appeals' \in Seq({"PENDING", "APPROVED", "REJECTED"})
  <2>1. appeals \in Seq({"PENDING", "APPROVED", "REJECTED"}) BY <1>1 DEF Tables, TablesOK
  <2>2. appeals' = appeals \/ appeals' = Append(appeals, "PENDING") BY DEF FileAppeal
  <2> QED BY <2>1, <2>2
<1>4. Tables'
  BY <1>1, <1>3 DEF FileAppeal, Tables, TablesOK, AuditIsChain, StandingIsTold, OnlyAdminsReadmit,
       DeletedExists, LastIn
<1> QED BY <1>2, <1>4, InvParts, PTL

LEMMA DeleteInv == ASSUME Inv, NEW p \in Procs, Delete(p) PROVE Inv'
<1>1. Tables /\ CallsOK BY InvParts
<1>2. CallsOK' BY <1>1 DEF CallsOK, Delete
<1>3. Tables'
  BY <1>1 DEF Delete, Live, Tables, TablesOK, AuditIsChain, StandingIsTold, OnlyAdminsReadmit,
       DeletedExists, LastIn
<1> QED BY <1>2, <1>3, InvParts, PTL

\* The requests that only look: they change no table.
LEMMA LookInv ==
  ASSUME Inv, NEW p \in Procs,
         CreateMerchant(p) \/ CreateAppeal(p) \/ RefuseLifecycleTransition(p) \/ EndRefusal(p)
  PROVE  Inv'
<1>1. Tables /\ CallsOK BY InvParts
<1>2. Tables'
  BY <1>1, SameTables DEF CreateMerchant, CreateAppeal, RefuseLifecycleTransition, EndRefusal
<1>3. CASE CreateMerchant(p) \/ CreateAppeal(p)
  <2>1. CallsOK' BY <1>1, <1>3, GotoCalls DEF CreateMerchant, CreateAppeal
  <2> QED BY <1>2, <2>1, InvParts, PTL
<1>4. CASE RefuseLifecycleTransition(p) \/ EndRefusal(p)
  <2>1. CallsOK' BY <1>1, <1>4 DEF CallsOK, RefuseLifecycleTransition, EndRefusal, Goto
  <2> QED BY <1>2, <2>1, InvParts, PTL
<1> QED BY <1>3, <1>4

-----------------------------------------------------------------------------
(* The theorems *)

LEMMA InitInv == Init => Inv
<1> SUFFICES ASSUME Init PROVE Inv OBVIOUS
<1>1. TablesOK
  <2>1. \A S : <<>> \in Seq(S) OBVIOUS
  <2> QED BY <2>1 DEF Init, TablesOK
<1>2. AuditIsChain /\ OnlyAdminsReadmit /\ DeletedExists
  BY DEF Init, AuditIsChain, OnlyAdminsReadmit, DeletedExists
<1>3. StandingIsTold BY DEF Init, StandingIsTold, LastIn
<1>4. CallsOK BY DEF Init, CallsOK
<1> QED BY <1>1, <1>2, <1>3, <1>4, InvParts DEF Tables

\* Every step of every request keeps the invariant.
THEOREM NextInv == Inv /\ [Next]_vars => Inv'
<1> SUFFICES ASSUME Inv, [Next]_vars PROVE Inv' OBVIOUS
<1>1. CASE UNCHANGED vars
  <2>1. Tables' BY <1>1, SameTables, InvParts DEF vars
  <2>2. CallsOK' BY <1>1, InvParts DEF vars, CallsOK
  <2> QED BY <2>1, <2>2, InvParts, PTL
<1>2. ASSUME NEW p \in Procs, UpdateMerchantStatus(p) PROVE Inv'
  BY <1>2, UpdateStatusWithAuditInv DEF UpdateMerchantStatus
<1>3. ASSUME NEW p \in Procs, ReopenAppealed(p) PROVE Inv'
  BY <1>3, UpdateStatusWithAuditInv DEF ReopenAppealed
<1> QED
  BY <1>1, <1>2, <1>3, CreateInv, ExecuteLifecycleTransitionInv, FileAppealInv, DeleteInv, LookInv
     DEF Next

LEMMA SpecInv == Spec => []Inv
BY InitInv, NextInv, PTL DEF Spec

\* UpdateStatusWithAudit, Create: status, audit trail and events tell one story.
THEOREM TrailIsTrueAlways == Spec => []TrailIsTrue
<1>1. Inv => TrailIsTrue BY DEF Inv, TrailIsTrue
<1> QED BY <1>1, SpecInv, PTL

\* CreateAppeal: an appeal puts a suspended merchant back to PENDING and never does more.
THEOREM OnlyAdminsReadmitAlways == Spec => []OnlyAdminsReadmit
<1>1. Inv => OnlyAdminsReadmit BY DEF Inv
<1> QED BY <1>1, SpecInv, PTL

\* Delete: requests that found the merchant before no longer change it, and its id is not
\* registered again.
THEOREM DeletedStaysAlways == Spec => DeletedStays
<1> DEFINE A == deleted => UNCHANGED <<status, deleted, audit, outbox>>
<1>1. Inv /\ [Next]_vars => [A]_vars
  <2> SUFFICES ASSUME Inv, Next, deleted PROVE UNCHANGED <<status, deleted, audit, outbox>>
    OBVIOUS
  <2>1. ~Live /\ status # "NONE" BY DEF Live, Inv, DeletedExists
  <2> QED
    BY <2>1 DEF Next, CreateMerchant, Create, UpdateMerchantStatus, UpdateStatusWithAudit,
       ExecuteLifecycleTransition, RefuseLifecycleTransition, EndRefusal, Delete, CreateAppeal,
       FileAppeal, ReopenAppealed, merchant
<1> QED BY <1>1, SpecInv, PTL DEF Spec, DeletedStays
=============================================================================
