--------------------------- MODULE Delivery_proofs ---------------------------
(***************************************************************************)
(* Proofs about delivery-service, for any number of orders and handlers,   *)
(* any names and GSTINs: one delivery is told of an order, its events are  *)
(* a path of allowed transitions, and a profile says what is true, although *)
(* handlers write whole rows over each other.                              *)
(***************************************************************************)
EXTENDS Delivery, TLAPS

-----------------------------------------------------------------------------
(* The inductive invariant *)

\* The events of one delivery with status s: a path of allowed transitions that ends in s.
PathTo(m, s) ==
  /\ \A i \in DOMAIN m :
       /\ m[i][2] \in Successors(m[i][1])
       /\ m[i][1] = IF i = 1 THEN "CREATED" ELSE m[i - 1][2]
  /\ m # <<>> => m[Len(m)][2] = s
  /\ m = <<>> => s \in {None, "CREATED"}

PathsEnd == \A o \in Orders : PathTo(moves[o], status[o])

\* A row that is stored, or that some handler is going to store.  A row that carries a flag
\* also carries the name it stands for, so that ON CONFLICT does not fill in another one.
RowFits(row) ==
  /\ row.verified => <<row.name, row.gstin>> \in Registered
  /\ row.approval = "APPROVED" => row.name \in approved /\ row.name # ""

ProfileFits == profile # NoProfile => RowFits(profile)
SavesFit == \A p \in Procs : proc[p].step = "save" => RowFits(proc[p].row)

Inv ==
  /\ TypeOK
  /\ ToldOfOneDelivery
  /\ PathsEnd
  /\ ProfileFits
  /\ SavesFit

-----------------------------------------------------------------------------
(* Deliveries *)

LEMMA SuccessorsAreStatuses ==
  ASSUME NEW s, NEW t \in Successors(s) PROVE s \in Statuses /\ t \in Statuses /\ t # None
BY DEF Successors, Statuses, None

\* One more event, from where the path ended.
LEMMA PathExtends ==
  ASSUME NEW m \in Seq(Statuses \X Statuses), NEW s \in Statuses \cup {None}, PathTo(m, s),
         NEW to \in Successors(s)
  PROVE  PathTo(Append(m, <<s, to>>), to)
<1> DEFINE n == Append(m, <<s, to>>)
<1>0. s \in Statuses /\ to \in Statuses BY SuccessorsAreStatuses
<1>1. /\ Len(m) \in Nat /\ Len(n) = Len(m) + 1 /\ DOMAIN n = 1..(Len(m) + 1) /\ DOMAIN m = 1..Len(m)
      /\ \A i \in 1..Len(m) : n[i] = m[i]
      /\ n[Len(m) + 1] = <<s, to>>
      /\ n # <<>>
  <2> DEFINE e == <<s, to>>
  <2>1. e \in Statuses \X Statuses BY <1>0
  <2> HIDE DEF e
  <2>2. n = Append(m, e) BY DEF n, e
  <2> HIDE DEF n
  <2>3. n \in Seq(Statuses \X Statuses) /\ Len(n) = Len(m) + 1 /\ Len(m) \in Nat
    BY <2>1, <2>2
  <2>4. (\A i \in 1..Len(m) : n[i] = m[i]) /\ n[Len(m) + 1] = e BY <2>1, <2>2
  <2>5. DOMAIN n = 1..(Len(m) + 1) /\ DOMAIN m = 1..Len(m) BY <2>3
  <2>6. n # <<>> BY <2>3
  <2> QED BY <2>3, <2>4, <2>5, <2>6 DEF e
<1>2. m = <<>> \/ (m # <<>> /\ Len(m) > 0) OBVIOUS
<1> HIDE DEF n
<1>3. n[Len(n)][2] = to BY <1>1
<1>4. ASSUME NEW i \in DOMAIN n
      PROVE  /\ n[i][2] \in Successors(n[i][1])
             /\ n[i][1] = IF i = 1 THEN "CREATED" ELSE n[i - 1][2]
  <2>1. CASE i \in 1..Len(m)
    <3>1. i \in DOMAIN m /\ n[i] = m[i] /\ (i # 1 => i - 1 \in 1..Len(m)) BY <1>1, <2>1
    <3>2. i # 1 => n[i - 1] = m[i - 1] BY <1>1, <3>1
    <3> QED BY <3>1, <3>2 DEF PathTo
  <2>2. CASE i = Len(m) + 1
    <3>1. n[i][2] = to /\ n[i][1] = s BY <1>1, <2>2
    <3>2. CASE m = <<>>
      <4>1. i = 1 /\ s = "CREATED" BY <1>0, <1>1, <2>2, <3>2 DEF PathTo, Statuses, None
      <4> QED BY <3>1, <4>1
    <3>3. CASE m # <<>> /\ Len(m) > 0
      <4>1. i # 1 /\ i - 1 = Len(m) /\ i - 1 \in 1..Len(m) BY <1>1, <2>2, <3>3
      <4>2. n[i - 1][2] = s BY <1>1, <4>1, <3>3 DEF PathTo
      <4> QED BY <3>1, <4>1, <4>2
    <3> QED BY <1>2, <3>2, <3>3
  <2> QED BY <1>1, <1>4, <2>1, <2>2
<1> QED BY <1>1, <1>3, <1>4 DEF PathTo, n

LEMMA InitInv == Init => Inv
<1> SUFFICES ASSUME Init PROVE Inv OBVIOUS
<1> USE DEF Init
<1>1. TypeOK BY DEF TypeOK, None, NoProfile, Idle
<1>2. ToldOfOneDelivery BY DEF ToldOfOneDelivery
<1>3. PathsEnd BY DEF PathsEnd, PathTo
<1>4. ProfileFits /\ SavesFit BY DEF ProfileFits, SavesFit, Idle
<1> QED BY <1>1, <1>2, <1>3, <1>4 DEF Inv

\* A handler takes up work, or ends, and leaves the tables alone.
LEMMA NewWork ==
  ASSUME Inv, NEW p \in Procs, NEW w \in Work \cup {Idle},
         w.step = "save" => RowFits(w.row),
         Become(p, w), UNCHANGED <<deliveries, profile>>,
         approved \subseteq approved', approved' \subseteq Names
  PROVE  Inv'
<1> USE DEF Inv, Become, deliveries
<1>1. TypeOK' BY DEF TypeOK
<1>2. ToldOfOneDelivery' /\ PathsEnd' BY DEF ToldOfOneDelivery, PathsEnd, PathTo
<1>3. ProfileFits' BY DEF ProfileFits, RowFits
<1>4. SavesFit' BY DEF SavesFit, RowFits, TypeOK
<1> QED BY <1>1, <1>2, <1>3, <1>4

\* What a handler's work holds.
LEMMA WorkAt ==
  ASSUME TypeOK, NEW p \in Procs
  PROVE  /\ proc[p].step = "create" => proc[p].order \in Orders
         /\ proc[p].step = "move" => proc[p].order \in Orders /\ proc[p].to \in Statuses
         /\ proc[p].step = "save" => proc[p].row \in Profile
<1> DEFINE w == proc[p]
<1>1. w \in Work \cup {Idle} BY DEF TypeOK
<1> HIDE DEF w
<1>2. CASE w \in [step : {"create"}, order : Orders] BY <1>2 DEF w
<1>3. CASE w \in [step : {"move"}, order : Orders, to : Statuses] BY <1>3 DEF w
<1>4. CASE w \in [step : {"save"}, row : Profile] BY <1>4 DEF w
<1>5. CASE w = [step |-> "delete"] \/ w = Idle
  <2>1. w.step \in {"delete", "idle"} BY <1>5 DEF Idle
  <2> QED BY <2>1 DEF w
<1> QED BY <1>1, <1>2, <1>3, <1>4, <1>5 DEF Work

\* And the work of the handler ends in a write of the deliveries.
LEMMA CreateInv == ASSUME Inv, NEW p \in Procs, Create(p) PROVE Inv'
<1> DEFINE o == proc[p].order
<1> USE DEF Inv, Create, Finish, Become, At, partner
<1>1. o \in Orders BY WorkAt
<1>2. TypeOK'
  <2>1. status' \in [Orders -> Statuses \cup {None}] BY <1>1 DEF TypeOK, Statuses
  <2>2. created' \in [Orders -> Nat]
    <3>1. created[o] + 1 \in Nat BY <1>1 DEF TypeOK
    <3> HIDE DEF o
    <3> QED BY <1>1, <3>1 DEF TypeOK, o
  <2> QED BY <2>1, <2>2 DEF TypeOK
<1>3. ToldOfOneDelivery' BY <1>1 DEF ToldOfOneDelivery, TypeOK, None
<1>4. PathsEnd'
  <2> SUFFICES ASSUME NEW q \in Orders PROVE PathTo(moves[q], status'[q]) BY DEF PathsEnd, PathTo
  <2>1. status'[q] # status[q] => status[q] = None /\ status'[q] = "CREATED" BY <1>1 DEF TypeOK
  <2>2. status[q] = None => moves[q] = <<>>
    <3> SUFFICES ASSUME status[q] = None, moves[q] # <<>> PROVE FALSE OBVIOUS
    <3>1. Len(moves[q]) \in DOMAIN moves[q] BY DEF TypeOK
    <3>2. None \in Successors(moves[q][Len(moves[q])][1]) BY <3>1 DEF PathsEnd, PathTo
    <3> QED BY <3>2, SuccessorsAreStatuses DEF Statuses, None
  <2> QED BY <2>1, <2>2 DEF PathsEnd, PathTo
<1>5. ProfileFits' BY DEF ProfileFits, RowFits
<1>6. SavesFit' BY DEF SavesFit, RowFits, TypeOK, Idle
<1> QED BY <1>2, <1>3, <1>4, <1>5, <1>6

LEMMA UpdateStatusWithDetailsInv ==
  ASSUME Inv, NEW p \in Procs, UpdateStatusWithDetails(p) PROVE Inv'
<1> DEFINE o == proc[p].order
           to == proc[p].to
<1> USE DEF Inv, UpdateStatusWithDetails, Finish, Become, At, partner
<1>1. o \in Orders /\ to \in Statuses BY WorkAt
<1>2. CASE UNCHANGED <<status, moves>>
  <2>1. Become(p, Idle) /\ UNCHANGED <<deliveries, partner>> BY <1>2 DEF deliveries
  <2> QED BY <2>1, NewWork DEF Idle, TypeOK
<1>3. CASE /\ status[o] # to /\ TransitionStatus(status[o], to)
           /\ status' = [status EXCEPT ![o] = to]
           /\ moves' = [moves EXCEPT ![o] = Append(@, <<status[o], to>>)]
  <2>1. to \in Successors(status[o]) /\ status[o] \in Statuses
    BY <1>3, SuccessorsAreStatuses DEF TransitionStatus
  <2>2. moves[o] \in Seq(Statuses \X Statuses) /\ <<status[o], to>> \in Statuses \X Statuses
    BY <1>1, <2>1 DEF TypeOK
  <2>3. Append(moves[o], <<status[o], to>>) \in Seq(Statuses \X Statuses) BY <2>2
  <2>4. TypeOK' BY <1>1, <1>3, <2>3 DEF TypeOK
  <2>5. ToldOfOneDelivery'
    BY <1>1, <1>3, <2>1 DEF ToldOfOneDelivery, TypeOK, Statuses, None
  <2>6. PathTo(Append(moves[o], <<status[o], to>>), to) BY <1>1, <2>1, <2>2, PathExtends DEF PathsEnd
  <2>7. PathsEnd'
    <3> SUFFICES ASSUME NEW q \in Orders PROVE PathTo(moves'[q], status'[q]) BY DEF PathsEnd, PathTo
    <3>1. CASE q = o BY <1>1, <1>3, <2>6, <3>1 DEF TypeOK
    <3>2. CASE q # o BY <1>1, <1>3, <3>2 DEF TypeOK, PathsEnd
    <3> QED BY <3>1, <3>2
  <2>8. ProfileFits' BY DEF ProfileFits, RowFits
  <2>9. SavesFit' BY DEF SavesFit, RowFits, TypeOK, Idle
  <2> QED BY <2>4, <2>5, <2>7, <2>8, <2>9
<1> QED BY <1>2, <1>3

LEMMA DeliveryNextInv == ASSUME Inv, NEW p \in Procs, DeliveryNext(p) PROVE Inv'
<1>0. approved \subseteq Names BY DEF Inv, TypeOK
<1>1. ASSUME NEW o \in Orders, NEW named \in BOOLEAN, HandleOrderConfirmed(p, o, named) PROVE Inv'
  <2> DEFINE w == [step |-> "create", order |-> o]
  <2>1. w \in Work /\ w.step # "save" BY DEF Work
  <2> HIDE DEF w
  <2> QED BY <1>0, <1>1, <2>1, NewWork DEF HandleOrderConfirmed, partner, w
<1>2. ASSUME NEW o \in Orders, NEW to \in Statuses, ProcessStatusUpdate(p, o, to) PROVE Inv'
  <2> DEFINE w == [step |-> "move", order |-> o, to |-> to]
  <2>1. w \in Work /\ w.step # "save" BY DEF Work
  <2> HIDE DEF w
  <2> QED BY <1>0, <1>2, <2>1, NewWork DEF ProcessStatusUpdate, partner, w
<1> QED BY <1>1, <1>2, CreateInv, UpdateStatusWithDetailsInv DEF DeliveryNext

-----------------------------------------------------------------------------
(* Profiles *)

LEMMA SaveInv ==
  ASSUME Inv, NEW p \in Procs, NEW row \in Profile, RowFits(row), Save(p, row) PROVE Inv'
<1> DEFINE w == [step |-> "save", row |-> row]
<1>1. w \in Work /\ w.row = row BY DEF Work
<1>2. Become(p, w) /\ UNCHANGED <<deliveries, profile, approved>> BY DEF Save, Submit
<1> HIDE DEF w
<1> QED BY <1>1, <1>2, NewWork DEF Inv, TypeOK

\* The stored row.
LEMMA AliveFits == ASSUME Inv, Alive PROVE profile \in Profile /\ RowFits(profile)
BY DEF Inv, TypeOK, Alive, ProfileFits

LEMMA CreateOrUpdatePartnerProfileInv ==
  ASSUME Inv, NEW p \in Procs, NEW name \in Names, NEW gstin \in Gstins,
         CreateOrUpdatePartnerProfile(p, name, gstin)
  PROVE  Inv'
<1>1. NewProfile(name, gstin) \in Profile /\ RowFits(NewProfile(name, gstin))
  BY DEF NewProfile, Profile, ApprovalStatuses, RowFits
<1> QED BY <1>1, SaveInv DEF CreateOrUpdatePartnerProfile

LEMMA ResetFits ==
  ASSUME NEW row \in Profile, NEW name \in Names, NEW gstin \in Gstins, RowFits(row)
  PROVE  /\ Rename(row, name) \in Profile /\ RowFits(Rename(row, name))
         /\ SetGstin(row, gstin) \in Profile /\ RowFits(SetGstin(row, gstin))
BY DEF Rename, SetGstin, Reset, Profile, ApprovalStatuses, RowFits

LEMMA UpdatePartnerProfileInv ==
  ASSUME Inv, NEW p \in Procs, NEW name \in Names, NEW gstin \in Gstins,
         UpdatePartnerProfile(p, name, gstin)
  PROVE  Inv'
<1>1. CASE Alive
  <2>1. Rename(profile, name) \in Profile /\ RowFits(Rename(profile, name))
    BY <1>1, AliveFits, ResetFits
  <2> HIDE DEF Rename
  <2>2. /\ SetGstin(Rename(profile, name), gstin) \in Profile
        /\ RowFits(SetGstin(Rename(profile, name), gstin))
    BY <2>1, ResetFits
  <2> QED BY <1>1, <2>2, SaveInv DEF UpdatePartnerProfile
<1>2. CASE ~Alive
  <2> DEFINE row == SetGstin(Rename(NewProfile("", ""), name), gstin)
  <2>1. row \in Profile /\ ~row.verified /\ row.approval = "PENDING"
    BY DEF SetGstin, Rename, Reset, NewProfile, Profile, ApprovalStatuses
  <2>2. RowFits(row) BY <2>1 DEF RowFits
  <2> HIDE DEF row
  <2> QED BY <1>2, <2>1, <2>2, SaveInv DEF UpdatePartnerProfile, row
<1> QED BY <1>1, <1>2

LEMMA VerifyGSTINInv ==
  ASSUME Inv, NEW p \in Procs, NEW gstin \in Gstins, VerifyGSTIN(p, gstin) PROVE Inv'
<1>1. profile \in Profile /\ RowFits(profile) BY AliveFits DEF VerifyGSTIN
<1>2. CASE Save(p, Unverified(profile))
  <2>1. Unverified(profile) \in Profile /\ RowFits(Unverified(profile))
    BY <1>1 DEF Unverified, Profile, RowFits
  <2> QED BY <1>2, <2>1, SaveInv
<1>3. ASSUME <<profile.name, gstin>> \in Registered PROVE
        LET row == [profile EXCEPT !.gstin = gstin, !.verified = TRUE,
                                   !.approval = IF @ = "APPROVED" THEN @ ELSE "PENDING"]
        IN  row \in Profile /\ RowFits(row)
  BY <1>1, <1>3 DEF Profile, RowFits, ApprovalStatuses
<1> QED BY <1>2, <1>3, SaveInv DEF VerifyGSTIN

\* The other decisions on a stored row.
LEMMA DecisionInv ==
  ASSUME Inv, NEW p \in Procs,
         ActivatePartner(p) \/ DeactivatePartner(p) \/ RejectPartner(p) \/ AppealRejection(p)
  PROVE  Inv'
<1>1. profile \in Profile /\ RowFits(profile)
  BY AliveFits DEF ActivatePartner, DeactivatePartner, RejectPartner, AppealRejection
<1>2. /\ [profile EXCEPT !.active = TRUE, !.deactivated = FALSE] \in Profile
      /\ RowFits([profile EXCEPT !.active = TRUE, !.deactivated = FALSE])
  BY <1>1 DEF Profile, RowFits
<1>3. /\ [profile EXCEPT !.active = FALSE, !.deactivated = TRUE] \in Profile
      /\ RowFits([profile EXCEPT !.active = FALSE, !.deactivated = TRUE])
  BY <1>1 DEF Profile, RowFits
<1>4. /\ [profile EXCEPT !.approval = "REJECTED"] \in Profile
      /\ RowFits([profile EXCEPT !.approval = "REJECTED"])
  BY <1>1 DEF Profile, RowFits, ApprovalStatuses
<1>5. /\ [profile EXCEPT !.approval = "APPEALED"] \in Profile
      /\ RowFits([profile EXCEPT !.approval = "APPEALED"])
  BY <1>1 DEF Profile, RowFits, ApprovalStatuses
<1> QED
  BY <1>2, <1>3, <1>4, <1>5, SaveInv
     DEF ActivatePartner, DeactivatePartner, RejectPartner, AppealRejection

\* The name is approved when the handler decides, before it is written.
LEMMA ApprovePartnerInv == ASSUME Inv, NEW p \in Procs, ApprovePartner(p) PROVE Inv'
<1> DEFINE row == [profile EXCEPT !.approval = "APPROVED", !.verified = TRUE, !.active = TRUE]
<1>1. /\ profile \in Profile /\ RowFits(profile) /\ profile.verified
      /\ proc' = [proc EXCEPT ![p] = [step |-> "save", row |-> row]]
      /\ UNCHANGED <<deliveries, profile>>
      /\ approved' = approved \cup {profile.name}
  BY AliveFits DEF ApprovePartner, Submit, Become
<1>2. row \in Profile /\ profile.name \in Names BY <1>1 DEF Profile, ApprovalStatuses
<1>3. <<row.name, row.gstin>> \in Registered /\ row.name = profile.name BY <1>1 DEF Profile, RowFits
<1>4. row.name # "" BY <1>3, DeliveryAssumption
<1>5. PICK w : w = [step |-> "save", row |-> row] OBVIOUS
<1>6. w \in Work /\ w.row = row BY <1>2, <1>5 DEF Work
<1> USE DEF Inv
<1>7. TypeOK' BY <1>1, <1>2, <1>5, <1>6 DEF TypeOK, deliveries
<1>8. ToldOfOneDelivery' /\ PathsEnd'
  BY <1>1 DEF ToldOfOneDelivery, PathsEnd, PathTo, deliveries
<1>9. ProfileFits' BY <1>1 DEF ProfileFits, RowFits
<1>10. SavesFit'
  <2> SUFFICES ASSUME NEW q \in Procs, proc'[q].step = "save" PROVE RowFits(proc[q].row)'
    BY DEF SavesFit
  <2>1. CASE q = p
    <3>1. proc'[q].row = row BY <1>1, <2>1 DEF TypeOK
    <3> HIDE DEF row
    <3>2. profile.name \in approved' BY <1>1
    <3>3. proc'[q].row.name = profile.name BY <1>3, <3>1
    <3> QED BY <1>3, <1>4, <3>1, <3>2, <3>3 DEF RowFits
  <2>2. CASE q # p BY <1>1, <2>2 DEF TypeOK, SavesFit, RowFits
  <2> QED BY <2>1, <2>2
<1> QED BY <1>7, <1>8, <1>9, <1>10

LEMMA DeletePartnerProfileInv == ASSUME Inv, NEW p \in Procs, DeletePartnerProfile(p) PROVE Inv'
<1> DEFINE w == [step |-> "delete"]
<1>1. w \in Work /\ w.step # "save" BY DEF Work
<1> HIDE DEF w
<1> QED BY <1>1, NewWork DEF DeletePartnerProfile, partner, Inv, TypeOK, w

\* The profile is written: by a handler that is then done, or by the retention worker.
LEMMA ProfileInv ==
  ASSUME Inv, profile' \in Profile \cup {NoProfile}, profile' # NoProfile => RowFits(profile'),
         proc' = proc \/ \E p \in Procs : Finish(p), UNCHANGED <<deliveries, approved>>
  PROVE  Inv'
<1> USE DEF Inv, deliveries
<1>1. TypeOK' BY DEF TypeOK, Finish, Become
<1>2. ToldOfOneDelivery' /\ PathsEnd' BY DEF ToldOfOneDelivery, PathsEnd, PathTo
<1>3. ProfileFits' BY DEF ProfileFits, RowFits
<1>4. SavesFit'
  <2>1. \A q \in Procs : proc'[q].step = "save" => proc'[q] = proc[q]
    BY DEF TypeOK, Finish, Become, Idle
  <2> QED BY <2>1 DEF SavesFit, RowFits
<1> QED BY <1>1, <1>2, <1>3, <1>4

LEMMA SaveProfileInv == ASSUME Inv, NEW p \in Procs, SaveProfile(p) PROVE Inv'
<1>1. proc[p].row \in Profile /\ RowFits(proc[p].row)
  BY WorkAt DEF SaveProfile, At, Inv, SavesFit
<1>2. profile \in Profile \cup {NoProfile} BY DEF Inv, TypeOK
<1>3. ASSUME NEW row \in Profile, RowFits(row)
      PROVE  Upsert(row) \in Profile /\ RowFits(Upsert(row))
  <2>1. CASE profile = NoProfile BY <1>3, <2>1 DEF Upsert
  <2>2. CASE profile \in Profile /\ profile # NoProfile
    <3> DEFINE new == [row EXCEPT !.name = IF @ = "" THEN profile.name ELSE @,
                                  !.gstin = IF @ = "" THEN profile.gstin ELSE @]
    <3>1. Upsert(row) = new BY <2>2 DEF Upsert
    <3>2. new \in Profile /\ new.verified = row.verified /\ new.approval = row.approval
      BY <2>2 DEF Profile
    <3>3. row.verified => row.name # "" /\ row.gstin # "" BY <1>3, DeliveryAssumption DEF RowFits
    <3>4. row.name # "" => new.name = row.name BY DEF Profile
    <3>5. row.gstin # "" => new.gstin = row.gstin BY DEF Profile
    <3> HIDE DEF new
    <3> QED BY <1>3, <3>1, <3>2, <3>3, <3>4, <3>5 DEF RowFits
  <2> QED BY <1>2, <2>1, <2>2
<1>4. profile' \in Profile /\ RowFits(profile') BY <1>1, <1>3 DEF SaveProfile
<1> QED BY <1>4, ProfileInv DEF SaveProfile

LEMMA RetireInv ==
  ASSUME Inv, (\E p \in Procs : SoftDeletePartnerProfile(p)) \/ ProcessExpiredDeactivations
  PROVE  Inv'
<1>1. Alive => profile \in Profile /\ RowFits(profile) BY AliveFits
<1>2. /\ Alive => /\ [profile EXCEPT !.deleted = TRUE, !.active = FALSE] \in Profile
                  /\ RowFits([profile EXCEPT !.deleted = TRUE, !.active = FALSE])
      /\ Alive => /\ [profile EXCEPT !.deleted = TRUE] \in Profile
                  /\ RowFits([profile EXCEPT !.deleted = TRUE])
  BY <1>1 DEF Profile, RowFits
<1>3. profile' \in Profile \cup {NoProfile} /\ (profile' # NoProfile => RowFits(profile'))
  BY <1>2 DEF SoftDeletePartnerProfile, ProcessExpiredDeactivations, Inv, TypeOK, ProfileFits
<1> QED BY <1>3, ProfileInv DEF SoftDeletePartnerProfile, ProcessExpiredDeactivations

LEMMA PartnerNextInv == ASSUME Inv, NEW p \in Procs, PartnerNext(p) PROVE Inv'
BY CreateOrUpdatePartnerProfileInv, UpdatePartnerProfileInv, VerifyGSTINInv, DecisionInv,
   ApprovePartnerInv, DeletePartnerProfileInv, SaveProfileInv, RetireInv
   DEF PartnerNext

-----------------------------------------------------------------------------
(* The theorems *)

\* Every step of the handlers and of the retention worker keeps the invariant.
THEOREM NextInv == Inv /\ [Next]_vars => Inv'
<1> SUFFICES ASSUME Inv, [Next]_vars PROVE Inv' OBVIOUS
<1>1. CASE UNCHANGED vars
  BY <1>1 DEF vars, deliveries, partner, Inv, TypeOK, ToldOfOneDelivery, PathsEnd, PathTo,
       ProfileFits, SavesFit, RowFits
<1>2. ASSUME NEW p \in Procs, Stop(p) PROVE Inv'
  BY <1>2, NewWork DEF Stop, Finish, partner, Inv, TypeOK, Idle
<1> QED BY <1>1, <1>2, DeliveryNextInv, PartnerNextInv, RetireInv DEF Next

LEMMA SpecInv == Spec => []Inv
BY InitInv, NextInv, PTL DEF Spec

\* HandleOrderConfirmed, once or more and in several handlers: one DeliveryCreated.
THEOREM ToldOfOneDeliveryAlways == Spec => []ToldOfOneDelivery
<1>1. Inv => ToldOfOneDelivery BY DEF Inv
<1> QED BY <1>1, SpecInv, PTL

\* ProcessStatusUpdate: the events are a path of allowed transitions to the status.
THEOREM MovesArePathAlways == Spec => []MovesArePath
<1>1. Inv => MovesArePath
  <2> SUFFICES ASSUME Inv, NEW o \in Orders
               PROVE  LET m == moves[o] IN
                      /\ \A i \in DOMAIN m :
                           /\ m[i][2] \in Successors(m[i][1])
                           /\ m[i][1] = IF i = 1 THEN "CREATED" ELSE m[i - 1][2]
                      /\ m # <<>> => Last(m)[2] = status[o]
    BY DEF MovesArePath
  <2> QED BY DEF Inv, PathsEnd, PathTo, Last
<1> QED BY <1>1, SpecInv, PTL

\* The whole-row writes of the profile operations: verified is registered, serving approved.
THEOREM ProfileIsRightAlways == Spec => []ProfileIsRight
<1>1. Inv => ProfileIsRight
  BY DEF Inv, ProfileIsRight, ProfileFits, RowFits, VerifiedIsRegistered, ServingIsApproved, Serving
<1> QED BY <1>1, SpecInv, PTL

-----------------------------------------------------------------------------
(***************************************************************************)
(* auth-service, which registers delivery partners like every other        *)
(* account: for any number of registrations, logins, refreshes, codes,     *)
(* tokens and faults.  The invariants of Auth are inductive with two more  *)
(* facts about a registration that is under way.                           *)
(***************************************************************************)

CONSTANTS Regs, Roles, Clients, Verifiers, Codes, MaxTokens, MaxFaults
VARIABLES role, reg, stored, profiles, told, hurt, verified, code, young, inbox, verify, tok,
          owner, sess, faults

A == INSTANCE Auth WITH Procs <- Clients

\* A request that has not inserted its row has none.
StoredLater == \A r \in Regs : reg[r] \in {"new", "checked"} => r \notin stored

\* A request that goes on to its session has its profile, unless it is a partner's.
SessionHasProfile ==
  \A r \in Regs \ hurt : reg[r] = "session" => r \in profiles \/ role = "DELIVERY_PARTNER"

AccountInv ==
  /\ A!AuthAssumption
  /\ A!TypeOK /\ A!OneAccount /\ A!StoredIsKnown
  /\ StoredLater /\ SessionHasProfile

SessionInv == A!OneSession /\ A!SessionHasAccount

AuthInv == AccountInv /\ SessionInv

LEMMA AuthInit == A!AuthAssumption /\ A!Init => AuthInv
<1> SUFFICES ASSUME A!AuthAssumption, A!Init PROVE AuthInv OBVIOUS
<1> USE DEF A!Init, A!None
<1>1. A!TypeOK
  <2>1. 0 \in 0..MaxFaults BY DEF A!AuthAssumption
  <2>2. sess \in [Clients -> SUBSET [user : Regs, old : 0..MaxTokens]] OBVIOUS
  <2>3. young \in BOOLEAN OBVIOUS
  <2> QED BY <2>1, <2>2, <2>3 DEF A!TypeOK, A!Steps
<1>2. A!OneAccount /\ A!StoredIsKnown /\ StoredLater /\ SessionHasProfile
  BY DEF A!OneAccount, A!StoredIsKnown, StoredLater, SessionHasProfile
<1>3. SessionInv BY DEF SessionInv, A!OneSession, A!Active, A!SessionHasAccount
<1> QED BY <1>1, <1>2, <1>3 DEF AuthInv, AccountInv

\* Steps that leave the tokens alone and delete no account.
LEMMA SameSessions ==
  ASSUME SessionInv, UNCHANGED A!tokens, stored \subseteq stored' PROVE SessionInv'
BY DEF SessionInv, A!OneSession, A!SessionHasAccount, A!Active, A!tokens

\* Steps that leave registrations alone.
LEMMA SameAccounts ==
  ASSUME AccountInv, UNCHANGED A!register, A!TypeOK' PROVE AccountInv'
BY DEF AccountInv, A!register, A!OneAccount, A!StoredIsKnown, StoredLater, SessionHasProfile

LEMMA FirstSteps ==
  ASSUME AuthInv, NEW r \in Regs, A!CheckAccount(r) \/ A!CreateCredential(r) \/ A!SendCode(r)
  PROVE  AuthInv'
<1> USE DEF AuthInv, AccountInv
<1>1. A!TypeOK'
  <2> USE DEF A!TypeOK, A!Steps, A!mail, A!tokens, A!AuthAssumption
  <2>1. CASE A!CheckAccount(r) BY <2>1 DEF A!CheckAccount, A!Fault, A!NoFault
  <2>2. CASE A!CreateCredential(r) BY <2>2 DEF A!CreateCredential
  <2>3. CASE A!SendCode(r)
    <3>1. ASSUME NEW c \in Codes, A!SetOTP(c) PROVE A!TypeOK' BY <2>3, <3>1 DEF A!SendCode, A!SetOTP
    <3>2. ASSUME faults < MaxFaults, faults' = faults + 1, UNCHANGED A!mail PROVE A!TypeOK'
      BY <2>3, <3>2 DEF A!SendCode
    <3> QED BY <2>3, <3>1, <3>2 DEF A!SendCode
  <2> QED BY <2>1, <2>2, <2>3
<1>2. SessionInv'
  BY SameSessions DEF A!CheckAccount, A!CreateCredential, A!SendCode, A!tokens
<1>3. CASE A!CheckAccount(r)
  BY <1>1, <1>2, <1>3 DEF A!CheckAccount, A!Fault, A!NoFault, A!TypeOK, A!OneAccount,
     A!StoredIsKnown,
     StoredLater, SessionHasProfile, A!Ended
<1>4. CASE A!CreateCredential(r)
  BY <1>1, <1>2, <1>4 DEF A!CreateCredential, A!AccountTaken, A!TypeOK, A!OneAccount,
     A!StoredIsKnown,
     StoredLater, SessionHasProfile, A!Ended
<1>5. CASE A!SendCode(r)
  BY <1>1, <1>2, <1>5 DEF A!SendCode, A!TypeOK, A!OneAccount, A!StoredIsKnown, StoredLater,
     SessionHasProfile, A!Ended
<1> QED BY <1>3, <1>4, <1>5

LEMMA ProfileSteps ==
  ASSUME AuthInv, NEW r \in Regs, A!CreateProfile(r) \/ A!HandlePartnerRegistered(r) \/ A!Crash(r)
  PROVE  AuthInv'
<1> USE DEF AuthInv, AccountInv
<1>1. A!TypeOK'
  BY DEF A!TypeOK, A!CreateProfile, A!HandlePartnerRegistered, A!Crash, A!AfterFailure, A!Fault,
     A!NoFault, A!Steps,
         A!mail, A!tokens, A!AuthAssumption
<1>2. SessionInv'
  BY SameSessions DEF A!CreateProfile, A!HandlePartnerRegistered, A!Crash, A!tokens
<1>3. CASE A!CreateProfile(r)
  BY <1>1, <1>2, <1>3 DEF A!CreateProfile, A!AfterFailure, A!Fault, A!NoFault, A!TypeOK,
     A!OneAccount,
     A!StoredIsKnown, StoredLater, SessionHasProfile, A!Ended
<1>4. CASE A!HandlePartnerRegistered(r) \/ A!Crash(r)
  BY <1>1, <1>2, <1>4 DEF A!HandlePartnerRegistered, A!Crash, A!Fault, A!TypeOK, A!OneAccount,
     A!StoredIsKnown, StoredLater, SessionHasProfile, A!Ended
<1> QED BY <1>3, <1>4

\* The compensation takes the sessions of the account with it.
LEMMA UndoStep == ASSUME AuthInv, NEW r \in Regs, A!Undo(r) PROVE AuthInv'
<1> USE DEF AuthInv, AccountInv, A!Undo, A!DeleteCredential
<1>1. A!TypeOK'
  BY DEF A!TypeOK, A!Fault, A!NoFault, A!Steps, A!AuthAssumption
<1>2. SessionInv'
  BY DEF SessionInv, A!OneSession, A!SessionHasAccount, A!Active, A!TypeOK
<1> QED
  BY <1>1, <1>2 DEF A!Fault, A!NoFault, A!TypeOK, A!OneAccount, A!StoredIsKnown, StoredLater,
     SessionHasProfile, A!Ended

\* A login replaces the sessions of its account.
LEMMA LoginKeeps ==
  ASSUME A!TypeOK, SessionInv, NEW u \in Regs, NEW t \in A!Tokens, A!CreateLoginSession(u, t),
         stored' = stored
  PROVE  /\ SessionInv'
         /\ tok' \in [A!Tokens -> {"none", "active", "revoked", "deleted"}]
         /\ owner' \in [A!Tokens -> Regs \cup {A!None}]
BY DEF SessionInv, A!OneSession, A!SessionHasAccount, A!Active, A!TypeOK, A!CreateLoginSession,
   A!Fresh

LEMMA RegisterSessionStep ==
  ASSUME AuthInv, NEW r \in Regs, NEW t \in A!Tokens, A!RegisterSession(r, t) PROVE AuthInv'
<1> USE DEF AuthInv, AccountInv, A!RegisterSession
<1>1. /\ SessionInv'
      /\ tok' \in [A!Tokens -> {"none", "active", "revoked", "deleted"}]
      /\ owner' \in [A!Tokens -> Regs \cup {A!None}]
  BY LoginKeeps
<1>2. A!TypeOK' BY <1>1 DEF A!TypeOK, A!Steps, A!mail
<1> QED
  BY <1>1, <1>2 DEF A!TypeOK, A!OneAccount, A!StoredIsKnown, StoredLater, SessionHasProfile, A!Ended

\* A rotation finds the account's other sessions by the index.
LEMMA RotateStep ==
  ASSUME AuthInv, NEW p \in Clients, NEW t \in A!Tokens, A!RotateRefreshToken(p, t) PROVE AuthInv'
<1> USE DEF AuthInv
<1>1. PICK s \in sess[p] :
        /\ s.old # 0 /\ s.user \in stored /\ A!OnlyActive(s.user, s.old)
        /\ tok' = [x \in A!Tokens |-> IF x = t THEN "active"
                                    ELSE IF x = s.old /\ tok[x] # "deleted" THEN "revoked"
                                    ELSE tok[x]]
        /\ owner' = [owner EXCEPT ![t] = s.user]
  BY DEF A!RotateRefreshToken
<1>2. tok[t] = "none" /\ UNCHANGED <<A!register, A!mail, faults>> /\ sess' = [sess EXCEPT ![p] = {}]
  BY DEF A!RotateRefreshToken, A!Fresh
<1>3. s.user \in Regs BY <1>1 DEF AccountInv, A!TypeOK
<1>4. A!TypeOK' BY <1>1, <1>2, <1>3 DEF AccountInv, A!TypeOK, A!register, A!mail
<1>5. SessionInv'
  BY <1>1, <1>2, <1>3 DEF AccountInv, A!TypeOK, SessionInv, A!OneSession, A!SessionHasAccount,
     A!Active, A!OnlyActive,
     A!register
<1> QED BY <1>2, <1>4, <1>5, SameAccounts

LEMMA SessionStep == ASSUME AuthInv, NEW p \in Clients, A!Session(p) PROVE AuthInv'
<1> USE DEF AuthInv
<1>1. CASE \E u \in Regs : A!Login(p, u)
  <2>1. A!TypeOK' BY <1>1 DEF AccountInv, A!TypeOK, A!Login, A!register, A!mail, A!tokens,
       A!AuthAssumption
  <2> QED BY <1>1, <2>1, SameAccounts, SameSessions DEF A!Login, A!register
<1>2. ASSUME NEW t \in A!Tokens, A!LoginSession(p, t) PROVE AuthInv'
  <2>1. PICK s \in sess[p] : A!CreateLoginSession(s.user, t) BY <1>2 DEF A!LoginSession
  <2>2. s.user \in Regs BY <2>1 DEF AccountInv, A!TypeOK
  <2>3. UNCHANGED <<A!register, A!mail, faults>> /\ stored' = stored
        /\ sess' = [sess EXCEPT ![p] = {}]
    BY <1>2 DEF A!LoginSession, A!register
  <2>4. /\ SessionInv'
        /\ tok' \in [A!Tokens -> {"none", "active", "revoked", "deleted"}]
        /\ owner' \in [A!Tokens -> Regs \cup {A!None}]
    BY <2>1, <2>2, <2>3, LoginKeeps DEF AccountInv
  <2>5. A!TypeOK' BY <2>3, <2>4 DEF AccountInv, A!TypeOK, A!register, A!mail
  <2> QED BY <2>3, <2>4, <2>5, SameAccounts
<1>3. ASSUME NEW t \in A!Tokens, A!RefreshToken(p, t) PROVE AuthInv'
  <2>1. owner[t] \in Regs /\ t \in 0..MaxTokens
    BY <1>3 DEF A!RefreshToken, SessionInv, A!SessionHasAccount, AccountInv, A!TypeOK, A!Tokens,
       A!AuthAssumption
  <2>2. A!TypeOK' BY <1>3, <2>1 DEF AccountInv, A!TypeOK, A!RefreshToken, A!register, A!mail,
       A!tokens
  <2> QED BY <1>3, <2>2, SameAccounts, SameSessions DEF A!RefreshToken, A!register
<1>4. CASE A!SessionFails(p)
  <2>1. A!TypeOK' BY <1>4 DEF AccountInv, A!TypeOK, A!SessionFails, A!register, A!mail, A!tokens
  <2> QED BY <1>4, <2>1, SameAccounts, SameSessions DEF A!SessionFails, A!register
<1> QED BY <1>1, <1>2, <1>3, <1>4, RotateStep DEF A!Session

LEMMA RevokeStep == ASSUME AuthInv, NEW u \in Regs, A!RevokeRefreshTokensByUserID(u) PROVE AuthInv'
<1> USE DEF AuthInv, A!RevokeRefreshTokensByUserID
<1>1. A!TypeOK' BY DEF AccountInv, A!TypeOK, A!register, A!mail
<1>2. SessionInv'
  BY DEF SessionInv, A!OneSession, A!SessionHasAccount, A!Active, AccountInv, A!TypeOK, A!register
<1> QED BY <1>1, <1>2, SameAccounts

\* The steps of the e-mail address.
LEMMA MailStep ==
  ASSUME AuthInv, UNCHANGED <<A!register, A!tokens, sess>>, A!TypeOK' PROVE AuthInv'
BY SameAccounts, SameSessions DEF AuthInv, A!register

LEMMA MailTypes ==
  ASSUME AuthInv,
         \/ \E u \in Regs : A!ResendVerificationEmail(u)
         \/ \E v \in Verifiers :
              (\E u \in Regs : A!VerifyEmail(v, u)) \/ A!MarkEmailVerified(v) \/ A!VerifyStops(v)
         \/ A!CooldownPasses \/ A!CodeExpires
  PROVE  UNCHANGED <<A!register, A!tokens, sess>> /\ A!TypeOK'
<1> USE DEF AuthInv, AccountInv, A!TypeOK, A!register, A!tokens, A!AuthAssumption
<1>1. CASE \E u \in Regs : A!ResendVerificationEmail(u)
  BY <1>1 DEF A!ResendVerificationEmail, A!SetOTP
<1>2. ASSUME NEW v \in Verifiers, \E u \in Regs : A!VerifyEmail(v, u)
      PROVE  UNCHANGED <<A!register, A!tokens, sess>> /\ A!TypeOK'
  BY <1>2 DEF A!VerifyEmail
<1>3. ASSUME NEW v \in Verifiers, A!MarkEmailVerified(v) \/ A!VerifyStops(v)
      PROVE  UNCHANGED <<A!register, A!tokens, sess>> /\ A!TypeOK'
  BY <1>3 DEF A!MarkEmailVerified, A!VerifyStops
<1>4. CASE A!CooldownPasses \/ A!CodeExpires
  BY <1>4 DEF A!CooldownPasses, A!CodeExpires
<1> QED BY <1>1, <1>2, <1>3, <1>4

LEMMA AuthNext == AuthInv /\ [A!Next]_A!vars => AuthInv'
<1> SUFFICES ASSUME AuthInv, [A!Next]_A!vars PROVE AuthInv' OBVIOUS
<1>1. CASE UNCHANGED A!vars
  <2>1. A!TypeOK' BY <1>1 DEF A!vars, A!register, A!mail, A!tokens, AuthInv, AccountInv, A!TypeOK
  <2> QED BY <1>1, <2>1, MailStep DEF A!vars
<1>2. ASSUME NEW r \in Regs, A!Register(r) \/ A!Crash(r) \/ A!HandlePartnerRegistered(r)
      PROVE  AuthInv'
  BY <1>2, FirstSteps, ProfileSteps, UndoStep, RegisterSessionStep DEF A!Register
<1> QED
  BY <1>1, <1>2, RevokeStep, SessionStep, MailStep, MailTypes DEF A!Next

\* Accounts, profiles and sessions agree in the middle of any number of registrations and of
\* their compensations (Register, DeleteCredential).
THEOREM AccountsAreRightAlways == A!AuthAssumption => (A!Spec => []A!AccountsAreRight)
<1>1. AuthInv => A!AccountsAreRight
  BY DEF AuthInv, AccountInv, SessionInv, A!AccountsAreRight
<1> QED BY <1>1, AuthInit, AuthNext, PTL DEF A!Spec

\* However logins, refreshes and registrations race, an account has one live session
\* (CreateLoginSession, RotateRefreshToken).
THEOREM OneSessionAlways == A!AuthAssumption => (A!Spec => []A!OneSession)
<1>1. AuthInv => A!OneSession BY DEF AuthInv, SessionInv
<1> QED BY <1>1, AuthInit, AuthNext, PTL DEF A!Spec
=============================================================================
