------------------------------ MODULE Delivery ------------------------------
(***************************************************************************)
(* delivery-service: the delivery of an order and the delivery partners.   *)
(*                                                                         *)
(* A handler is a process: it reads without a lock, decides on what it     *)
(* read (VerifyGSTIN asks the GST database in between), and writes later.  *)
(* A delivery's status is checked again under FOR UPDATE; a partner's      *)
(* profile is not: the whole row that was read, with the changes, is       *)
(* written over whatever is there (CreateOrUpdatePartnerProfile).          *)
(*                                                                         *)
(* There is one partner; order-service, which may say that an order is not  *)
(* PAID or not answer at all, and the GST database are external.           *)
(***************************************************************************)
EXTENDS Naturals, Sequences, SequencesExt

CONSTANTS
  Orders,
  Procs,       \* concurrent handlers
  Names,       \* company names, "" for none
  Gstins,      \* GSTINs, "" for NULL
  Registered   \* the <<name, gstin>> pairs the GST database confirms

ASSUME DeliveryAssumption ==
  /\ Registered \subseteq Names \X Gstins
  /\ \A pair \in Registered : "" \notin {pair[1], pair[2]}

VARIABLES
  status,    \* deliveries.status of an order, "none" before the insert
  created,   \* DeliveryCreated events of an order
  moves,     \* DeliveryStatusChanged events of an order: <<previous, new>> in order
  profile,   \* the row of delivery_partner_profiles
  approved,  \* history: company names an administrator has approved
  proc       \* what a handler is about to do

deliveries == <<status, created, moves>>
partner == <<profile, approved>>
vars == <<deliveries, partner, proc>>

None == "none"
Statuses == {"CREATED", "PICKED_UP", "IN_TRANSIT", "OUT_FOR_DELIVERY", "DELIVERED", "FAILED",
             "CANCELLED"}
ApprovalStatuses == {"PENDING", "APPROVED", "REJECTED", "APPEALED"}

\* deactivated_at and deleted_at: whether they are set.
Profile ==
  [name : Names, gstin : Gstins, verified : BOOLEAN, active : BOOLEAN,
   approval : ApprovalStatuses, deactivated : BOOLEAN, deleted : BOOLEAN]
NoProfile == [approval |-> None]

Idle == [step |-> "idle"]
Work ==
  [step : {"create"}, order : Orders] \cup [step : {"move"}, order : Orders, to : Statuses]
    \cup [step : {"save"}, row : Profile] \cup {[step |-> "delete"]}

Init ==
  /\ status = [o \in Orders |-> None]
  /\ created = [o \in Orders |-> 0]
  /\ moves = [o \in Orders |-> <<>>]
  /\ profile = NoProfile
  /\ approved = {}
  /\ proc = [p \in Procs |-> Idle]

Become(p, work) == proc' = [proc EXCEPT ![p] = work]
Finish(p) == Become(p, Idle)
At(p, step) == proc[p].step = step

-----------------------------------------------------------------------------
(* Deliveries *)

\* AllowedTransitions
Successors(s) ==
  CASE s = "CREATED" -> {"PICKED_UP", "CANCELLED", "FAILED"}
    [] s = "PICKED_UP" -> {"IN_TRANSIT", "FAILED"}
    [] s = "IN_TRANSIT" -> {"OUT_FOR_DELIVERY", "FAILED"}
    [] s = "OUT_FOR_DELIVERY" -> {"DELIVERED", "FAILED"}
    [] OTHER -> {}

TransitionStatus(s, t) == s = t \/ t \in Successors(s)

\* The profile may take deliveries.
Serving(row) == row # NoProfile /\ row.approval = "APPROVED" /\ row.active /\ row.verified

\* The event OrderConfirmed, or the RPC CreateDelivery, for an order without a delivery.
\* A partner may be named, and one without a profile passes.
HandleOrderConfirmed(p, o, named) ==
  /\ proc[p] = Idle
  /\ status[o] = None
  /\ named => profile = NoProfile \/ Serving(profile)
  /\ Become(p, [step |-> "create", order |-> o])
  /\ UNCHANGED <<deliveries, partner>>

\* Mutant: the event is stored also when the row was there already.
CreateTellsAgain(p) ==
  LET o == proc[p].order IN
  /\ At(p, "create")
  /\ status' = [status EXCEPT ![o] = IF @ = None THEN "CREATED" ELSE @]
  /\ created' = [created EXCEPT ![o] = @ + 1]
  /\ Finish(p)
  /\ UNCHANGED <<moves, partner>>

\* Row and event in one transaction; a second insert finds order_id taken.
Create(p) ==
  LET o == proc[p].order IN
  /\ At(p, "create")
  /\ IF status[o] = None
     THEN /\ status' = [status EXCEPT ![o] = "CREATED"]
          /\ created' = [created EXCEPT ![o] = @ + 1]
     ELSE UNCHANGED <<status, created>>
  /\ Finish(p)
  /\ UNCHANGED <<moves, partner>>

\* A webhook or an administrator; a repeated status changes nothing.
ProcessStatusUpdate(p, o, to) ==
  /\ proc[p] = Idle
  /\ status[o] # None
  /\ status[o] # to
  /\ TransitionStatus(status[o], to)
  /\ Become(p, [step |-> "move", order |-> o, to |-> to])
  /\ UNCHANGED <<deliveries, partner>>

\* Mutant: the transition is not checked again under the lock.
MoveUnchecked(p) ==
  LET o == proc[p].order
      to == proc[p].to IN
  /\ At(p, "move")
  /\ status' = [status EXCEPT ![o] = to]
  /\ moves' = [moves EXCEPT ![o] = Append(@, <<status[o], to>>)]
  /\ Finish(p)
  /\ UNCHANGED <<created, partner>>

\* FOR UPDATE, the same checks once more, the row and its events.
UpdateStatusWithDetails(p) ==
  LET o == proc[p].order
      to == proc[p].to IN
  /\ At(p, "move")
  /\ IF status[o] # to /\ TransitionStatus(status[o], to)
     THEN /\ status' = [status EXCEPT ![o] = to]
          /\ moves' = [moves EXCEPT ![o] = Append(@, <<status[o], to>>)]
     ELSE UNCHANGED <<status, moves>>
  /\ Finish(p)
  /\ UNCHANGED <<created, partner>>

-----------------------------------------------------------------------------
(* Partner profiles: what the operations read and decide *)

NewProfile(name, gstin) ==
  [name |-> name, gstin |-> gstin, verified |-> FALSE, active |-> TRUE, approval |-> "PENDING",
   deactivated |-> FALSE, deleted |-> FALSE]

\* Mutant: the flags of the stored row are kept.
UpsertKeepsFlags(row) ==
  IF profile = NoProfile
  THEN row
  ELSE [profile EXCEPT !.name = IF row.name = "" THEN @ ELSE row.name,
                       !.gstin = IF row.gstin = "" THEN @ ELSE row.gstin,
                       !.approval = IF @ = "APPROVED" THEN @ ELSE row.approval,
                       !.verified = row.verified, !.active = row.active]

\* ON CONFLICT (partner_id) DO UPDATE: an empty name or GSTIN keeps the stored one.
Upsert(row) ==
  IF profile = NoProfile
  THEN row
  ELSE [row EXCEPT !.name = IF @ = "" THEN profile.name ELSE @,
                   !.gstin = IF @ = "" THEN profile.gstin ELSE @]

Alive == profile # NoProfile /\ ~profile.deleted

\* A handler that will write row.
Submit(p, row) ==
  /\ proc[p] = Idle
  /\ Become(p, [step |-> "save", row |-> row])
  /\ UNCHANGED <<deliveries, profile>>

Save(p, row) == Submit(p, row) /\ UNCHANGED approved

\* The event PartnerRegistered, once or more, or the RPC CreatePartnerProfile.
CreateOrUpdatePartnerProfile(p, name, gstin) == Save(p, NewProfile(name, gstin))

\* Another name or GSTIN has to be verified and approved again.
Reset(row) == [row EXCEPT !.verified = FALSE, !.approval = "PENDING", !.active = FALSE]

Rename(row, name) == IF row.name = name THEN row ELSE [Reset(row) EXCEPT !.name = name]
SetGstin(row, gstin) == IF row.gstin = gstin THEN row ELSE [Reset(row) EXCEPT !.gstin = gstin]

\* A profile that does not exist is made.
UpdatePartnerProfile(p, name, gstin) ==
  /\ profile # NoProfile => Alive
  /\ Save(p, SetGstin(Rename(IF Alive THEN profile ELSE NewProfile("", ""), name), gstin))

\* Refused by the GST database, or not the company's name.
Unverified(row) == [row EXCEPT !.verified = FALSE]

\* The GSTIN of the request, of the row when there is none; the GST database may fail.
VerifyGSTIN(p, gstin) ==
  /\ Alive
  /\ \/ Save(p, Unverified(profile))
     \/ /\ <<profile.name, gstin>> \in Registered
        /\ Save(p, [profile EXCEPT !.gstin = gstin, !.verified = TRUE,
                                   !.approval = IF @ = "APPROVED" THEN @ ELSE "PENDING"])

ActivatePartner(p) ==
  /\ Alive
  /\ profile.approval = "APPROVED" /\ profile.verified
  /\ Save(p, [profile EXCEPT !.active = TRUE, !.deactivated = FALSE])

DeactivatePartner(p) ==
  /\ Alive
  /\ Save(p, [profile EXCEPT !.active = FALSE, !.deactivated = TRUE])

ApprovePartner(p) ==
  /\ Alive
  /\ profile.gstin # "" /\ profile.verified
  /\ profile.approval \in {"PENDING", "APPEALED"}
  /\ Submit(p, [profile EXCEPT !.approval = "APPROVED", !.verified = TRUE, !.active = TRUE])
  /\ approved' = approved \cup {profile.name}

RejectPartner(p) ==
  /\ Alive
  /\ profile.approval \in {"PENDING", "APPEALED"}
  /\ Save(p, [profile EXCEPT !.approval = "REJECTED"])

AppealRejection(p) ==
  /\ Alive
  /\ profile.approval = "REJECTED"
  /\ Save(p, [profile EXCEPT !.approval = "APPEALED"])

DeletePartnerProfile(p) ==
  /\ proc[p] = Idle
  /\ Alive
  /\ Become(p, [step |-> "delete"])
  /\ UNCHANGED <<deliveries, partner>>

-----------------------------------------------------------------------------
(* Partner profiles: the repository writes *)

SaveProfile(p) ==
  /\ At(p, "save")
  /\ profile' = Upsert(proc[p].row)
  /\ Finish(p)
  /\ UNCHANGED <<deliveries, approved>>

SoftDeletePartnerProfile(p) ==
  /\ At(p, "delete")
  /\ profile' = IF Alive THEN [profile EXCEPT !.deleted = TRUE, !.active = FALSE] ELSE profile
  /\ Finish(p)
  /\ UNCHANGED <<deliveries, approved>>

\* The retention worker, once deactivated_at is old enough.
ProcessExpiredDeactivations ==
  /\ Alive
  /\ ~profile.active /\ profile.deactivated
  /\ profile' = [profile EXCEPT !.deleted = TRUE]
  /\ UNCHANGED <<deliveries, approved, proc>>

\* A call fails or the process stops.
Stop(p) == proc[p] # Idle /\ Finish(p) /\ UNCHANGED <<deliveries, partner>>

-----------------------------------------------------------------------------
DeliveryNext(p) ==
  \/ \E o \in Orders :
       \/ \E named \in BOOLEAN : HandleOrderConfirmed(p, o, named)
       \/ \E to \in Statuses : ProcessStatusUpdate(p, o, to)
  \/ Create(p)
  \/ UpdateStatusWithDetails(p)

PartnerNext(p) ==
  \/ \E name \in Names, gstin \in Gstins :
       CreateOrUpdatePartnerProfile(p, name, gstin) \/ UpdatePartnerProfile(p, name, gstin)
  \/ \E gstin \in Gstins \ {""} : VerifyGSTIN(p, gstin)
  \/ ActivatePartner(p) \/ DeactivatePartner(p)
  \/ ApprovePartner(p) \/ RejectPartner(p) \/ AppealRejection(p)
  \/ DeletePartnerProfile(p)
  \/ SaveProfile(p) \/ SoftDeletePartnerProfile(p)

Next ==
  \/ \E p \in Procs : DeliveryNext(p) \/ PartnerNext(p) \/ Stop(p)
  \/ ProcessExpiredDeactivations

Spec == Init /\ [][Next]_vars

-----------------------------------------------------------------------------
(* Properties *)

TypeOK ==
  /\ status \in [Orders -> Statuses \cup {None}]
  /\ created \in [Orders -> Nat]
  /\ moves \in [Orders -> Seq(Statuses \X Statuses)]
  /\ profile \in Profile \cup {NoProfile}
  /\ approved \subseteq Names
  /\ proc \in [Procs -> Work \cup {Idle}]

\* Whoever listens hears of one delivery for an order, however often and in how many
\* handlers at once OrderConfirmed arrives.
ToldOfOneDelivery == \A o \in Orders : created[o] = IF status[o] = None THEN 0 ELSE 1

\* The DeliveryStatusChanged events of a delivery lead, each one from where the last one
\* ended and along the allowed transitions, from CREATED to its status.
MovesArePath ==
  \A o \in Orders :
    LET m == moves[o] IN
    /\ \A i \in DOMAIN m :
         /\ m[i][2] \in Successors(m[i][1])
         /\ m[i][1] = IF i = 1 THEN "CREATED" ELSE m[i - 1][2]
    /\ m # <<>> => Last(m)[2] = status[o]

\* A verified profile has the company name and the GSTIN that the GST database confirmed
\* together, though the two are changed and verified by handlers that overwrite each other.
VerifiedIsRegistered ==
  profile # NoProfile /\ profile.verified => <<profile.name, profile.gstin>> \in Registered

\* A partner who may take deliveries has a name an administrator approved.
ServingIsApproved == Serving(profile) => profile.name \in approved

\* What the profile of a partner says is true: verified means registered, and serving means
\* approved (the whole-row writes of the profile operations).
ProfileIsRight ==
  /\ TypeOK
  /\ VerifiedIsRegistered
  /\ ServingIsApproved
=============================================================================
