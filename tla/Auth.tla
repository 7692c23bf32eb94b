-------------------------------- MODULE Auth --------------------------------
(***************************************************************************)
(* auth-service: the registration of one account (an e-mail address with a *)
(* role) across auth-service and the service that keeps its profile, the   *)
(* verification of its address, and its sessions.                          *)
(*                                                                         *)
(* A registration makes several transactions and a call to another         *)
(* service, and undoes the first by hand when the call fails.  Sessions    *)
(* are rows of refresh_tokens, read without a lock and replaced in a later *)
(* transaction.  An account is known by the request that stored it.        *)
(* Passwords, hashes and lockout are the nondeterminism of a login.        *)
(***************************************************************************)
EXTENDS Naturals

CONSTANTS
  Regs,       \* Register requests for the account
  Roles,      \* roles the account may have
  Procs,      \* concurrent logins and refreshes
  Verifiers,  \* concurrent VerifyEmail requests
  Codes,      \* one-time codes
  MaxTokens,  \* bound: refresh tokens ever issued
  MaxFaults   \* bound: requests that stop half way, answers and mails lost

Tokens == 1..MaxTokens

ASSUME AuthAssumption ==
  /\ Roles \subseteq {"USER", "MERCHANT", "DELIVERY_PARTNER"}
  /\ MaxTokens \in Nat /\ MaxFaults \in Nat

VARIABLES
  role,      \* the role asked for
  reg,       \* the next step of a Register request
  stored,    \* auth_credentials: the requests whose row is there
  profiles,  \* profiles in the service of the role, by the request that made them
  told,      \* PartnerRegistered, UserRegistered or MerchantRegistered is published or stored
  hurt,      \* history: requests that met a fault
  verified,  \* email_verified
  code,      \* the one-time code kept for the account
  young,     \* it was set less than the cooldown ago
  inbox,     \* the code mailed last
  verify,    \* the credential a VerifyEmail request is about to mark
  tok,       \* a refresh token: "none", "active", "revoked" or "deleted"
  owner,     \* whose it is
  sess,      \* what a login or refresh has read, if any: a set of at most one
  faults

register == <<role, reg, stored, profiles, told, hurt>>
mail == <<verified, code, young, inbox, verify>>
tokens == <<tok, owner>>
vars == <<register, mail, tokens, sess, faults>>

None == "none"
Steps == {"new", "checked", "code", "profile", "undo", "session", "ok", "refused"}
Ended == {"ok", "refused"}

Init ==
  /\ role \in Roles
  /\ reg = [r \in Regs |-> "new"]
  /\ stored = {} /\ profiles = {} /\ told = {} /\ hurt = {}
  /\ verified = {} /\ code = None /\ young = FALSE /\ inbox = None
  /\ verify = [v \in Verifiers |-> None]
  /\ tok = [t \in Tokens |-> "none"]
  /\ owner = [t \in Tokens |-> None]
  /\ sess = [p \in Procs |-> {}]
  /\ faults = 0

\* A fault that the request r notices or not.
Fault(r) ==
  /\ faults < MaxFaults
  /\ faults' = faults + 1
  /\ hurt' = hurt \cup {r}

NoFault == UNCHANGED <<faults, hurt>>

-----------------------------------------------------------------------------
(* Register *)

GetByEmailAndRole == stored # {}

\* A look-up that fails counts as one that finds nothing.
CheckAccount(r) ==
  /\ reg[r] = "new"
  /\ \/ reg' = [reg EXCEPT ![r] = IF GetByEmailAndRole THEN "refused" ELSE "checked"] /\ NoFault
     \/ reg' = [reg EXCEPT ![r] = "checked"] /\ Fault(r)
  /\ UNCHANGED <<role, stored, profiles, told, mail, tokens, sess>>

\* idx_auth_credentials_email_role
AccountTaken == stored # {}

CreateCredential(r) ==
  /\ reg[r] = "checked"
  /\ IF AccountTaken
     THEN reg' = [reg EXCEPT ![r] = "refused"] /\ UNCHANGED stored
     ELSE reg' = [reg EXCEPT ![r] = "code"] /\ stored' = stored \cup {r}
  /\ UNCHANGED <<role, profiles, told, hurt, mail, tokens, sess, faults>>

\* SetOTP; its failure is logged, and the mail that follows may be lost.
SetOTP(c) ==
  /\ code' = c /\ young' = TRUE
  /\ \/ inbox' = c /\ UNCHANGED faults
     \/ inbox' = inbox /\ faults < MaxFaults /\ faults' = faults + 1
  /\ UNCHANGED <<verified, verify>>

SendCode(r) ==
  /\ reg[r] = "code"
  /\ reg' = [reg EXCEPT ![r] = "profile"]
  /\ \/ \E c \in Codes : SetOTP(c)
     \/ faults < MaxFaults /\ faults' = faults + 1 /\ UNCHANGED mail
  /\ UNCHANGED <<role, stored, profiles, told, hurt, tokens, sess>>

\* user-service keeps one user for an e-mail address.
ProfileTaken == role = "USER" /\ profiles # {}

\* Mutant: a profile that cannot be made is only logged, whatever the role.
AfterFailureGoOn == "session"

\* A customer or merchant without a profile is given up; a delivery partner is told
\* to delivery-service by its event too.
AfterFailure == IF role = "DELIVERY_PARTNER" THEN "session" ELSE "undo"

\* CreateUser, CreateMerchant or CreatePartnerProfile.  The answer can be lost.
CreateProfile(r) ==
  /\ reg[r] = "profile"
  /\ \/ /\ ~ProfileTaken
        /\ profiles' = profiles \cup {r}
        /\ reg' = [reg EXCEPT ![r] = "session"] /\ NoFault
     \/ /\ ~ProfileTaken
        /\ profiles' = profiles \cup {r}
        /\ reg' = [reg EXCEPT ![r] = AfterFailure] /\ Fault(r)
     \/ /\ reg' = [reg EXCEPT ![r] = AfterFailure]
        /\ NoFault /\ UNCHANGED profiles
  /\ told' \in IF role = "DELIVERY_PARTNER" THEN {told, told \cup {r}} ELSE {told}
  /\ UNCHANGED <<role, stored, mail, tokens, sess>>

\* DELETE, with the refresh tokens by ON DELETE CASCADE.
DeleteCredential(r) ==
  /\ stored' = stored \ {r}
  /\ verified' = verified \ {r}
  /\ tok' = [t \in Tokens |-> IF owner[t] = r /\ tok[t] # "none" THEN "deleted" ELSE tok[t]]

\* Its error is dropped.
Undo(r) ==
  /\ reg[r] = "undo"
  /\ reg' = [reg EXCEPT ![r] = "refused"]
  /\ \/ DeleteCredential(r) /\ NoFault
     \/ UNCHANGED <<stored, verified, tok>> /\ Fault(r)
  /\ UNCHANGED <<role, profiles, told, code, young, inbox, verify, owner, sess>>

\* A request stops half way.
Crash(r) ==
  /\ reg[r] \notin Ended \cup {"new"}
  /\ reg' = [reg EXCEPT ![r] = "refused"]
  /\ Fault(r)
  /\ UNCHANGED <<role, stored, profiles, told, mail, tokens, sess>>

\* The consumer of delivery-service.
HandlePartnerRegistered(r) ==
  /\ role = "DELIVERY_PARTNER" /\ r \in told
  /\ profiles' = profiles \cup {r}
  /\ UNCHANGED <<role, reg, stored, told, hurt, mail, tokens, sess, faults>>

-----------------------------------------------------------------------------
(* Sessions *)

Active(u) == {t \in Tokens : owner[t] = u /\ tok[t] = "active"}

Fresh(t) == tok[t] = "none" /\ \A s \in 1..(t - 1) : tok[s] # "none"

\* CreateLoginSession: the account's tokens are deleted and one is inserted, which
\* needs the account's row (foreign key).
CreateLoginSession(u, t) ==
  /\ u \in stored
  /\ Fresh(t)
  /\ tok' = [s \in Tokens |-> IF s = t THEN "active"
                              ELSE IF owner[s] = u /\ tok[s] # "none" THEN "deleted"
                              ELSE tok[s]]
  /\ owner' = [owner EXCEPT ![t] = u]

\* The end of a registration, with its event.
RegisterSession(r, t) ==
  /\ reg[r] = "session"
  /\ CreateLoginSession(r, t)
  /\ told' = told \cup {r}
  /\ reg' = [reg EXCEPT ![r] = "ok"]
  /\ UNCHANGED <<role, stored, profiles, hurt, mail, sess, faults>>

\* Login up to the comparison of the password, which succeeded.
Login(p, u) ==
  /\ sess[p] = {}
  /\ u \in stored /\ u \in verified
  /\ sess' = [sess EXCEPT ![p] = {[user |-> u, old |-> 0]}]
  /\ UNCHANGED <<register, mail, tokens, faults>>

LoginSession(p, t) ==
  /\ \E s \in sess[p] : s.old = 0 /\ CreateLoginSession(s.user, t)
  /\ sess' = [sess EXCEPT ![p] = {}]
  /\ UNCHANGED <<register, mail, faults>>

\* RefreshToken up to the rotation: the token is there, not revoked and not expired.
RefreshToken(p, t) ==
  /\ sess[p] = {}
  /\ tok[t] = "active"
  /\ sess' = [sess EXCEPT ![p] = {[user |-> owner[t], old |-> t]}]
  /\ UNCHANGED <<register, mail, tokens, faults>>

\* Mutant: no unique index on the active tokens of a user.
NothingActive(u, old) == TRUE

\* idx_refresh_tokens_user_id_active_unique
OnlyActive(u, old) == Active(u) \subseteq {old}

\* The old token is revoked if its row is still there, whatever its state, and the new
\* one inserted.
RotateRefreshToken(p, t) ==
  /\ Fresh(t)
  /\ \E s \in sess[p] :
       /\ s.old # 0
       /\ s.user \in stored
       /\ OnlyActive(s.user, s.old)
       /\ tok' = [x \in Tokens |-> IF x = t THEN "active"
                                   ELSE IF x = s.old /\ tok[x] # "deleted" THEN "revoked"
                                   ELSE tok[x]]
       /\ owner' = [owner EXCEPT ![t] = s.user]
  /\ sess' = [sess EXCEPT ![p] = {}]
  /\ UNCHANGED <<register, mail, faults>>

\* The transaction is rolled back: a constraint, or an error of the database.
SessionFails(p) ==
  /\ sess[p] # {}
  /\ sess' = [sess EXCEPT ![p] = {}]
  /\ UNCHANGED <<register, mail, tokens, faults>>

\* Logout, ChangePassword and ResetPasswordWithOtp revoke what is active.
RevokeRefreshTokensByUserID(u) ==
  /\ Active(u) # {}
  /\ tok' = [t \in Tokens |-> IF t \in Active(u) THEN "revoked" ELSE tok[t]]
  /\ UNCHANGED <<register, mail, owner, sess, faults>>

-----------------------------------------------------------------------------
(* The e-mail address *)

\* VerifyEmail: the code must be the stored one, and is deleted before the row is marked.
VerifyEmail(v, u) ==
  /\ verify[v] = None
  /\ u \in stored \ verified
  /\ code # None /\ inbox = code
  /\ code' = None /\ young' = FALSE
  /\ verify' = [verify EXCEPT ![v] = u]
  /\ UNCHANGED <<register, verified, inbox, tokens, sess, faults>>

\* An UPDATE, which finds no row when the account was undone meanwhile.
MarkEmailVerified(v) ==
  /\ verify[v] # None
  /\ verified' = verified \cup ({verify[v]} \cap stored)
  /\ verify' = [verify EXCEPT ![v] = None]
  /\ UNCHANGED <<register, code, young, inbox, tokens, sess, faults>>

\* The request stops between the two.
VerifyStops(v) ==
  /\ verify[v] # None
  /\ faults < MaxFaults /\ faults' = faults + 1
  /\ verify' = [verify EXCEPT ![v] = None]
  /\ UNCHANGED <<register, verified, code, young, inbox, tokens, sess>>

\* Mutant: no new code while one is stored.
MayResendLate == code = None

\* Only a stored code younger than the cooldown stands in the way.
MayResend == code = None \/ ~young

ResendVerificationEmail(u) ==
  /\ u \in stored \ verified
  /\ MayResend
  /\ \E c \in Codes : SetOTP(c)
  /\ UNCHANGED <<register, tokens, sess>>

CooldownPasses ==
  /\ young
  /\ young' = FALSE
  /\ UNCHANGED <<register, verified, code, inbox, verify, tokens, sess, faults>>

CodeExpires ==
  /\ code # None /\ ~young
  /\ code' = None
  /\ UNCHANGED <<register, verified, young, inbox, verify, tokens, sess, faults>>

-----------------------------------------------------------------------------
Register(r) ==
  \/ CheckAccount(r) \/ CreateCredential(r) \/ SendCode(r) \/ CreateProfile(r) \/ Undo(r)
  \/ \E t \in Tokens : RegisterSession(r, t)

Session(p) ==
  \/ \E u \in Regs : Login(p, u)
  \/ \E t \in Tokens : LoginSession(p, t) \/ RefreshToken(p, t) \/ RotateRefreshToken(p, t)
  \/ SessionFails(p)

Next ==
  \/ \E r \in Regs :
       \/ Register(r) \/ Crash(r) \/ HandlePartnerRegistered(r)
       \/ ResendVerificationEmail(r) \/ RevokeRefreshTokensByUserID(r)
  \/ \E p \in Procs : Session(p)
  \/ \E v \in Verifiers :
       \/ \E u \in Regs : VerifyEmail(v, u)
       \/ MarkEmailVerified(v) \/ VerifyStops(v)
  \/ CooldownPasses
  \/ CodeExpires

Spec == Init /\ [][Next]_vars

\* Time passes, and the owner of the account asks for codes and enters the one in the
\* inbox until it is accepted.
FairSpec ==
  /\ Spec
  /\ \A r \in Regs :
       /\ WF_vars(ResendVerificationEmail(r))
       /\ SF_vars(\E v \in Verifiers : VerifyEmail(v, r))
  /\ \A v \in Verifiers : WF_vars(MarkEmailVerified(v))
  /\ WF_vars(CooldownPasses)

-----------------------------------------------------------------------------
(* Properties *)

TypeOK ==
  /\ role \in Roles /\ reg \in [Regs -> Steps]
  /\ stored \subseteq Regs /\ profiles \subseteq Regs /\ told \subseteq Regs
  /\ hurt \subseteq Regs /\ verified \subseteq stored
  /\ code \in Codes \cup {None} /\ young \in BOOLEAN /\ inbox \in Codes \cup {None}
  /\ verify \in [Verifiers -> Regs \cup {None}]
  /\ tok \in [Tokens -> {"none", "active", "revoked", "deleted"}]
  /\ owner \in [Tokens -> Regs \cup {None}]
  /\ sess \in [Procs -> SUBSET [user : Regs, old : 0..MaxTokens]]
  /\ faults \in 0..MaxFaults

\* Two registrations that both found the address free leave one account
\* (idx_auth_credentials_email_role).
OneAccount == \A r, s \in stored : r = s

\* An account has at most one live session, though refreshes, logins and a registration
\* race for it (RotateRefreshToken, CreateLoginSession, the partial unique index).
OneSession == \A u \in Regs : \A s, t \in Active(u) : s = t

\* A live session belongs to an account: an account that is undone takes its sessions
\* with it, and none is opened for it later (the foreign key).
SessionHasAccount == \A t \in Tokens : tok[t] = "active" => owner[t] \in stored

\* An account whose registration has ended, well or not, has a profile in the service of
\* its role (a partner at least its event), unless the request met a fault: the
\* compensation of Register leaves no account behind.
StoredIsKnown ==
  \A r \in stored \ hurt : reg[r] \in Ended =>
    r \in profiles \/ (role = "DELIVERY_PARTNER" /\ r \in told)

\* Accounts, profiles and sessions agree, in the middle of registrations and of their
\* compensation (Register and its calls of DeleteCredential).
AccountsAreRight ==
  /\ TypeOK
  /\ OneAccount
  /\ SessionHasAccount
  /\ StoredIsKnown

\* An account that stays can be verified in the end, though codes expire, mails are lost
\* and a request stops after it deleted the code (ResendVerificationEmail, VerifyEmail).
EventuallyVerified == \A r \in Regs : (reg[r] = "ok") ~> (r \in verified)
=============================================================================
