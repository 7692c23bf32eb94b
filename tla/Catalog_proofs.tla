--------------------------- MODULE Catalog_proofs ---------------------------
(***************************************************************************)
(* Proofs about store-service and product-service, for any number of       *)
(* concurrent requests and appeals: what is listed was approved, what is   *)
(* on sale was vetted, and what is deleted stays so, although requests      *)
(* write what they decided on an old read.                                 *)
(***************************************************************************)
EXTENDS Catalog, TLAPS

-----------------------------------------------------------------------------
(* The inductive invariant *)

Rows == [status : StoreStatuses \cup {"NONE"}, published : BOOLEAN,
         kyc : {"NOT_SUBMITTED", "PENDING"}]
Shuts == {"SUSPENDED", "CLOSED"}
ProductSteps == {"askStore", "askMerchant", "product"}

\* What a request has in hand, with a: the store was approved, v: the merchant was approved
\* at some time.  The checks of the request are remembered although they may be stale.
CallFits(c, a, v) ==
  /\ c.step = "status" => c.move[2] \in {"PENDING_APPROVAL", "APPROVED", "REJECTED"}
  /\ c.step = "publish" => a
  /\ c.step = "update" => /\ c.row \in Rows
                          /\ c.row.published => a
                          /\ c.row.status = "APPROVED" => a
  /\ c.step = "unsuspend" => c \in [step : {"unsuspend"}, appeal : Nat]
  /\ c.step \in ProductSteps =>
       /\ c \in [step : ProductSteps, write : {"create", "update", "delete"},
                 status : ProductStatuses]
       /\ c.write = "delete" => c.status = "DELETED"
  /\ c.step = "askMerchant" => a
  /\ c.step = "product" /\ c.status = "PUBLISHED" => a /\ v

CallsFit == DOMAIN call = Procs /\ \A p \in Procs : CallFits(call[p], approved, vetted)

\* The histories remember the present.
HistoryIsKept ==
  /\ store.status = "APPROVED" => approved
  /\ merchant = "APPROVED" => vetted

\* While a store is shut and no request overlapped that, none is about to list it.
NoPublishPending ==
  store.status \in Shuts /\ ~raced => \A p \in Procs : call[p].step # "publish"

Inv ==
  /\ TypeOK
  /\ CallsFit
  /\ HistoryIsKept
  /\ ListedWasApproved
  /\ ShutIsUnlisted
  /\ NoPublishPending
  /\ SaleIsRight

\* The parts of the invariant by service.
StoreOK ==
  /\ store \in Rows
  /\ appeals \in Seq({"PENDING", "APPROVED"}) /\ Len(appeals) <= MaxAppeals
  /\ approved \in BOOLEAN /\ raced \in BOOLEAN
  /\ store.status = "APPROVED" => approved
  /\ ListedWasApproved
  /\ ShutIsUnlisted

MerchantOK ==
  /\ merchant \in {"PENDING", "APPROVED"} /\ vetted \in BOOLEAN
  /\ merchant = "APPROVED" => vetted

ProductOK ==
  /\ product \in [status : ProductStatuses \cup {"NONE"}, deleted : BOOLEAN]
  /\ product.deleted => product.status = "DELETED"
  /\ onSale \in BOOLEAN
  /\ SaleIsRight

LEMMA InvParts ==
  Inv <=> StoreOK /\ MerchantOK /\ ProductOK /\ CallsFit /\ NoPublishPending
BY DEF Inv, StoreOK, MerchantOK, ProductOK, TypeOK, HistoryIsKept, Rows

LEMMA InitInv == Init => Inv
<1> SUFFICES ASSUME Init PROVE Inv OBVIOUS
<1>1. <<>> \in Seq({"PENDING", "APPROVED"}) /\ Len(<<>>) = 0 OBVIOUS
<1>2. StoreOK
  <2>1. store \in Rows /\ store.status = "NONE" /\ ~store.published BY DEF Init, Rows
  <2>2. appeals \in Seq({"PENDING", "APPROVED"}) /\ Len(appeals) <= MaxAppeals
    BY <1>1, CatalogAssumption DEF Init
  <2>3. approved \in BOOLEAN /\ raced \in BOOLEAN BY DEF Init
  <2> QED BY <2>1, <2>2, <2>3 DEF StoreOK, ListedWasApproved, ShutIsUnlisted
<1>3. MerchantOK BY DEF Init, MerchantOK
<1>4. ProductOK BY DEF Init, ProductOK, SaleIsRight, OnSaleWasVetted, FeedIsRight
<1>5. CallsFit BY DEF Init, CallsFit, CallFits, idle, ProductSteps
<1>6. NoPublishPending BY DEF Init, NoPublishPending, Shuts
<1> QED BY <1>2, <1>3, <1>4, <1>5, <1>6, InvParts

-----------------------------------------------------------------------------
(* Frames *)

\* The histories only grow, and what is not written keeps its part of the invariant.
Grows == (approved => approved') /\ (vetted => vetted')

LEMMA SameStore == ASSUME StoreOK, UNCHANGED storeVars PROVE StoreOK'
BY DEF StoreOK, storeVars, ListedWasApproved, ShutIsUnlisted

LEMMA SameMerchant == ASSUME MerchantOK, UNCHANGED merchantVars PROVE MerchantOK'
BY DEF MerchantOK, merchantVars

LEMMA SameProduct == ASSUME ProductOK, UNCHANGED productVars, Grows PROVE ProductOK'
BY DEF ProductOK, productVars, SaleIsRight, OnSaleWasVetted, FeedIsRight, Grows

LEMMA FitsStill ==
  ASSUME NEW c, NEW a, NEW v, NEW b, NEW w, CallFits(c, a, v), a => b, v => w PROVE CallFits(c, b, w)
BY DEF CallFits

LEMMA SameCalls == ASSUME CallsFit, Grows, call' = call PROVE CallsFit'
BY FitsStill DEF CallsFit, Grows

\* One request goes on to c.
LEMMA OneCall ==
  ASSUME CallsFit, Grows, NEW p \in Procs, NEW c, CallFits(c, approved', vetted'),
         call' = [call EXCEPT ![p] = c]
  PROVE  CallsFit'
<1>1. DOMAIN call' = Procs /\ call'[p] = c /\ \A q \in Procs \ {p} : call'[q] = call[q]
  BY DEF CallsFit
<1>2. \A q \in Procs : CallFits(call'[q], approved', vetted')
  BY <1>1, FitsStill DEF CallsFit, Grows
<1> QED BY <1>1, <1>2 DEF CallsFit

LEMMA IdleFits == ASSUME NEW a, NEW v PROVE CallFits(idle, a, v)
BY DEF CallFits, idle, ProductSteps

LEMMA EndCalls == ASSUME CallsFit, Grows, NEW p \in Procs, End(p) PROVE CallsFit'
BY OneCall, IdleFits DEF End

\* No request becomes one that will list the store, and the store stays as it is.
LEMMA StillNonePending ==
  ASSUME NoPublishPending, DOMAIN call = Procs,
         (store.status \in Shuts /\ ~raced) \/ store'.status \notin Shuts \/ raced',
         \A p \in Procs : call'[p].step = "publish" => call[p].step = "publish"
  PROVE  NoPublishPending'
BY DEF NoPublishPending

LEMMA EndPending ==
  ASSUME NoPublishPending, CallsFit, NEW p \in Procs, End(p),
         (store.status \in Shuts /\ ~raced) \/ store'.status \notin Shuts \/ raced'
  PROVE  NoPublishPending'
<1>1. \A q \in Procs : call'[q].step = "publish" => call[q].step = "publish"
  BY DEF End, idle, CallsFit
<1> QED BY <1>1, StillNonePending DEF CallsFit
-----------------------------------------------------------------------------
(* Requests that only read *)

\* A request that found what it wanted holds c.
LEMMA ContinueInv ==
  ASSUME Inv, NEW p \in Procs, NEW c, CallFits(c, approved, vetted), Continue(p, c),
         c.step = "publish" => store.status \notin Shuts,
         UNCHANGED <<storeVars, merchantVars, productVars>>
  PROVE  Inv'
<1>1. StoreOK /\ MerchantOK /\ ProductOK /\ CallsFit /\ NoPublishPending BY InvParts
<1>2. Grows /\ CallFits(c, approved', vetted') BY DEF Grows, storeVars, merchantVars
<1>3. StoreOK' BY <1>1, SameStore
<1>4. MerchantOK' BY <1>1, SameMerchant
<1>5. ProductOK' BY <1>1, <1>2, SameProduct
<1>6. CallsFit' BY <1>1, <1>2, OneCall DEF Continue
<1>7. NoPublishPending'
  BY <1>1 DEF NoPublishPending, Continue, CallsFit, storeVars
<1> QED BY <1>3, <1>4, <1>5, <1>6, <1>7, InvParts, PTL

LEMMA ReadStoreInv == ASSUME Inv, NEW p \in Procs, ReadStore(p) PROVE Inv'
<1> USE DEF Look
<1>1. store \in Rows /\ (store.status = "APPROVED" => approved) /\ (store.published => approved)
  BY InvParts DEF StoreOK, ListedWasApproved
<1>2. ASSUME NEW move \in {<<"DRAFT", "PENDING_APPROVAL">>, <<"PENDING_APPROVAL", "APPROVED">>,
                           <<"PENDING_APPROVAL", "REJECTED">>},
             Look(p, store.status = move[1], [step |-> "status", move |-> move])
      PROVE  Inv'
  <2> DEFINE c == [step |-> "status", move |-> move]
  <2>1. c.step = "status" /\ c.move[2] \in {"PENDING_APPROVAL", "APPROVED", "REJECTED"} OBVIOUS
  <2> HIDE DEF c
  <2>2. CallFits(c, approved, vetted) BY <2>1 DEF CallFits, ProductSteps
  <2> QED BY <1>2, <2>1, <2>2, ContinueInv DEF c
<1>3. ASSUME Look(p, Publishable(store.status), [step |-> "publish"]) PROVE Inv'
  <2> DEFINE c == [step |-> "publish"]
  <2>1. c.step = "publish" OBVIOUS
  <2> HIDE DEF c
  <2>2. store.status = "APPROVED" BY <1>3 DEF Publishable
  <2>3. CallFits(c, approved, vetted) BY <1>1, <2>1, <2>2 DEF CallFits, ProductSteps
  <2> QED BY <1>3, <2>2, <2>3, ContinueInv DEF c, Shuts
<1>4. ASSUME Look(p, TRUE, [step |-> "update", row |-> store]) PROVE Inv'
  <2> DEFINE c == [step |-> "update", row |-> store]
  <2>1. c.step = "update" /\ c.row = store OBVIOUS
  <2> HIDE DEF c
  <2>2. CallFits(c, approved, vetted) BY <1>1, <2>1 DEF CallFits, ProductSteps
  <2> QED BY <1>4, <2>1, <2>2, ContinueInv DEF c
<1>5. ASSUME NEW i \in IF Pending = {} THEN {0} ELSE Pending,
             Look(p, store.status = "SUSPENDED", [step |-> "unsuspend", appeal |-> i])
      PROVE  Inv'
  <2> DEFINE c == [step |-> "unsuspend", appeal |-> i]
  <2>1. i \in Nat
    <3>1. DOMAIN appeals = 1..Len(appeals) /\ Len(appeals) \in Nat BY InvParts DEF StoreOK
    <3> QED BY <3>1 DEF Pending
  <2>2. c.step = "unsuspend" /\ c \in [step : {"unsuspend"}, appeal : Nat] BY <2>1
  <2> HIDE DEF c
  <2>3. CallFits(c, approved, vetted) BY <2>2 DEF CallFits, ProductSteps
  <2> QED BY <1>5, <2>2, <2>3, ContinueInv DEF c
<1>6. ASSUME Look(p, store.status \in {"SUSPENDED", "REJECTED"} /\ Pending = {}, [step |-> "appeal"])
      PROVE  Inv'
  <2> DEFINE c == [step |-> "appeal"]
  <2>1. c.step = "appeal" OBVIOUS
  <2> HIDE DEF c
  <2>2. CallFits(c, approved, vetted) BY <2>1 DEF CallFits, ProductSteps
  <2> QED BY <1>6, <2>1, <2>2, ContinueInv DEF c
<1> QED BY <1>2, <1>3, <1>4, <1>5, <1>6 DEF ReadStore

\* A product that is to be PUBLISHED is checked first, so the request that begins fits.
LEMMA FirstStepFits ==
  ASSUME NEW write \in {"create", "update", "delete"}, NEW status \in ProductStatuses,
         write = "delete" => status = "DELETED", NEW a, NEW v
  PROVE  CallFits(FirstStep(write, status), a, v) /\ FirstStep(write, status).step # "publish"
<1> DEFINE c == FirstStep(write, status)
<1>1. /\ c.step \in {"askStore", "product"}
      /\ c.write = write /\ c.status = status
      /\ c \in [step : ProductSteps, write : {"create", "update", "delete"}, status : ProductStatuses]
      /\ c.step = "product" => status # "PUBLISHED"
  BY DEF FirstStep, NeedsCheck, ProductSteps
<1> HIDE DEF c
<1>2. CallFits(c, a, v) /\ c.step # "publish" BY <1>1 DEF CallFits, ProductSteps
<1> QED BY <1>2 DEF c

LEMMA ReadProductInv ==
  ASSUME Inv, NEW p \in Procs, CreateProduct(p) \/ UpdateProduct(p) \/ DeleteProduct(p) PROVE Inv'
<1>1. CASE CreateProduct(p)
  BY <1>1, FirstStepFits, ContinueInv DEF CreateProduct
<1>2. CASE UpdateProduct(p)
  <2>1. product.status \in ProductStatuses BY <1>2, InvParts DEF ProductOK, UpdateProduct, Live
  <2>2. \A s \in ProductStatuses : allowedTransitions[s] \subseteq ProductStatuses
    BY DEF allowedTransitions, ProductStatuses
  <2>3. \A status \in {product.status} \cup allowedTransitions[product.status] :
          status \in ProductStatuses
    BY <2>1, <2>2
  <2> QED BY <1>2, <2>3, FirstStepFits, ContinueInv DEF UpdateProduct
<1>3. CASE DeleteProduct(p)
  <2>1. "DELETED" \in ProductStatuses BY DEF ProductStatuses
  <2> QED BY <1>3, <2>1, FirstStepFits, ContinueInv DEF DeleteProduct
<1> QED BY <1>1, <1>2, <1>3
-----------------------------------------------------------------------------
(* store-service writes *)

\* A store that is shut and was not raced stays what it is, or is opened, or is raced.
Kept == (store.status \in Shuts /\ ~raced) \/ store'.status \notin Shuts \/ raced'

\* A step of store-service ends a request, or is a request of its own.
LEMMA StoreStepInv ==
  ASSUME Inv, StoreOK', approved => approved', Kept, UNCHANGED <<merchantVars, productVars>>,
         call' = call \/ \E p \in Procs : End(p)
  PROVE  Inv'
<1>1. StoreOK /\ MerchantOK /\ ProductOK /\ CallsFit /\ NoPublishPending BY InvParts
<1>2. Grows BY DEF Grows, merchantVars
<1>3. MerchantOK' BY <1>1, SameMerchant
<1>4. ProductOK' BY <1>1, <1>2, SameProduct
<1>5. CallsFit' BY <1>1, <1>2, SameCalls, EndCalls
<1>6. NoPublishPending'
  <2>1. CASE call' = call BY <1>1, <2>1, StillNonePending DEF Kept, CallsFit
  <2>2. ASSUME NEW p \in Procs, End(p) PROVE NoPublishPending' BY <1>1, <2>2, EndPending DEF Kept
  <2> QED BY <2>1, <2>2
<1> QED BY <1>3, <1>4, <1>5, <1>6, InvParts, PTL

LEMMA UpdateStatusInv == ASSUME Inv, NEW p \in Procs, UpdateStatus(p) PROVE Inv'
<1>1. StoreOK /\ CallFits(call[p], approved, vetted) BY InvParts DEF CallsFit
<1>2. CASE UNCHANGED <<store, approved>>
  <2>1. UNCHANGED storeVars BY <1>2 DEF UpdateStatus, storeVars
  <2>2. StoreOK' /\ Kept BY <1>1, <2>1, SameStore DEF Kept, storeVars
  <2> QED BY <1>2, <2>2, StoreStepInv DEF UpdateStatus
<1>3. CASE /\ store' = [store EXCEPT !.status = call[p].move[2]]
           /\ approved' = (approved \/ store'.status = "APPROVED")
  <2>1. call[p].move[2] \in {"PENDING_APPROVAL", "APPROVED", "REJECTED"}
    BY <1>1 DEF UpdateStatus, CallFits
  <2>2. /\ store' \in Rows /\ store'.published = store.published
        /\ store'.status \in {"PENDING_APPROVAL", "APPROVED", "REJECTED"}
    BY <1>1, <1>3, <2>1 DEF StoreOK, Rows, StoreStatuses
  <2>3. StoreOK'
    BY <1>1, <1>3, <2>2 DEF StoreOK, UpdateStatus, ListedWasApproved, ShutIsUnlisted
  <2>4. Kept BY <2>2 DEF Kept, Shuts
  <2> QED BY <1>3, <2>3, <2>4, StoreStepInv DEF UpdateStatus
<1> QED BY <1>2, <1>3 DEF UpdateStatus

\* The check of PublishStore is stale: what it still shows is that the store was approved.
LEMMA PublishStoreInv == ASSUME Inv, NEW p \in Procs, PublishStore(p) PROVE Inv'
<1>1. StoreOK /\ CallFits(call[p], approved, vetted) /\ NoPublishPending BY InvParts DEF CallsFit
<1>2. approved BY <1>1 DEF PublishStore, CallFits
<1>3. /\ store' \in Rows /\ store'.status = store.status
      /\ UNCHANGED <<appeals, approved, raced>>
  BY <1>1 DEF PublishStore, StoreOK, Rows
<1>4. ~(store.status \in Shuts /\ ~raced) BY <1>1 DEF PublishStore, NoPublishPending
<1>5. StoreOK' BY <1>1, <1>2, <1>3, <1>4 DEF StoreOK, ListedWasApproved, ShutIsUnlisted, Shuts
<1>6. Kept BY <1>3 DEF Kept
<1> QED BY <1>3, <1>5, <1>6, StoreStepInv DEF PublishStore

\* UpdateStore puts an old row back: it changes nothing, or it raced.
LEMMA UpdateStoreInv == ASSUME Inv, NEW p \in Procs, UpdateStore(p) PROVE Inv'
<1>1. StoreOK /\ CallFits(call[p], approved, vetted) BY InvParts DEF CallsFit
<1>2. /\ store' \in Rows
      /\ store'.published => approved
      /\ store'.status = "APPROVED" => approved
  BY <1>1 DEF UpdateStore, CallFits
<1>3. /\ raced' = (raced \/ store' # store)
      /\ UNCHANGED <<appeals, approved>>
  BY DEF UpdateStore
<1>4. StoreOK' BY <1>1, <1>2, <1>3 DEF StoreOK, ListedWasApproved, ShutIsUnlisted
<1>5. Kept BY <1>3 DEF Kept
<1> QED BY <1>3, <1>4, <1>5, StoreStepInv DEF UpdateStore

LEMMA UnsuspendStoreInv == ASSUME Inv, NEW p \in Procs, UnsuspendStore(p) PROVE Inv'
<1>1. StoreOK BY InvParts
<1>2. /\ store' \in Rows /\ store'.status = "APPROVED" /\ approved' = TRUE
      /\ UNCHANGED <<appeals, raced>>
  BY <1>1 DEF UnsuspendStore, StoreOK, Rows, StoreStatuses
<1>3. StoreOK' BY <1>1, <1>2 DEF StoreOK, ListedWasApproved, ShutIsUnlisted
<1>4. Kept BY <1>2 DEF Kept, Shuts
<1> QED BY <1>2, <1>3, <1>4, StoreStepInv DEF UnsuspendStore

LEMMA AppealStoreInv == ASSUME Inv, NEW p \in Procs, AppealStore(p) PROVE Inv'
<1>1. StoreOK BY InvParts
<1>2. appeals' \in Seq({"PENDING", "APPROVED"}) /\ Len(appeals') <= MaxAppeals
  BY <1>1, CatalogAssumption DEF AppealStore, StoreOK
<1>3. StoreOK' BY <1>1, <1>2 DEF AppealStore, StoreOK, ListedWasApproved, ShutIsUnlisted
<1>4. Kept BY DEF AppealStore, Kept
<1> QED BY <1>3, <1>4, StoreStepInv DEF AppealStore

\* The requests that are one statement.
LEMMA CreateStoreInv == ASSUME Inv, CreateStore PROVE Inv'
<1>1. StoreOK BY InvParts
<1>2. store' \in Rows /\ store'.status = "DRAFT" /\ store'.published = store.published
  BY <1>1 DEF CreateStore, StoreOK, Rows, StoreStatuses
<1>3. StoreOK' BY <1>1, <1>2 DEF CreateStore, StoreOK, ListedWasApproved, ShutIsUnlisted
<1>4. Kept BY <1>2 DEF Kept, Shuts
<1> QED BY <1>3, <1>4, StoreStepInv DEF CreateStore

LEMMA UnpublishStoreInv == ASSUME Inv, UnpublishStore \/ SubmitKYC PROVE Inv'
<1>1. StoreOK BY InvParts
<1>2. /\ store' \in Rows /\ store'.status = store.status /\ (store'.published => store.published)
      /\ UNCHANGED <<appeals, approved, raced>>
  BY <1>1 DEF UnpublishStore, SubmitKYC, StoreOK, Rows
<1>3. StoreOK' BY <1>1, <1>2 DEF StoreOK, ListedWasApproved, ShutIsUnlisted
<1>4. Kept BY <1>2 DEF Kept
<1> QED BY <1>2, <1>3, <1>4, StoreStepInv DEF UnpublishStore, SubmitKYC

LEMMA ShutStoreInv == ASSUME Inv, ShutStore PROVE Inv'
<1>1. StoreOK /\ MerchantOK /\ ProductOK /\ CallsFit BY InvParts
<1>2. /\ store' \in Rows /\ store'.status \in Shuts /\ ~store'.published
      /\ UNCHANGED <<appeals, approved>>
  BY <1>1 DEF ShutStore, Shut, StoreOK, Rows, StoreStatuses, Shuts
<1>3. raced' \in BOOLEAN /\ (~raced' => \A p \in Procs : call[p].step # "publish")
  BY DEF ShutStore
<1>4. StoreOK'
  BY <1>1, <1>2, <1>3 DEF StoreOK, ListedWasApproved, ShutIsUnlisted, Shuts
<1>5. Grows BY DEF ShutStore, Grows, merchantVars
<1>6. MerchantOK' /\ ProductOK' /\ CallsFit'
  BY <1>1, <1>5, SameMerchant, SameProduct, SameCalls DEF ShutStore
<1>7. NoPublishPending' BY <1>3 DEF NoPublishPending, ShutStore
<1> QED BY <1>4, <1>6, <1>7, InvParts, PTL

\* A step of a request that writes no row but perhaps an appeal.
LEMMA ApproveAppealInv == ASSUME Inv, NEW p \in Procs, ApproveAppeal(p) PROVE Inv'
<1>1. StoreOK /\ MerchantOK /\ ProductOK /\ CallsFit /\ NoPublishPending BY InvParts
<1>2. Grows BY DEF ApproveAppeal, Grows, merchantVars
<1>3. appeals' \in Seq({"PENDING", "APPROVED"}) /\ Len(appeals') <= MaxAppeals
  <2> DEFINE S == {"PENDING", "APPROVED"}
  <2>1. appeals \in Seq(S) /\ Len(appeals) <= MaxAppeals BY <1>1 DEF StoreOK
  <2>2. appeals' = [appeals EXCEPT ![call[p].appeal] = "APPROVED"] BY DEF ApproveAppeal
  <2>3. "APPROVED" \in S OBVIOUS
  <2> HIDE DEF S
  <2>4. ASSUME NEW i PROVE [appeals EXCEPT ![i] = "APPROVED"] \in Seq(S)
                           /\ Len([appeals EXCEPT ![i] = "APPROVED"]) = Len(appeals)
    <3> DEFINE n == Len(appeals)
               new == [appeals EXCEPT ![i] = "APPROVED"]
    <3>1. n \in Nat /\ appeals \in [1..n -> S] BY <2>1
    <3> HIDE DEF n
    <3>2. new \in [1..n -> S] BY <2>3, <3>1
    <3> HIDE DEF new
    <3>3. new \in Seq(S) /\ Len(new) = n BY <3>1, <3>2
    <3> QED BY <3>3 DEF n, new
  <2> QED BY <2>1, <2>2, <2>4 DEF S
<1>4. StoreOK' BY <1>1, <1>3 DEF ApproveAppeal, StoreOK, ListedWasApproved, ShutIsUnlisted
<1>5. MerchantOK' /\ ProductOK' BY <1>1, <1>2, SameMerchant, SameProduct DEF ApproveAppeal
<1>6. PICK c : c = [call[p] EXCEPT !.appeal = 0] OBVIOUS
<1>7. call[p] \in [step : {"unsuspend"}, appeal : Nat] BY <1>1 DEF ApproveAppeal, CallsFit, CallFits
<1>8. c.step = "unsuspend" /\ c \in [step : {"unsuspend"}, appeal : Nat] BY <1>6, <1>7
<1>9. CallFits(c, approved', vetted') BY <1>8 DEF CallFits, ProductSteps
<1>10. call' = [call EXCEPT ![p] = c] BY <1>6 DEF ApproveAppeal
<1>11. CallsFit' BY <1>1, <1>2, <1>9, <1>10, OneCall
<1>12. \A q \in Procs : call'[q].step = "publish" => call[q].step = "publish"
  BY <1>1, <1>8, <1>10 DEF CallsFit
<1>13. NoPublishPending' BY <1>1, <1>12, StillNonePending DEF CallsFit, ApproveAppeal
<1> QED BY <1>4, <1>5, <1>11, <1>13, InvParts, PTL

-----------------------------------------------------------------------------
(* product-service and merchant-service *)

\* Asking store-service and merchant-service: each answer is remembered.
LEMMA AskInv == ASSUME Inv, NEW p \in Procs, AskStore(p) \/ AskMerchant(p) PROVE Inv'
<1>1. StoreOK /\ MerchantOK /\ ProductOK /\ CallsFit /\ NoPublishPending BY InvParts
<1>2. Grows /\ UNCHANGED <<storeVars, merchantVars, productVars>>
  BY DEF AskStore, AskMerchant, Grows, storeVars, merchantVars
<1>3. StoreOK' /\ MerchantOK' /\ ProductOK' BY <1>1, <1>2, SameStore, SameMerchant, SameProduct
<1>4. PICK c : c = [call[p] EXCEPT !.step = IF AskStore(p) THEN "askMerchant" ELSE "product"]
  OBVIOUS
<1> DEFINE Ask == [step : ProductSteps, write : {"create", "update", "delete"},
                   status : ProductStatuses]
<1>5. call[p] \in Ask /\ (call[p].write = "delete" => call[p].status = "DELETED")
  BY <1>1 DEF AskStore, AskMerchant, CallsFit, CallFits, ProductSteps
<1>6. /\ c \in Ask /\ c.write = call[p].write /\ c.status = call[p].status
      /\ c.step = IF AskStore(p) THEN "askMerchant" ELSE "product"
  BY <1>4, <1>5 DEF ProductSteps
<1>7. AskStore(p) => approved BY <1>1 DEF AskStore, StoreOK
<1>8. ~AskStore(p) => approved /\ vetted
  BY <1>1 DEF AskMerchant, MerchantOK, CallsFit, CallFits
<1>9. CallFits(c, approved', vetted')
  <2>1. CallFits(c, approved, vetted) BY <1>5, <1>6, <1>7, <1>8 DEF CallFits
  <2> QED BY <1>2, <2>1 DEF storeVars, merchantVars
<1>10. call' = [call EXCEPT ![p] = c] BY <1>4, <1>5 DEF AskStore, AskMerchant
<1>11. CallsFit' BY <1>1, <1>2, <1>9, <1>10, OneCall
<1>12. \A q \in Procs : call'[q].step = "publish" => call[q].step = "publish"
  BY <1>1, <1>6, <1>10 DEF CallsFit
<1>13. NoPublishPending' BY <1>1, <1>2, <1>12, StillNonePending DEF CallsFit, storeVars
<1> QED BY <1>3, <1>11, <1>13, InvParts, PTL

LEMMA ProductStepInv ==
  ASSUME Inv, NEW p \in Procs, ProductOK', End(p), UNCHANGED <<storeVars, merchantVars>>
  PROVE  Inv'
<1>1. StoreOK /\ MerchantOK /\ CallsFit /\ NoPublishPending BY InvParts
<1>2. Grows BY DEF Grows, storeVars, merchantVars
<1>3. StoreOK' /\ MerchantOK' BY <1>1, SameStore, SameMerchant
<1>4. CallsFit' BY <1>1, <1>2, EndCalls
<1>5. NoPublishPending' BY <1>1, EndPending DEF storeVars
<1> QED BY <1>3, <1>4, <1>5, InvParts, PTL

\* The old status is read under the row lock, so the event fits the change.
LEMMA WriteInv ==
  ASSUME Inv, NEW p \in Procs, InsertProduct(p) \/ WriteProduct(p) PROVE Inv'
<1>1. ProductOK /\ CallFits(call[p], approved, vetted) BY InvParts DEF CallsFit
<1>2. UNCHANGED <<storeVars, merchantVars>> /\ End(p) BY DEF InsertProduct, WriteProduct
<1> DEFINE s == call[p].status
<1>3. /\ call[p].step = "product" /\ s \in ProductStatuses
      /\ call[p].write = "delete" => s = "DELETED"
      /\ s = "PUBLISHED" => approved /\ vetted
  BY <1>1 DEF InsertProduct, WriteProduct, CallFits, ProductSteps
<1>4. onSale = (product.status = "PUBLISHED") BY <1>1 DEF ProductOK, SaleIsRight, FeedIsRight
<1>5. ProductOK'
  <2>1. CASE UNCHANGED productVars
    BY <1>1, <1>2, <2>1, SameProduct DEF Grows, storeVars, merchantVars
  <2>2. CASE InsertProduct(p) /\ SkuFree
    <3>1. product' = [product EXCEPT !.status = s] /\ onSale' = Told("NONE", s)
      BY <2>2 DEF InsertProduct
    <3>2. product' \in [status : ProductStatuses \cup {"NONE"}, deleted : BOOLEAN]
          /\ product'.status = s /\ product'.deleted = product.deleted
      BY <1>1, <1>3, <3>1 DEF ProductOK
    <3>3. ~product.deleted BY <1>1, <2>2 DEF ProductOK, SkuFree
    <3>4. onSale' = (s = "PUBLISHED") BY <3>1 DEF Told
    <3> QED BY <1>2, <1>3, <3>2, <3>3, <3>4
         DEF ProductOK, SaleIsRight, OnSaleWasVetted, FeedIsRight, storeVars, merchantVars
  <2>3. CASE WriteProduct(p) /\ Live
    <3>1. product' = [status |-> s, deleted |-> call[p].write = "delete"]
          /\ onSale' = Told(product.status, s)
      BY <2>3 DEF WriteProduct
    <3>2. product' \in [status : ProductStatuses \cup {"NONE"}, deleted : BOOLEAN]
          /\ product'.status = s /\ product'.deleted = (call[p].write = "delete")
      BY <1>3, <3>1
    <3>3. onSale' = (s = "PUBLISHED") BY <1>4, <3>1 DEF Told
    <3> QED BY <1>2, <1>3, <3>2, <3>3
         DEF ProductOK, SaleIsRight, OnSaleWasVetted, FeedIsRight, storeVars, merchantVars
  <2> QED BY <2>1, <2>2, <2>3 DEF InsertProduct, WriteProduct
<1> QED BY <1>2, <1>5, ProductStepInv

LEMMA FailInv == ASSUME Inv, NEW p \in Procs, Fail(p) PROVE Inv'
<1>1. ProductOK' BY InvParts, SameProduct DEF Fail, Grows, storeVars, merchantVars
<1> QED BY <1>1, ProductStepInv DEF Fail

LEMMA MerchantMovesInv == ASSUME Inv, MerchantMoves PROVE Inv'
<1>1. StoreOK /\ MerchantOK /\ ProductOK /\ CallsFit /\ NoPublishPending BY InvParts
<1>2. Grows BY DEF MerchantMoves, Grows, storeVars
<1>3. StoreOK' BY <1>1, SameStore DEF MerchantMoves
<1>4. MerchantOK' BY <1>1 DEF MerchantMoves, MerchantOK
<1>5. ProductOK' /\ CallsFit' BY <1>1, <1>2, SameProduct, SameCalls DEF MerchantMoves
<1>6. NoPublishPending' BY <1>1 DEF NoPublishPending, MerchantMoves, storeVars
<1> QED BY <1>3, <1>4, <1>5, <1>6, InvParts, PTL

-----------------------------------------------------------------------------
(* The theorems *)

\* Every step of every request keeps the invariant.
THEOREM NextInv == Inv /\ [Next]_vars => Inv'
<1> SUFFICES ASSUME Inv, [Next]_vars PROVE Inv' OBVIOUS
<1>1. CASE UNCHANGED vars
  <2>1. StoreOK /\ MerchantOK /\ ProductOK /\ CallsFit /\ NoPublishPending BY InvParts
  <2>2. Grows BY <1>1 DEF Grows, vars, storeVars, merchantVars
  <2>3. StoreOK' /\ MerchantOK' /\ ProductOK' /\ CallsFit'
    BY <1>1, <2>1, <2>2, SameStore, SameMerchant, SameProduct, SameCalls DEF vars
  <2>4. NoPublishPending' BY <1>1, <2>1 DEF NoPublishPending, vars, storeVars
  <2> QED BY <2>3, <2>4, InvParts, PTL
<1>2. CASE MerchantMoves \/ CreateStore \/ UnpublishStore \/ SubmitKYC \/ ShutStore
  BY <1>2, MerchantMovesInv, CreateStoreInv, UnpublishStoreInv, ShutStoreInv
<1>3. ASSUME NEW p \in Procs,
             \/ Fail(p)
             \/ ReadStore(p) \/ UpdateStatus(p) \/ PublishStore(p) \/ UpdateStore(p)
             \/ ApproveAppeal(p) \/ UnsuspendStore(p) \/ AppealStore(p)
             \/ CreateProduct(p) \/ UpdateProduct(p) \/ DeleteProduct(p)
             \/ AskStore(p) \/ AskMerchant(p) \/ InsertProduct(p) \/ WriteProduct(p)
      PROVE  Inv'
  BY <1>3, FailInv, ReadStoreInv, UpdateStatusInv, PublishStoreInv, UpdateStoreInv,
     ApproveAppealInv, UnsuspendStoreInv, AppealStoreInv, ReadProductInv, AskInv, WriteInv
<1> QED BY <1>1, <1>2, <1>3 DEF Next

LEMMA SpecInv == Spec => []Inv
BY InitInv, NextInv, PTL DEF Spec

\* PublishStore, UpdateStore, ShutStore: a listed store was approved, a shut one is unlisted.
THEOREM ListingIsRightAlways == Spec => []ListingIsRight
<1>1. Inv => ListingIsRight BY DEF Inv, ListingIsRight
<1> QED BY <1>1, SpecInv, PTL

\* checkPublishPrerequisites and the product's events: what is on sale was vetted and told.
THEOREM SaleIsRightAlways == Spec => []SaleIsRight
<1>1. Inv => SaleIsRight BY DEF Inv
<1> QED BY <1>1, SpecInv, PTL

\* DeleteProduct: requests that read the product before no longer change it.
THEOREM DeletedStaysAlways == Spec => DeletedStays
<1> DEFINE A == product.deleted => UNCHANGED productVars
<1>1. Inv /\ [Next]_vars => [A]_vars
  <2> SUFFICES ASSUME Inv, Next, product.deleted PROVE UNCHANGED productVars OBVIOUS
  <2>1. ~Live /\ ~SkuFree BY InvParts DEF Live, SkuFree, ProductOK
  <2>2. CASE MerchantMoves \/ CreateStore \/ UnpublishStore \/ SubmitKYC \/ ShutStore
    BY <2>2 DEF MerchantMoves, CreateStore, UnpublishStore, SubmitKYC, ShutStore
  <2>3. ASSUME NEW p \in Procs, ReadStore(p) PROVE UNCHANGED productVars
    BY <2>3 DEF ReadStore, Look
  <2>4. ASSUME NEW p \in Procs,
               \/ Fail(p) \/ UpdateStatus(p) \/ PublishStore(p) \/ UpdateStore(p)
               \/ ApproveAppeal(p) \/ UnsuspendStore(p) \/ AppealStore(p)
        PROVE  UNCHANGED productVars
    BY <2>4 DEF Fail, UpdateStatus, PublishStore, UpdateStore, ApproveAppeal, UnsuspendStore,
         AppealStore
  <2>5. ASSUME NEW p \in Procs,
               \/ CreateProduct(p) \/ UpdateProduct(p) \/ DeleteProduct(p)
               \/ AskStore(p) \/ AskMerchant(p) \/ InsertProduct(p) \/ WriteProduct(p)
        PROVE  UNCHANGED productVars
    BY <2>1, <2>5 DEF CreateProduct, UpdateProduct, DeleteProduct, AskStore, AskMerchant,
         InsertProduct, WriteProduct
  <2> QED BY <2>2, <2>3, <2>4, <2>5 DEF Next
<1> QED BY <1>1, SpecInv, PTL DEF Spec, DeletedStays
=============================================================================
