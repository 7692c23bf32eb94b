------------------------------ MODULE Catalog ------------------------------
(***************************************************************************)
(* store-service and product-service: the approval and the listing of one  *)
(* store, and the life of one product in it, which product-service may put *)
(* on sale only after asking store-service and merchant-service.           *)
(*                                                                         *)
(* Nearly every request reads a row without a lock, decides, and writes in *)
(* a later transaction.  A request is therefore two or more steps, between *)
(* which other requests run, and it may fail at any of them.               *)
(***************************************************************************)
EXTENDS Naturals, Sequences

CONSTANTS
  Procs,       \* concurrent requests to either service
  MaxAppeals   \* bound: appeals ever made

ASSUME CatalogAssumption == MaxAppeals \in Nat

VARIABLES
  store,     \* the stores row: approval_status ("NONE" before it exists), is_published, kyc_status
  appeals,   \* store_appeals, by their status
  merchant,  \* the merchant's status as GetMerchant answers it
  product,   \* the products row: status ("NONE" before it exists) and deleted_at
  onSale,    \* what a reader of the product's events knows: it is on sale
  call,      \* the next step of a request and what it has in hand
  approved,  \* history: the store was APPROVED at some time
  vetted,    \* history: the merchant was APPROVED at some time
  raced      \* history: a request overlapped the last suspension or closing

storeVars == <<store, appeals, approved, raced>>
merchantVars == <<merchant, vetted>>
productVars == <<product, onSale>>
vars == <<storeVars, merchantVars, productVars, call>>

StoreStatuses == {"DRAFT", "PENDING_APPROVAL", "APPROVED", "REJECTED", "SUSPENDED", "CLOSED"}

\* IN_STOCK stands for the five statuses of stock, whose transitions are the same.
ProductStatuses == {"DRAFT", "PENDING_REVIEW", "PUBLISHED", "UNPUBLISHED", "SUSPENDED",
                    "DELETED", "IN_STOCK"}

idle == [step |-> "idle"]

Init ==
  /\ store = [status |-> "NONE", published |-> FALSE, kyc |-> "NOT_SUBMITTED"]
  /\ appeals = <<>>
  /\ merchant = "PENDING"
  /\ product = [status |-> "NONE", deleted |-> FALSE]
  /\ onSale = FALSE
  /\ call = [p \in Procs |-> idle]
  /\ approved = FALSE /\ vetted = FALSE /\ raced = FALSE

\* A request that found what it wanted goes on to its next step.
Continue(p, next) == call[p] = idle /\ call' = [call EXCEPT ![p] = next]

End(p) == call' = [call EXCEPT ![p] = idle]

\* Any step of a request may fail, or its process stop: it ends where it is.
Fail(p) == call[p] # idle /\ End(p) /\ UNCHANGED <<storeVars, merchantVars, productVars>>

\* merchant-service moves the merchant without regard to its stores and products.  PENDING stands
\* for every answer but APPROVED; ACTIVE is none of them, the protobuf enumeration lacks it.
MerchantMoves ==
  /\ merchant' \in {"PENDING", "APPROVED"} \ {merchant}
  /\ vetted' = (vetted \/ merchant' = "APPROVED")
  /\ UNCHANGED <<storeVars, productVars, call>>

-----------------------------------------------------------------------------
(* store-service *)

CreateStore ==
  /\ store.status = "NONE"
  /\ store' = [store EXCEPT !.status = "DRAFT"]
  /\ UNCHANGED <<appeals, approved, raced, merchantVars, productVars, call>>

\* A request that looks at the row and goes on when the row passes.
Look(p, test, next) ==
  /\ store.status # "NONE" /\ test
  /\ Continue(p, next)
  /\ UNCHANGED <<storeVars, merchantVars, productVars>>

\* GetPendingAppealByStoreID: some appeal that is pending.
Pending == {i \in DOMAIN appeals : appeals[i] = "PENDING"}

\* The three refusals of PublishStore.
Publishable(status) == status = "APPROVED"

ReadStore(p) ==
  \/ \E move \in {<<"DRAFT", "PENDING_APPROVAL">>, <<"PENDING_APPROVAL", "APPROVED">>,
                  <<"PENDING_APPROVAL", "REJECTED">>} :  \* SubmitStore, ApproveStore, RejectStore
       Look(p, store.status = move[1], [step |-> "status", move |-> move])
  \/ Look(p, Publishable(store.status), [step |-> "publish"])
  \/ Look(p, TRUE, [step |-> "update", row |-> store])
  \/ \E i \in IF Pending = {} THEN {0} ELSE Pending :
       Look(p, store.status = "SUSPENDED", [step |-> "unsuspend", appeal |-> i])
  \/ Look(p, store.status \in {"SUSPENDED", "REJECTED"} /\ Pending = {}, [step |-> "appeal"])

\* UpdateStatus looks at the status again under the row lock.
UpdateStatus(p) ==
  /\ call[p].step = "status"
  /\ IF store.status = call[p].move[1]
     THEN /\ store' = [store EXCEPT !.status = call[p].move[2]]
          /\ approved' = (approved \/ store'.status = "APPROVED")
     ELSE UNCHANGED <<store, approved>>
  /\ End(p)
  /\ UNCHANGED <<appeals, raced, merchantVars, productVars>>

PublishStore(p) ==
  /\ call[p].step = "publish"
  /\ store' = [store EXCEPT !.published = TRUE]
  /\ End(p)
  /\ UNCHANGED <<appeals, approved, raced, merchantVars, productVars>>

\* UpdateStore writes the whole row it read: approval_status, is_published, kyc_status included.
UpdateStore(p) ==
  /\ call[p].step = "update"
  /\ store' = call[p].row
  /\ raced' = (raced \/ store' # store)
  /\ End(p)
  /\ UNCHANGED <<appeals, approved, merchantVars, productVars>>

UnpublishStore ==
  /\ store.status # "NONE"
  /\ store' = [store EXCEPT !.published = FALSE]
  /\ UNCHANGED <<appeals, approved, raced, merchantVars, productVars, call>>

\* SubmitKYC writes after an outside service vouched for the tax number, whatever the store's status.
SubmitKYC ==
  /\ store.status # "NONE"
  /\ store' = [store EXCEPT !.kyc = "PENDING"]
  /\ UNCHANGED <<appeals, approved, raced, merchantVars, productVars, call>>

\* Mutant: a store that is suspended or closed stays listed.
ShutKeepsListing(status) == [store EXCEPT !.status = status]

Shut(status) == [store EXCEPT !.status = status, !.published = FALSE]

\* SuspendStore and CloseStore: UpdateApprovalStatus asks for no particular old status.
ShutStore ==
  /\ store.status # "NONE"
  /\ \E status \in {"SUSPENDED", "CLOSED"} : store' = Shut(status)
  /\ raced' = \E p \in Procs : call[p].step \in {"publish", "update"}
  /\ UNCHANGED <<appeals, approved, merchantVars, productVars, call>>

\* UnsuspendStore approves the appeal it found, a statement of its own ...
ApproveAppeal(p) ==
  /\ call[p].step = "unsuspend" /\ call[p].appeal # 0
  /\ appeals' = [appeals EXCEPT ![call[p].appeal] = "APPROVED"]
  /\ call' = [call EXCEPT ![p].appeal = 0]
  /\ UNCHANGED <<store, approved, raced, merchantVars, productVars>>

\* ... and then approves the store, whatever its status has become.
UnsuspendStore(p) ==
  /\ call[p].step = "unsuspend" /\ call[p].appeal = 0
  /\ store' = [store EXCEPT !.status = "APPROVED"]
  /\ approved' = TRUE
  /\ End(p)
  /\ UNCHANGED <<appeals, raced, merchantVars, productVars>>

AppealStore(p) ==
  /\ call[p].step = "appeal"
  /\ Len(appeals) < MaxAppeals
  /\ appeals' = Append(appeals, "PENDING")
  /\ End(p)
  /\ UNCHANGED <<store, approved, raced, merchantVars, productVars>>

-----------------------------------------------------------------------------
(* product-service *)

allowedTransitions ==
  [DRAFT          |-> {"PENDING_REVIEW", "DELETED"},
   PENDING_REVIEW |-> {"PUBLISHED", "UNPUBLISHED", "SUSPENDED", "DELETED", "DRAFT"},
   PUBLISHED      |-> {"UNPUBLISHED", "SUSPENDED", "DELETED"},
   UNPUBLISHED    |-> {"PENDING_REVIEW", "PUBLISHED", "SUSPENDED", "DELETED", "DRAFT"},
   SUSPENDED      |-> {"PENDING_REVIEW", "UNPUBLISHED", "PUBLISHED", "DELETED"},
   DELETED        |-> {},
   IN_STOCK       |-> ProductStatuses \ {"IN_STOCK"}]

\* Mutant: the queries of a change do not ask for deleted_at IS NULL.
LiveOrDeleted == product.status # "NONE"

Live == product.status # "NONE" /\ ~product.deleted

\* What a product that will be PUBLISHED has to pass before it is written.
NeedsCheck(write, status) == write \in {"create", "update"} /\ status = "PUBLISHED"

FirstStep(write, status) ==
  [step |-> IF NeedsCheck(write, status) THEN "askStore" ELSE "product",
   write |-> write, status |-> status]

\* CreateProduct, up to the check: no live product has the SKU.
CreateProduct(p) ==
  /\ store.status # "NONE" /\ ~Live
  /\ \E status \in ProductStatuses : Continue(p, FirstStep("create", status))
  /\ UNCHANGED <<storeVars, merchantVars, productVars>>

\* UpdateProduct, up to the check: the transition is judged on this read.
UpdateProduct(p) ==
  /\ Live
  /\ \E status \in {product.status} \cup allowedTransitions[product.status] :
       Continue(p, FirstStep("update", status))
  /\ UNCHANGED <<storeVars, merchantVars, productVars>>

DeleteProduct(p) ==
  /\ Live
  /\ Continue(p, FirstStep("delete", "DELETED"))
  /\ UNCHANGED <<storeVars, merchantVars, productVars>>

\* checkPublishPrerequisites: two calls, one after the other.  A refusal ends the request (Fail).
AskStore(p) ==
  /\ call[p].step = "askStore" /\ store.status = "APPROVED"
  /\ call' = [call EXCEPT ![p].step = "askMerchant"]
  /\ UNCHANGED <<storeVars, merchantVars, productVars>>

AskMerchant(p) ==
  /\ call[p].step = "askMerchant" /\ merchant = "APPROVED"
  /\ call' = [call EXCEPT ![p].step = "product"]
  /\ UNCHANGED <<storeVars, merchantVars, productVars>>

\* Mutant: ProductPublished is stored only for a product that was never on sale.
ToldFirstTime(old, status) ==
  status = "PUBLISHED" /\ (onSale \/ old \notin {"UNPUBLISHED", "SUSPENDED"})

\* The events of a write: ProductPublished when it puts the product on sale, and ProductCreated,
\* ProductUpdated or ProductDeleted, from whose status a reader learns that it is not on sale.
Told(old, status) == status = "PUBLISHED" /\ (onSale \/ old # "PUBLISHED")

\* UNIQUE(store_id, sku): deleted rows count.
SkuFree == product.status = "NONE"

\* The transaction of CreateProduct.
InsertProduct(p) ==
  /\ call[p].step = "product" /\ call[p].write = "create"
  /\ IF SkuFree
     THEN /\ product' = [product EXCEPT !.status = call[p].status]
          /\ onSale' = Told("NONE", call[p].status)
     ELSE UNCHANGED productVars
  /\ End(p)
  /\ UNCHANGED <<storeVars, merchantVars>>

\* The transactions of UpdateProduct and DeleteProduct, under the row lock.
WriteProduct(p) ==
  /\ call[p].step = "product" /\ call[p].write # "create"
  /\ IF Live
     THEN /\ product' = [status |-> call[p].status, deleted |-> call[p].write = "delete"]
          /\ onSale' = Told(product.status, call[p].status)
     ELSE UNCHANGED productVars
  /\ End(p)
  /\ UNCHANGED <<storeVars, merchantVars>>

Next ==
  \/ MerchantMoves \/ CreateStore \/ UnpublishStore \/ SubmitKYC \/ ShutStore
  \/ \E p \in Procs :
       \/ Fail(p)
       \/ ReadStore(p) \/ UpdateStatus(p) \/ PublishStore(p) \/ UpdateStore(p)
       \/ ApproveAppeal(p) \/ UnsuspendStore(p) \/ AppealStore(p)
       \/ CreateProduct(p) \/ UpdateProduct(p) \/ DeleteProduct(p)
       \/ AskStore(p) \/ AskMerchant(p) \/ InsertProduct(p) \/ WriteProduct(p)

Spec == Init /\ [][Next]_vars

-----------------------------------------------------------------------------
(* Properties *)

\* Types; a product is marked deleted only together with its status (DeleteProduct).
TypeOK ==
  /\ store \in [status : StoreStatuses \cup {"NONE"}, published : BOOLEAN,
               kyc : {"NOT_SUBMITTED", "PENDING"}]
  /\ appeals \in Seq({"PENDING", "APPROVED"}) /\ Len(appeals) <= MaxAppeals
  /\ merchant \in {"PENDING", "APPROVED"}
  /\ product \in [status : ProductStatuses \cup {"NONE"}, deleted : BOOLEAN]
  /\ product.deleted => product.status = "DELETED"
  /\ onSale \in BOOLEAN /\ approved \in BOOLEAN /\ vetted \in BOOLEAN /\ raced \in BOOLEAN

\* A store is listed to customers only if an administrator has approved it at some time, though
\* PublishStore writes after its check and UpdateStore puts back rows it read long before.
ListedWasApproved == store.published => approved

\* A suspended or closed store is not listed, unless a request that had read the row before was
\* still to write it (PublishStore and UpdateStore do not look again).
ShutIsUnlisted ==
  (store.status \in {"SUSPENDED", "CLOSED"} /\ ~raced) => ~store.published

\* What customers see of a store follows its approval and its closing.
ListingIsRight ==
  /\ TypeOK
  /\ ListedWasApproved
  /\ ShutIsUnlisted

\* A product is on sale only after its store and its merchant were found APPROVED, in whatever
\* order requests create, change and delete it (checkPublishPrerequisites).
OnSaleWasVetted == product.status = "PUBLISHED" => approved /\ vetted

\* A reader of the product's events knows exactly when it is on sale: of updates that overlap, the
\* one that puts it on sale stores ProductPublished, as the old status is read under the lock.
FeedIsRight == onSale = (product.status = "PUBLISHED")

\* A product is on sale only as its checks allow, and its events say so.
SaleIsRight ==
  /\ OnSaleWasVetted
  /\ FeedIsRight

\* A deleted product stays deleted and silent, also for requests that read it before.
DeletedStays == [][product.deleted => UNCHANGED productVars]_vars
=============================================================================
