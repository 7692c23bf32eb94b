# GoCart: a TLA+ verification project

GoCart-Server is an e-commerce back end: fourteen Go services behind a GraphQL
gateway, each with its own PostgreSQL database, talking by gRPC and by domain
events over Kafka. This directory models the parts whose correctness depends on
interleavings, failures and message delivery, checks them with TLC on small
instances and proves the central invariants with TLAPS.

## 1. The system

| Component | State | Operations | Interacts with |
| :-- | :-- | :-- | :-- |
| `pkg/outbox` | `outbox_events` rows | `Insert` (inside a business transaction), `processOnce`, `RequeueFailed` | every service writes to it; the publisher calls `pkg/kafka` |
| `pkg/kafka` | topics, committed offsets, dead-letter topics | `Publish`, `Consumer.Start`, `ExecuteWithRetry`, `PublishToDLQ` | outbox publisher, all event consumers |
| order-service | `orders`, `order_items`, `order_status_history` | `CreateOrder`, `UpdateOrderStatus`, `CancelOrder`, handlers of `PaymentSuccessful` and `PaymentFailed` | reads cart, address, product, inventory by gRPC; emits `OrderCreated`, `OrderConfirmed`, `OrderCancelled`, `OrderPaymentFailed` |
| inventory-service | `inventories`, `inventory_reservations`, `inventory_transactions` | `Create`, `Restock`, `UpdateStock`, `ReserveStock`, `ReleaseStock`, `CommitStock`, the expiration worker, event handlers | consumes `OrderCreated`, `OrderConfirmed`, `OrderCancelled`, `PaymentFailed` |
| payment-service | `payments`, `refunds`, `payment_webhooks` | `ProcessPayment`, `CancelPayment`, `CreateRefund`, `ProcessReturnRefund`, webhooks, event handlers | payment gateway, order-service; emits `PaymentSuccessful`, `PaymentFailed` |
| delivery-service | `deliveries`, `delivery_tracking_updates`, partner profiles | `HandleOrderConfirmed`, `ProcessStatusUpdate`, partner life cycle | consumes `OrderConfirmed`; emits delivery events |
| return-service | `returns`, `return_verifications`, `exchanges`, `exchange_quotes` | `RequestReturn`, `UpdateReturnStatus`, `VerifyProduct`, `TriggerRefund`, exchange workflow | order, product and payment services |
| auth-service | `auth_credentials`, `refresh_tokens`, Redis OTP and lockout keys | `Register`, `Login`, `RefreshToken`, `VerifyEmail`, password reset | user, merchant, delivery services |
| user-service | `users`, `user_addresses`, audit log | profile, addresses, deactivation, deletion | auth-service |
| merchant-service | `merchants`, appeals, audit | onboarding life cycle, appeals | asked by product-service; its events go to notification-service |
| store-service | `stores`, bank accounts, appeals | store life cycle | merchant-service |
| product-service, category-service | `products`, variants, `categories` | catalogue, product life cycle | store and category by gRPC |
| cart-service | `carts`, `cart_items` | add, update, remove, clear | product and inventory by gRPC |
| rating-service | `ratings`, flags | rate, flag, moderate | order-service by gRPC |
| notification-service | `notifications`, `notification_jobs`, `processed_events` | event pipeline, job worker | consumes most topics |
| gateway, contracts, other packages | none of their own (generated code, transport, configuration) | | |

### What is hard in it, and what correct means

* **Events between services.** A business transaction stores its event in the
  outbox; publishers on every instance claim rows with `FOR UPDATE SKIP LOCKED`,
  call the broker inside the transaction and commit afterwards. A lost answer, a
  broken connection or a shutdown separates what the broker has from what the
  table says. Correct: nothing is `PUBLISHED` that was not sent without an error, one row
  is never in two batches, duplicates are paid for by faults, every row settles.
* **Stock.** Calls of customers, order events, merchants and the expiration
  worker change the same rows. Correct: no unit is sold twice, lost or made; a
  reservation is settled once; no reservation holds stock for ever.
* **Orders.** A checkout is retried with its idempotency key; status changes act
  on a status read before the transaction. Correct: one checkout for a key, the
  history is a chain of legal transitions, payment status and events agree with
  the status.
* **Payments.** A payment is several transactions around a call to a gateway that
  may answer, fail, time out, and report again by webhook. Correct: one charge,
  one verdict, a final state is final, money taken is recorded, a payment is refunded
  only when its refunds cover it, and refunds do not exceed it (this last one the code
  does not keep, section 6).
* **The purchase as a whole.** Order, payment and stock are three databases joined by
  events that come late, again and out of order. Correct: no goods leave for an
  order that was not announced as sold, and none is announced before its payment is
  booked, whatever operators set by hand.
* **Consuming events.** A consumer commits the offset of a message whatever its
  handler did, stops with uncommitted marks, and may lose its partition with a message
  in hand. Correct: what is acknowledged was handled or is a dead letter; an event
  makes one notification.
* **Returns and deliveries.** Handlers read without a lock and write later. Correct: an
  item has one return, its refund waits for the inspection, and it is completed only after
  the refund succeeded; the events of a delivery
  are a legal path; a partner who serves was approved.
* **Accounts.** A registration spans two services and is undone by hand; sessions
  are rotated by racing requests. Correct: one account, one live session, no account
  without its profile, an address can be verified in the end.
* **Merchants, stores, products.** Administrators, merchants and appeals change the
  same rows; a product asks two other services before it is on sale. Correct: the
  audit trail and the events explain the status, nothing is listed or sold that was
  never approved, deleted rows stay deleted, every request ends.

`PROJECT.json` lists the hazards at their lines, with the properties that cover
each, or the reason why none does.

## 2. Plan

| Module | Composes or refines | Question | State |
| :-- | :-- | :-- | :-- |
| `Outbox`, `Inventory`, `Order`, `Payment` | | the core: events, stock, orders, money | modelled, checked, proved (section 5) |
| `KafkaConsumer`, `Notification` | `Notification` extends and implements `KafkaConsumer` | is an event lost or handled twice | modelled, checked, proved |
| `Checkout`, `CheckoutSaga` | `CheckoutSaga` instantiates `Order`, `Payment` and `Inventory` and implements `Checkout` | what a purchase promises while its services disagree | modelled, checked, proved |
| `Return` | with the refund of payment-service | is a return refunded before it is completed | modelled, checked, proved |
| `Delivery` | | one delivery, legal moves, true profiles | modelled, checked, proved |
| `Auth` | with the profile services | one account, one session, compensation | modelled, checked, proved |
| `Merchant`, `Catalog` | | who is let in, what is listed and on sale | modelled, checked, proved |

Every safety property that a run checks is also proved; what is left to TLC is liveness.

## 3. Modules and the code

Every definition that models code is mapped to its lines in `PROJECT.json`. In all
modules one committed transaction, one unlocked read or one remote call is one
action; what the code does after an early return is not possible in the action.
Names follow the code. An `MC` module gives the constants of a module their values.

**`Outbox`** (`pkg/outbox`). A row has `status`, `retry` (`retry_count`) and `due`
(`next_retry_at` has passed). A publisher has a cycle: `FetchAndLockPending` opens
the transaction and locks a batch, each row is then published or fails
(`PublishOk`, `PublishErr`, `InvalidPayload`), and `Commit` makes the marks
visible. A `Publish` that returns without an error may still have appended nothing,
since the producer's writer asks the broker for no acknowledgement; `sent` remembers the
events it was done with. Three faults may come in between, `MaxFaults` of them: the broker
appends but the write ends in an error (`LoseAck`); the transaction dies and the publisher, which
does not look at the errors of its marks, goes on publishing its batch
(`LoseTx`, phase `"lost"`); the process stops (`Stop`). The backoff's length and
the payload are abstract; a payload either parses or never does (`Invalid`).

**`Inventory`** (stock and reservations of inventory-service). A row has
`available`, `reserved` and a `ledger` of transactions; a reservation has its
order, row, quantity and status. `ReserveStock` is two steps, since its duplicate
check is made before the row locks; the worker scans first and releases one
reservation after the other. `Units` turns a sum of quantities into the size of a
set. `MaxReservations`, `MaxSupplies` bound the calls. An order of several items
fails on the second insert, as in the code: the module has the failure, not a
repaired loop (the run has orders of one item).

**`Order`** (order-service). A request is a `Call` with a key and a user, and makes
an order in every store of the cart, in one transaction. A handler
(`UpdateOrderStatus`, `CancelOrder`, `HandlePaymentSuccessful`,
`HandlePaymentFailed`) reads, decides, and writes in a later step
(`WriteStatus`, `WriteCancel`), which reads the status again under a lock as the
repository does. Prices, taxes, addresses and the clearing of the cart are left out.

**`Payment`** (payment-service). A request is `CheckExisting`, `CreatePayment`,
`MarkPending`, `CallGateway`, `RecordAnswer`; a refund is `CheckRefund`,
`CheckRefundable`, `MarkRefundPending`, `CreateRefund`, `RefundGateway`,
`RecordRefund`, `RecordRefundOnPayment`. The gateway (external) is the mock, which
captures at once, or Razorpay, which opens an order and captures later
(`GatewayDecides`); webhooks are handlers of their own and may come early, late and
again. Statements whose error the code drops are written with `MayFail`; `Crash`
ends a handler between two steps. Any of the requests may never be made (`"absent"`). The
mapping does not include
signatures, payment methods, and how a return's amount follows from order items.

**`KafkaConsumer`** (`pkg/kafka`). The consumers of one group on one partition: `log`,
the `committed` offset, the `owner` of the partition, and for every consumer what it has
in hand, its attempts, and the offset it has marked. `FetchMessage`, the handler (left
open), `HandlerFails` with its retries, the dead letter, `CommitMessages` whatever came out,
and the reader's periodic `CommitMarked` (kafka-go, external). A dead letter goes to the topic
named by `DLQSuffix`, which may be the topic itself. Crash, shutdown, rebalance and a
failed broker call are the faults.

**`Notification`** (the event pipeline of notification-service) extends it with the
handler `ProcessEvent`: look up `processed_events`, look up the job, select the channel,
insert the job, insert the record, each a step that may fail. Templates, the inbox and
the channels are left out.

**`Return`** (return-service). `RequestReturn` checks and inserts in two steps; a handler
reads, decides and writes whatever the row holds by then; `TriggerRefund` is read, write
`REFUND_INITIATED`, call `CreateRefund`, wait for its answer, write `COMPLETED`, and may stop
in between. Of payment-service the module has the refund with the return's key: stored
`PENDING` by the call or by the handler of `ReturnRefundEligible`, settled by the one that
stored it (`AnswerRefund`, `SettleRefund`), and set to either outcome by any later webhook
that finds it by its gateway id (`RefundWebhook`, no transition check); `paid` is the
refunds that have such an id, which only a success stores. What the refund does to the
payment is in `Payment`.

**`Delivery`** (delivery-service). Creation from `OrderConfirmed` after order-service was
asked (or did not answer), status updates checked again under a lock, and the profile
of a partner, which every operation reads whole and writes back whole (`Save`,
`CreateOrUpdatePartnerProfile`); the retention worker.

**`Checkout`** says what a purchase promises in three variables: the order (open, granted by
hand, sold, closed, revoked), whether a payment of it is booked, and where the goods are.
**`CheckoutSaga`** composes the modules of the three services: a handler is enabled once its
event is in its producer's outbox and stays so, which is late, lost, repeated and reordered
delivery. In the refinement an order is sold when `OrderConfirmed` is announced, which is what
makes inventory-service hand over goods (a cancelled order that was announced is revoked); an
order that operators moved to `PAID` or `CONFIRMED` is granted, since such a change stores no
event; `Booked` is a payment that counts as paid. What "paid" says of the gateway is
`PaidWasAccepted` of `Payment`.

**`Auth`** (auth-service). `Register` is `CreateCredential`, the call for the profile,
its compensation, and the session, with a lost answer or a stop anywhere; `Login` and
`RefreshToken` read first and replace the session in a later transaction; codes in Redis
expire and mails get lost. Hashing and the lockout counter are the nondeterminism of a
login.

**`Merchant`** (merchant-service). A change of status with its audit row and its event is
one transaction; an appeal is three statements; a refused request keeps its row lock
while it writes the audit record on another connection, until the caller's deadline.

**`Catalog`** (store-service and product-service). One store and one product. A request
reads and writes in two steps, with the checks at store-service and merchant-service in
between for a product that is put on sale; `raced` remembers that a request overlapped a
suspension or a closing.

## 4. Runs

All bounds are constants of the cfg files. Where the system may come to rest, deadlock is
not an error; `returns` and `delivery_partners` check for it.

| Run | Instance | Shows |
| :-- | :-- | :-- |
| `outbox_faults` | 3 rows, the first 2 unparsable; batches of 2; 2 publishers; 2 retries; 1 fault; 1 requeue | `StatusIsTrue`, `ExclusiveClaim`, `DuplicatesNeedFaults`, `EventuallySettled` |
| `inventory_race` | 1 row, 2 orders that do not both fit, 2 callers, 1 worker, 1 supply | `BooksBalance`, `ReleasedXorCommitted`, `EventuallyFreed` |
| `orders` | 2 requests of one user with one key, 1 store, 2 handlers of any kind, 1 error | `OrderIsTold`, `EventsTellOnce`, `OneCheckout`, `EveryCallAnswered` |
| `payment_races` | 2 redelivered requests with one key and 1 refund, both gateways, 2 faults; or 1 request and 2 refunds with one key or two, more than the price together, Razorpay, 1 fault | `OneGatewayCall`, `PaidWasAccepted`, `OneVerdict`, `RefundsOnce`, `RefundsCover`, `CaptureIsRecorded` |
| `payment_over_refund` | 1 request, 2 refunds with different keys, the mock gateway, no fault | **violated**: `RefundsWithinPrice` (section 6) |
| `checkout_saga` | 1 checkout of 1 unit in 1 store, the event consumer and the API at once, operators who set `PAID` and `CONFIRMED`, Razorpay, 2 reservations | `ImplementsCheckout` |
| `notifications` | 2 consumers; an event that is notified, one of unknown type, one that is no envelope; one attempt and no DLQ suffix, as configured; 2 faults | `JobsAreRight`, `AcknowledgedIsDone`, `EventuallyNotified` |
| `returns` | a return and a replacement for one item, 2 handlers, 1 stop | `ReturnsAreRight`, `CompletedIsRefunded` |
| `delivery_partners` | 1 order, 1 partner with 2 names and a GSTIN or none, 2 handlers | `ToldOfOneDelivery`, `MovesArePath`, `ProfileIsRight` |
| `auth_account` | 2 registrations, customer or delivery partner, 2 sessions at once, 1 verifier, 2 codes, 3 tokens, 1 fault | `AccountsAreRight`, `OneSession`, `EventuallyVerified` |
| `merchant_life` | 2 requests, 5 audit rows, 2 appeals, 1 fault | `TrailIsTrue`, `OnlyAdminsReadmit`, `DeletedStays`, `EveryRequestEnds` |
| `catalog_sale` | 2 requests of any kind, 2 appeals | `ListingIsRight`, `SaleIsRight`, `DeletedStays` |

Several of these are conjunctions of named invariants (`BooksBalance` of `ReservedIsHeld`,
`StockConserved`, `LedgerBalances` and the types, for instance), each stated and explained
in its module. Every property of a passing run has a mutant in `PROJECT.json`, a plausible slip in the code
under which TLC finds it violated.

*Why the bounds are enough.* Every hazard here is between two actors on one row:
two publishers, two calls for a key, two handlers, a request and a webhook. Two of
each actor and one row (two where order or competition matters) let each
interleaving happen. Two retries are the first number with a retry that is not the
last. Two unparsable rows in front of a good one are what can fill a batch of two. Two
faults let a fault hit the recovery from the first; in the outbox one fault already makes
the one extra copy that `DuplicatesNeedFaults` allows it, and the theorem has any number. A price of 2 with
refunds of 1 and 2 has a partial, a full and an excessive refund. Three tokens are two
live attempts and a successor; five audit rows let a merchant be approved, suspended,
appeal, return and be suspended again. What grows with the bounds (numbers of rows,
actors, faults) is what the theorems quantify over. `checkout_saga` has no faults of its
own: the faults of its services are in their runs, and loss, redelivery and reordering are
always possible in it. It runs with Razorpay, under which a payment is booked before it is
captured; the theorem has both gateways. `payment_races` starts in one of three settings
(`Busy` in `MCPayment`), because all requests at once would be too many.

*Fairness* is assumed only of what the code or its platform repeats by itself. Weak
fairness: the publisher's loop (`Fetch`, `Handle`, `Commit`, on a ticker) and the passing of a
backoff; the expiration worker's ticker and the passing of a reservation's expiry; the
steps of a `CreateOrder` request the server has accepted, which the client repeats after
an error (errors are bounded); a webhook, which the gateway sends again until it is
answered; the consumer's loop, its handler, its periodic commit and the assignment of a
free partition; the request deadline that `pkg/grpcclient` sets, which ends a refused
merchant request; the cool-down of a verification mail and an owner who asks for one
again. Strong fairness, where the step is enabled again and again and must not fail for
ever: `VerifyEmail` by an owner who keeps
trying; the two locked steps of an appeal (row locks are granted in order of request).
No fairness is assumed of customers, merchants, administrators or the
gateway's decision, nor of Kafka that a verdict reaches order-service: after the last attempt
the consumer commits the offset whatever its handler returned.

## 5. Proofs

TLAPS proves the following for all values of the constants that satisfy the named
assumptions (`OutboxAssumption`, `InventoryAssumption` and so on): bounds are natural
numbers, functions have their domains, an order has at least one item of a positive quantity, and so on.

* `Outbox_proofs`: `StatusIsTrue` (types, `PublishedWasSent`, `FailedIffExhausted`),
  `ExclusiveClaim`, `SettledRowsStay`, `DuplicatesNeedFaults`. `BaseInv` adds
  the shape of a cycle (`CycleShape`: an open batch is locked, its rows are
  committed `PENDING` and were read with their retry counts) and `FreshRows`. The
  bound on duplicates needs a counting argument, `CopyBudget`: copies are at most
  the faults so far, less the cycles that still may publish with a dead transaction
  (`Ghosts`), plus one where the row is settled or about to be.
* `Inventory_proofs`: `BooksBalance` (types, so stock is never negative, `ReservedIsHeld`,
  `StockConserved`, `LedgerBalances`), `SettledStays`, `ReleasedXorCommitted`. None of
  the three book-keeping facts is inductive alone: that `GREATEST(0, ...)` never
  clamps follows from `ReservedIsHeld`, which needs types and `AbsentIsEmpty`. Sums
  are cardinalities of sets of units, and the lemmas split a sum by rows (`SumSplit`,
  `SumOne`, `SumFrame`).
* `Order_proofs`: `OrderIsTold` (types, `HistoryIsChain`, `PaymentMatchesStatus`),
  `EventsTellOnce`, `Irrevocable`, `OneCheckout` (`OneCheckoutPerKey`, `AnswersAgree`). `LifeInv` adds which event a
  pending write may carry (`WriteShape`) and which events a status allows
  (`EventsFitStatus`); one lemma, `ChangeLife`, covers every write. `KeyInv` adds
  that an answer names the holder of the key.
* `Inventory_proofs` continues with the purchase as a whole. `SagaImplementsCheckout`: every
  behaviour of `CheckoutSaga` is one of `Checkout` under its refinement mapping
  (`ImplementsCheckout`). A step of order-service is `Place`, `Sell`, `Grant`, `Close` or a
  stutter, one of payment-service `Book` or a stutter, one of inventory-service `Hold`, `Free`,
  `HandOver` or a stutter. `SagaInv` holds the facts that cross a service's border: the
  payment requests and the events are about orders that were placed (`PlacedInv`); the write
  a handler is about to make after an unlocked read announces `OrderConfirmed` only for an
  order whose payment is booked (`SalesInv`), which stays true because a booked payment never
  stops counting as paid; and a `ReserveStock` that passed its look-up is for an order that
  was placed (`GoodsInv`). That `PaymentSuccessful` is told only of a payment that is booked,
  and that a booked one was accepted by the gateway, is not proved again: payment-service in
  the saga makes only its own steps, and `ChargeInvariant` of `Payment_proofs` applies.
  `SagaSafe` is the consequence: goods leave only for an order that was announced, none is
  announced before its payment is booked, and none is booked that the gateway did not accept.
  `SagaAssumption` collects the assumptions of the services and that ids of orders differ;
  operators may set any status by hand.
* `Payment_proofs`: `OneGatewayCall`, `PaidWasAccepted`, `OneVerdict`, `TerminalStays`.
  The invariant says that one request drives a payment (`DriveInv`), that nobody
  called the gateway before it does (`CallInv`), that every answer, refund and
  webhook still to be applied concerns a payment the gateway accepted (`BackInv`), and
  that the events fit the status (`VerdictInv`). `StepMoves` reduces every action to
  three ways a row may change.

  `RefundsOnce` has an invariant of its own, `RefundInv`: a refund that is past its insert
  is in the table, one that is not has not reached the gateway, and rows with one key are
  one row.

  `RefundsCover` (types and `RefundedIsCovered`) is about sums of money
  that requests read without a lock. `Sum` counts cents, so that a sum is a cardinality and
  needs no induction (`TotalAdd`, `TotalGrows`); the assumption that refunds are finitely
  many is there for this. `StepRefundsMove` reduces every action to eight ways
  one refund may move. `MoneyInv` then has two parts beside the types. `RecordInv`: a
  refund that succeeded is announced, one that is at the gateway is `PENDING` and not yet
  known by the gateway's id, so no webhook can settle it first. `CoverInv`: the total
  a request has read is at most what *other* refunds announced as completed come to; it stays
  so because announcements are never withdrawn, though a refund may fail after it succeeded,
  which is why the sum is over announcements and not over statuses.
  `RefundedWasAccepted` follows with `AcceptedInv`: a `REFUNDED` payment is covered by
  refunds that the gateway accepted, so lost answers and late webhooks never let the table
  run ahead of the gateway.
* `Return_proofs`: `ReturnsAreRight`, `CompletedIsRefunded`. A handler writes what it decided
  from a row it read earlier, so the invariant speaks about what handlers have in hand
  (`HandlersFit`): a refund that is asked for or awaited is of an inspected return, and
  `COMPLETED` is about to be written only after payment-service answered with a success.
  `PaidIsStored` ties `paid` to the refund's row. The webhook may set a refund at any time,
  which is why the invariant is about `paid`, which only grows, and not about the status.
* `Delivery_proofs`: `ToldOfOneDelivery`, `MovesArePath`, `ProfileIsRight`. `PathsEnd` says
  that the events end in the stored status, which makes the path inductive; `SavesFit`
  says of every whole row a handler is about to write what `ProfileFits` says of the one
  in the table, since any of them may be next.
* `Delivery_proofs` also holds the proofs about `Auth`, by which partners register:
  `AccountsAreRight` and `OneSession`, from `AuthAssumption`. They are inductive together
  with `StoredLater` (a request that has not inserted has no row, so one that is refused
  leaves none) and `SessionHasProfile` (a request that opens its session has its profile).
  A refresh acts on a token it read before; that the rotation leaves one live session
  rests on the partial index (`OnlyActive`) alone.
* `Merchant_proofs`: `TrailIsTrue`, `OnlyAdminsReadmit`, `DeletedStays`. The invariant is
  these, the chain of the audit rows and that only a registered merchant is deleted.
* `Catalog_proofs`: `ListingIsRight`, `SaleIsRight`, `DeletedStays`. `CallsFit` describes
  every request between its read and its write (what a whole-row write may carry), and
  `NoPublishPending` says that no publication is under way for a store that was shut,
  unless a request overlapped that.
* `Outbox_proofs` continues with the other end of a topic. `AtLeastOnce`: `NothingDropped`
  holds of `KafkaConsumer` for any handler. `ConsumerInv` says that everything up to the
  committed offset, every mark, and behind every message in hand is done (`UpTo`), and
  that the owner of the partition fetches right behind that (`GoesOn`); a consumer that
  has lost the partition is not bound by it, which is why a late mark does no harm.
  `PipelineImplementsConsumer`: `Notification` is such a handler. `JobsAreRight` and
  `AcknowledgedIsDone` follow with `HandledHasJob` and `StepsFit` (a record is written
  only when the job is there).

The action properties `SettledRowsStay`, `SettledStays`, `Irrevocable` and `TerminalStays`, and
the invariant `RefundedWasAccepted`, are covered by their proofs alone. The theorems about
`CheckoutSaga`, `Auth` and `Notification` are about instances of these modules, with the module's assumption as a hypothesis.

**Only model-checked**: liveness (`EventuallySettled`, `EventuallyFreed`, `CaptureIsRecorded`,
`EventuallyNotified`, `EveryCallAnswered`, `EventuallyVerified`, `EveryRequestEnds`), which is out of the prover's
reach.

## 6. What the models showed about the code

One property the code claims and does not keep, `RefundsWithinPrice`:

* `CreateRefund` checks that "refund amount cannot exceed refundable amount"
  (`payment_service.go:373`) against a total of the successful refunds that it reads without a
  lock, and its own refund enters that total only after the gateway call. `REFUND_PENDING` may
  be written over itself, so nothing keeps a second refund out meanwhile. `payment_over_refund`
  finds the trace: two refunds with different keys, one of them of a return, both read the
  total 0, both fit, both reach the gateway and both succeed. The mock does not look at
  what is left of the payment; whether Razorpay refuses the second is up to it.

The other properties are those the code keeps. Modelling it also showed behaviour that
a reader of the code or of its documents should know of, and that the properties
therefore do not exclude:

* **Outbox.** `NewProducer` sets no `RequiredAcks`, for which kafka-go waits for no broker
  (`producer.go:22`): `Publish` returns without an error for an event the topic may never get,
  and the row is `PUBLISHED` for good. The mechanism that `README.md:124` names is kept
  (`PublishedWasSent`); the guarantee it draws from it, "Event never published without broker
  ACK", is not. A later event of an entity can overtake an earlier one (backoff, or a second
  instance, and a `LeastBytes` balancer, with which a key does not fix the partition), where
  `docs/events/conventions.md:87` promises an order.
* **Stock.** `OrderConfirmed` after the reservation expired is acknowledged though nothing
  is committed (`event_consumer.go:161`). The second item of a reservation reuses its
  primary key and fails (`inventory_repository.go:565`).
* **Orders.** A status set through the API stores no event (`order_repo.go:401`): an order set
  to `PAID` or `CONFIRMED` by hand is not announced, its goods are not committed, and the
  payment event that comes later is ignored. A verdict whose handler fails on every attempt
  is lost when its dead letter is (`consumer.go:104`), and the order stays open. A paid
  order that is cancelled is neither refunded nor restocked. The cart is cleared after the
  commit, with what was added meanwhile (`order_service.go:433`).
* **Payments.** Two keys for one order can both be charged (`payment_service.go:134`).
  Razorpay's `SUCCESS` is stored, and `PaymentSuccessful` told, when the gateway order is opened
  (`razorpay.go:149`), before the customer has paid; a later `payment.failed` is then ignored
  (`SUCCESS` may not become `FAILED`), so an order can be confirmed and its goods handed over
  for money that never comes, though `payment_service.go:920` calls that status "successfully
  captured". A webhook sets a refund whatever it is (`payment_service.go:779`). A
  timeout is stored as `FAILED` while the gateway may still capture. `ProcessReturnRefund`
  answers with an existing refund even if it `FAILED` (`payment_service.go:910`).
* **Kafka, notifications.** Without a `DLQSuffix` a dead letter goes back to its own topic
  (`retry.go:72`). The job worker's claim (`job_worker.go:44`) is a statement PostgreSQL
  rejects. The topics `auth.user.registered` and `auth.merchant.registered` are not those
  notification-service subscribes to.
* **Returns, deliveries.** A stale `TriggerRefund` can set `COMPLETED` back to
  `REFUND_INITIATED` (and finish again, without paying again). A `refund.failed` after the
  success leaves the return `COMPLETED`. A return whose handler stopped stays
  `REFUND_INITIATED` until somebody calls `ProcessRefund` again; nothing does by itself. Stale whole-row writes can undo the
  deletion of a partner; `ApprovePartner` leaves `deactivated_at`; the `PAID` check is skipped
  when order-service does not answer.
* **Accounts.** A `CreateUser` whose answer is lost leaves a user row on which later
  registrations fail; a stop between the two services leaves half an account; a
  merchant registered without a merchant client gets no profile; `VerifyEmail` without a
  role looks under a key that is never set.
* **Merchants.** The `FAILED` audit record of a refused transition waits for the row lock
  of its own request until the deadline and is never written
  (`merchant_repository.go:634-645`). An appeal can stay `PENDING` on an active merchant.
* **Stores, products.** `UpdateStore` writes the whole row it read and can undo an approval
  or a suspension; a publication that overlaps a suspension lists a suspended store
  (hence `raced`); lifting a suspension opens a closed store and skips the review of a
  draft. `toProtoStatus` answers `PENDING` for an `ACTIVE` merchant, whose products are
  refused. A stale `UpdateProduct` puts a suspended product back on sale. The SKU of a
  deleted product cannot be used again.

## 7. Not modelled

The reasons are with the components in `PROJECT.json`. Not modelled of the modelled
services: exchanges and their quotes, warehouses and transit estimates, variants, images,
bank accounts, templates, read-only queries. Not modelled at all: cart, rating, category and user-address operations,
which are single statements or transactions guarded by unique indexes; the migrator, which
runs once before a service starts; the rate limiter, a counter with an expiry; transport,
configuration, logging, metrics, tracing, mail and storage packages, which keep no state of
the system; generated protobuf and GraphQL code, most of the repository's lines; the
gateway's resolvers, which forward one request each. SQL isolation is the one PostgreSQL
gives by default: a locked read sees the latest committed row, an unlocked read may be
stale by the time it is used.
