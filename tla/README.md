# Verification of the shop

TLA+ models of the parts of this repository in which concurrent requests, workers,
browsers and failures meet, checked with TLC on small instances and, where marked,
proved with TLAPS for every value of the constants.  `PROJECT.json` is the
machine-readable index: which module models which source lines, what every run checks,
which hazards the properties are for, and which change of the code each would notice.

    tlc -workers 2 -config MCIntake.cfg MCStore      # a run
    tlapm StoreProofs.tla                            # a proof module

## 1. Inventory

The system is a NestJS API (`apps/api`), a worker (`apps/worker`) and a React client
(`apps/web`) over one MySQL database (Prisma, `prisma/schema.prisma`), Redis (BullMQ jobs,
sign-in challenges, locks) and an object store for images.  All commercial state is in
MySQL; the API and the worker are stateless replicas that meet only in its rows, in
Redis and in the object store.  The client keeps copies of records and resends what was
not answered.

| Component | State | Operations | What is hard | What makes it correct | Modules |
|---|---|---|---|---|---|
| Checkout (`checkout/`) | `Order`, `StockReservation`, `OrderIdempotencyKey`, `Cart` | create an order with its reservations | row locks after a non-locking candidate query, a clock read before the waits, retries of transaction and client | no oversell; one order per submission; all lines or none | `OrderIntake` |
| Order intake (`orders/`, `customer-orders/`) | `Order`, `Delivery`, `CashCollection`, `StockReservation`, `InventoryItem` | confirm, cancel, reject, prepare, ready for pickup | REPEATABLE READ views beside row locks; versioned updates of several rows | status only along its table; stock leaves once and as a whole | `OrderIntake` |
| Inventory (`inventory/`) | `InventoryItem`, batches, transfers, adjustments, movements | receive, transfer, request and decide an adjustment | replay lookup outside the transaction; approval long after the request | stock in range, above what is promised, equal to the sum of its records | `InventoryOps` |
| Reservation expiry (worker) | `StockReservation` | a sweep of a limited batch | races with confirmation and cancellation; the limit cuts through an order | no half-consumed order; every overdue reservation ends | `InventoryOps`, `OutboxProcessor` |
| Outbox (sources, publication, processing) | `OutboxEvent`, `Notification`, attempts, BullMQ jobs | enqueue, claim, publish, deliver, delete objects, sweep | crashes and expiring leases between any two steps; duplicated, lost and late handlers | nothing stranded; one open attempt; outcomes final; processed means done | `Outbox`, `OutboxProcessor` |
| Delivery (`delivery/`) | `Delivery`, `Order`, attempts, couriers, manifests, imports | assign, unassign, transition, attempt, complete, return, manifest, import | reads before locks, statuses mirrored in two tables, three services that move one row | only legal moves; dispatched parcels in custody; paid when delivered | `Delivery` |
| Cash (`cash/`) | `CashCollection`, remittances, allocations, discrepancies | collect, allocate, submit, reconcile, settle a difference | two administrators over one collection; four eyes | a millime is remitted once, and only if verified | `Cash` |
| Catalogue (`catalog/`, `taxonomy/`) | products, variants, brands, categories | edit, publish, archive, move | checks on rows of other tables that change meanwhile | what is published can be sold and seen; categories are a forest | `Catalog` |
| Media (`product-media/`) | `ProductImage`, stored objects | upload, replace, arrange, review, remove | object and row cannot be written together; a commit may go unanswered | a live image has its objects; nothing unreviewed is published | `ProductMedia` |
| Imports (`catalog-import/`) | batches, products, images, a Redis lease | preview, apply, roll back, import images | a lease that expires under its holder; edits after the import | each image once; a rollback stays within its batch | `CatalogImport` |
| Delivery configuration (`delivery-config/`, `geography/`) | zones, links, rates, pickups, windows | edit, switch | rules that span several rows; two copies of the rules | an active zone serves somebody; what is offered can be ordered | `DeliveryConfig`, `Quote` |
| Store policy (`settings/`, `compliance/`) | settings, audit log | read, edit; decide whether the checkout is open | two administrators save one setting | the audit log replays to the settings | `StorePolicy` |
| Administrators (`auth/`, `access/`) | accounts, roles, TOTP secrets, challenges | sign in, enrol, create, suspend, remove | one code used twice; the last two remove each other | a super-administrator remains; codes advance | `AdminAccess` |
| Customers (`auth/`, `access/`) | accounts, identities, tokens, sessions | register, sign in, Google, reset, suspend, anonymize | Redis locks that expire, hashing between read and write | one account per address and subject; a reset ends what it replaces | `CustomerAccess` |
| Cart, addresses, wishlist | their rows | add, change, remove | read views older than the lock | lists keep their shape; one active cart | `CustomerData` |
| Web client (`apps/web`) | query cache, forms, keys | read, edit, send, retry | stale copies, lost and late answers | decided on what is saved over; one effect per wish; late answers harmless | `WebEditors`, `WebSubmissions`, `WebBatches` |
| Age gate, storefront content, operational reads, scripts, load tests | | | | | none |

`PROJECT.json` lists all of them with a status and the reason for what is left out.

## 2. Modules

    Sums ── StoreDb ─┬─ OrderIntake ──┐
                     └─ InventoryOps ─┴─ Store ─┬─ StoreRefinement (INSTANCE StockPromise) ── MCStore
                                                └─ StoreProofs
    Outbox ── OutboxProcessor ── Worker ── WorkerProofs
    Sums ── FulfilmentDb ─┬─ Delivery ─┬─ Fulfilment ─┬─ MCFulfilment
                          └─ Cash ─────┘              └─ FulfilmentProofs
    CatalogDb ── Catalog ── ProductMedia ── CatalogImport ── Storefront ─┬─ MCStorefront
                                                                         └─ StorefrontProofs
    DeliveryConfig ── Quote ── StorePolicy ── Pricing ─┬─ MCPricing
                                                       └─ PricingProofs
    AccessDb ── AdminAccess ── CustomerAccess ── CustomerData ── Access ─┬─ MCAccess
                                                                         └─ AccessProofs
    WebClient ─┬─ WebEditors ─────┐
               ├─ WebSubmissions ─┼─ Web ── WebProofs
               └─ WebBatches ─────┘

`Quote` also extends `Sums` and `StoreProofs` also `StoreRefinement`; `StoreProofs`,
`FulfilmentProofs` and `PricingProofs` extend `SumProofs`,
which has the lemmas about the sums of `Sums`.  The composing module of each system
(`Store`, `Worker`, ...) has the specification, the properties and the inductive
invariant the proofs rest on.  `Worker` and `Web` need no MC module: their
configurations (`Dispatch.cfg`, `Web.cfg`) can write all their constants.

The subsystems share the rows of an order, a product or a customer, but each module
system keeps those columns its handlers decide by: `Store` an order up to its
preparation, `Fulfilment` from its confirmation on, `Pricing` what it is charged.  In
Fulfilment, Storefront, Pricing and Access the constant `Scenarios` names, for each
instance, the rows it starts with and the handlers (`ops`) that are at work; Init chooses
one, as it chooses one of the `Pages` of Web.  An operator whose comment
begins with "Mutant" is the operator after it with a plausible mistake, which a property must
notice (`mutants` in `PROJECT.json`); no specification uses one.

### Store: orders and stock

`StoreDb` holds the rows, the transactions in flight and the row locks.  A session
runs one transaction.  A transaction that reads first and writes later is split where
another can commit in between: `begun` (clock read, first rows locked, read view taken)
and `locked` (all `FOR UPDATE` rows held, decisions made); the commit is one step.  A
transaction that locks before it reads is one step.  `tx[s].view` is the read view of
a REPEATABLE READ transaction (administrators' and customers' order operations);
checkout, stock operations and the worker ask for READ COMMITTED and have none.
Prisma's `updateMany` with a version is a guard on the current row, as in InnoDB.
Any refusal, timeout, deadlock or crash is `Rollback`.

| Action | Code |
|---|---|
| `EditCart` | what `CartService` leaves for a checkout to find (the operations themselves are in `CustomerData`) |
| `CheckoutBegin`, `CheckoutLock`, `CheckoutCommit` | `createInTransaction`: claim the key, lock the cart, find candidate items; lock them and allocate; write order, reservations, key and cart |
| `ConfirmBegin`, `ConfirmLock`, `ConfirmCommit` | `confirm`: lock and read the order; `lockActiveInventory`, `assertReservationCoverage`; consume |
| `TerminateBegin`, `TerminateLock`, `ReleaseCommit` | `cancel`, `reject`, `terminate` |
| `CancelBegin`, `CancelLock`, `ReleaseCommit` | the customer's `cancel`, whose view precedes its lock |
| `Prepare`, `ReadyForPickup` | `transitionIntake` |
| `ReceiveBegin/Commit`, `TransferBegin/Commit` | `receiveBatch`, `transfer`: the replay lookup is a step of its own |
| `RequestAdjustment`, `DecideBegin`, `DecideExpired`, `DecideReject`, `DecideApply` | `adjust`, `decideAdjustment` |
| `Sweep` | `expireReservations`, for a cutoff that may be older than now |

Abstractions.  A request is its quantity per variant; prices, addresses, consent and
every other check that only refuses a request is the choice not to begin or to abort.
An item (lot and location of a variant) is a number, in the order of its id, which is
the order the code locks and allocates in.  A receipt into a new lot is a receipt into an
item without stock.  The lock on an `InventoryAdjustment` row is not modelled, its
status check is: the model allows more interleavings than MySQL.  `Order`, its
`Delivery` and its `CashCollection` are one record with a version each for order and
delivery.  Quantities reserved are counted as a set of units; `StoreProofs` shows
(`UnitsTotal`) that this is the sum of the quantities.

`StockPromise` is the abstract specification: per variant a number of free units, per
order a phase (none, held, lapsed, shipped, closed).  It knows no locations, locks,
versions or retries.  `StoreRefinement` gives the mapping: a promise lapses when the
clock passes its expiry, whether or not the sweep has run.

### Worker: the outbox

`Outbox` has the event rows, leases, claims, publication and the queue;
`OutboxProcessor` what a handler does with each kind of event; `Worker` composes any
number of workers.  Time is left out: a lease may expire at any moment after it was
granted and a backoff ends some time after it began, which covers every setting of the
timeouts.  A worker has one poller and one handler; several handlers of one process
(`concurrency`) behave like several workers, since they share nothing but the rows.
Every transaction locks its event's rows before it reads them and is one step;
provider and storage calls lie between two transactions, where everything else may
happen.

| Action | Code |
|---|---|
| `Enqueue` | `createNotificationWithOutbox`, `ensureNotificationWithOutbox`, the media and sweep sources |
| `Claim` | `claimAvailable`: bury events out of attempts, lease a batch |
| `AddJob`, `MarkPublished`, `PublishFails`, `PollAborts` | `pollOnce` and its error paths |
| `Take`, `Finish`, `AlreadyClosed`, `Defer` | the BullMQ callback, `process`, `deferMediaDeletion`, `scheduleRetry` |
| `ProcessSweep` | `processTransaction` for a sweep (its effect on stock is `Store!Sweep`) |
| `ClaimMediaDeletion`, `DeleteObject`, `CompleteMediaDeletion` | media cleanup |
| `ClaimNotification`, `SkipDisabled`, `Send`, `RecordDelivery`, `RecordFailure`, `RecordLateFailure`, `HandlerFails` | notification delivery |
| `BecomeDue`, `ExpireLease`, `StallAfterCrash`, `StallWhileRunning`, `LoseJob`, `Crash` | clock, BullMQ, Redis and the operating system (external) |

BullMQ is modelled from its use here: one job per event under a deterministic id, adding
it again is a no-op while it exists, a finished job is removed if its lock is still
held, a stalled job is handed out again or failed.  The model allows a handler to run on
after its job was given to another worker.  The provider and the object store
succeed or fail.

One branch has no action: `claimNotification` (`outbox-processor.ts:647-672`) closes an
event whose notification already has an outcome.  Notification and event always change
in one transaction, so that never happens; `ProcessedMeansDone` says so, TLC checks it
and `ProcessedOnlyWhenDone` proves it.

### Fulfilment: delivery and cash

An order has one delivery and one cash collection, so all three are indexed by the
delivery, each with its version.  The transactions run under REPEATABLE READ: the first
plain read fixes the view of all later plain reads, while `FOR UPDATE` and the condition
of an update see the newest row.  A handler that reads first has two steps: `XBegin` makes
its checks on the view and keeps the versions it saw, `XCommit` takes the locks and makes
the conditional updates.  One that locks the contended row first is one step.  `Abort`
is any refusal, timeout or deadlock.

| Action | Code |
|---|---|
| `Assignment…`, `Unassign…`, `Annotate…`, `Transition…`, `RecordAttempt…`, `Complete…`, `CompleteReturn…` | `AdminDeliveriesService` with `lockDelivery`, `updateMirroredStatus` |
| `CreateManifest…`, `TransitionManifest…`, `Import…`, `UpdateManualCourier` | `AdminDeliveryOperationsService` |
| `PrepareOrder`, `ReadyForPickup`, `CancelOrder` | what `AdminOrdersService` does to an order that already has a delivery |
| `RecordCollection…`, `ResolveCollection…`, `CreateRemittance…`, `SubmitRemittance`, `Reconcile…`, `ResolveRemittance…` | `AdminCashService` |

Amounts are counted in units of at most `MaxAmount`; a collection may be short, exact or over.

### Storefront: catalogue, media, imports

Publication, taxonomy and media review are SERIALIZABLE, where every read locks what it
read; the other handlers check first and make one update that is conditional on the
version they checked.  `stored` is the object store, `lease` the holder of the media
import's Redis lock, which `LeaseExpires` may take from a running import.

| Action | Code |
|---|---|
| `CreateProduct…`, `UpdateProduct…`, `Publish…`, `ChangeProductArchive`, `ConfirmMediaReview` | `AdminProductsService` |
| `CreateVariant`, `UpdateVariant`, `PublishVariant`, `RemoveVariant…`, `ChangeVariantArchive` | `AdminVariantsService` |
| `UpdateBrand`, `CreateCategory`, `Category…` | `AdminBrandsService`, `AdminCategoriesService` |
| `Upload…`, `Replace…`, `WriteFails`, `CommitUnanswered`, `SetPrimary`, `ArrangeImages`, `Remove`, `Review`, `WorkerDeletes` | `ProductMediaService`, with the worker's media cleanup |
| `Preview`, `Apply…`, `Rollback` | `CatalogImportService` |
| `MediaImportBegin`, `DownloadImage`, `SkipImage`, `UploadImported`, `ImportUnanswered`, `UploadRefused`, `MediaImportEnd`, `ImportCrashes` | `CatalogMediaImportService`, without `overrideImages` |
| `StockMoves`, `DeliveryChanges`, `LeaseExpires` | what inventory, delivery configuration and time change under the checks |

Texts, attributes and slugs are left out; a price is zero or not.  A batch keeps the set of
rows whose versions are still those its import left; `imported`, `edited` and `unsure` are
history, for the properties only.  The catch blocks around an upload cannot tell a
transaction that failed from one whose `COMMIT` was not answered and clean up in both cases
(`WriteFails`, `CommitUnanswered`); `unsure` keeps the images of the second kind.
`publishedAt` and restrictions are left out of `PublicProduct`: every publication sets the
first, and no operation writes the second.  `Ancestors`, the categories that the walk of `assertNoParentCycle`
visits, is the least set closed under `parent`, so that it can be reasoned about without
recursion; the walk's limit of 100 levels only refuses more.

### Pricing: delivery configuration, quotes, settings

Every edit of the configuration is one SERIALIZABLE transaction on a row named with its
version, hence one step.  `Quote` computes from the configuration, as operators, what
`CheckoutQuoteService`, `CheckoutOrderService` and the storefront's own lookup (`geography/`) compute;
`MethodsMatchQuote` compares them in every reachable configuration.  A checkout reads
its zone and its rates in two steps; the order is written in the second, since nothing that
others change is read in between.  A save of a setting names the version the form was
opened on; it reads the setting, for the audit log, in one step (`SaveRead`) and makes the
conditional update in another (`SaveCommit`).  Weight bounds and two of the surcharge types are left out, the caps on the
lengths of lists are out of reach, tax is zero, and the geography is fixed, since no
operation changes it.

### Access: accounts, sign-in, customer data

A handler here is a sequence of reads, transactions and Redis commands; a request has a
step for each and another request may run between any two.  A crash is a request
that takes no more steps.  Redis keys and locks expire at any time (`ChallengeExpires`,
`OnboardingExpires`).  `past` records what happened, for the properties only.

| Action | Code |
|---|---|
| `BeginLogin`, `IssueChallenge`, `VerifyCode`, `AdvanceStep` | `AdminAuthService` |
| `Bootstrap`, `CreateAdmin`, `AdminLifecycle…` | `AdminAccountsService` and the bootstrap command |
| `RegisterBegin`, `Register`, `Login`, `RequestReset…`, `TriggerReset`, `Reset…` | `CustomerAuthService` |
| `StartGoogle`, `Callback`, `ResolveIdentity`, `MatchEmail`, `Claim`, `CompleteCreation`, `CreateGoogleCustomer`, `CompleteLink`, `Link`, `FinishOnboarding` | `GoogleCustomerAuthService`, `GoogleOAuthStateService` |
| `CustomerLifecycle…`, `Anonymize` | `CustomerAccountActionsService` |
| `Issue`, `Resolve`, `Revoke` | `SessionService` |
| `DataBegin` with `CartCommit`, `CreateAddress`, `UpdateAddress`, `RemoveAddress`, `WishCommit` | cart, address and wishlist services: the view is fixed before the profile is locked |

Failed-login counters and lock-outs, active orders before an anonymization, and the stock
check of a cart line only refuse; the unique phone number is folded into the unique
address.  A second super-administrator comes from an approval outside the code
(`AssignSuper`, external).  When a customer has two carts, any active one of the view may be
the one the query returns.

### Web: the client and its answers

`WebClient` has the server's record, the query cache's copy of it, one mutation under way
and a connection that loses requests and answers; a request the browser gave up on may
reach the server later.  A behaviour is about one page.  `WebEditors` describes each form by
how it follows its record: mounted anew for every version, mounted for good, a dialog opened
on a row, or a button.  A form mounted for good keeps what it was filled with: React fixes
the value of an input with `defaultValue` when it mounts it, so an untouched entry may say
what the record said then, while the version that is sent is that of the newest copy
(`BoundTo`).  `WebSubmissions` describes each request by
what names it: a key for the payload, a key for the record, a code the user typed, the
record it decides, or nothing.  `WebBatches` has the image upload, the status import, the
message preview and the image editor.  `app/providers.tsx` sets what the model takes
for granted: no refetch on focus, copies fresh for 30 seconds, no retry of a mutation.

`HandleSave`, `HandleRequest` and their like are what the API does with a request, as far as
its client can tell: they are summaries of what the other modules model in full.  A taxonomy
entry that is created and then published by a second request is one request here.
`OtherSaves` and `OthersWork` stand for the rest of the world.  What each button makes of a
status is abstracted to a step forward, a toggle or any outcome.  A page sends one
mutation at a time, as its buttons are disabled while one is pending.

## 3. Runs

Bounds are stated in each `.cfg`.  `CHECK_DEADLOCK FALSE` everywhere: with clock, keys,
versions, faults or rows used up and nothing open, the system rightly rests.

| Run | Question | Instance | Checks |
|---|---|---|---|
| `intake` | do customers, administrators and the sweep keep the promises made to an order? | 2 sessions, 2 customers, 3 keys (two of one customer, so that a retry under a new key happens), 2 orders, 3 items of 2 variants; every order asks for 2 units of one (which takes both its items) and the last unit of the other | `NoOversell`, `DecisionsHold`, `OneOrderPerSubmission`, `AllOrNothing`, `ReservationsFinal`, `OrderMovesForward` |
| `stock` | do receipts, transfers and adjustments respect reservations, and is the interleaved system the simple one?  Does an overdue reservation end? | 2 sessions, 1 order, 2 items of a variant, one movement and one adjustment of 2 units; `MaxStock` 4 so that the limit of the column is met; the order asks for the stock of both items and a sweep takes one reservation, so that it cuts through the order | `StockReconciles`, `KeepsPromise`, `OverdueReleased` |
| `dispatch` | do late, duplicated and dying handlers agree on an outcome, and does every event come to an end? | one event of any kind, 2 workers of which one has the channel disabled, 2 attempts, 2 objects, 1 fault | `NothingStranded`, `OneOpenAttempt`, `ProcessedMeansDone`, `OutcomesFinal`, `EventsSettle` |
| `fulfilment` | do administrators who deliver and administrators who count cash agree about an order? | 2 sessions, 3 administrators (four eyes and one more), 2 deliveries, 2 couriers, 1 manifest, 2 remittances, amounts to 3; 7 scenarios | `OnlyLegalMoves`, `HandedOverInCustody`, `PaymentFollowsDelivery`, `NoOverAllocation`, `RemittedIsVerified`, `CashRecordsStand` |
| `storefront` | is what is published sellable, reviewed and stored? | 2 sessions, 1 product of 2 variants, 1 brand, 2 categories, 3 images, 2 batches of 4 kinds; 9 scenarios | `PublishedIsSellable`, `PublishedUnderPublished`, `NoCategoryCycle`, `MediaConsistent`, `LiveIsStored`, `ImportedOnce`, `RollbackWithinBatch` |
| `pricing` | can what is offered be charged? | 2 zones, 3 rates, 1 pickup, 1 window, 2 localities in different governorates, amounts 0 to 2, 2 editors, 3 saves of settings, 1 checkout; 8 scenarios | `ActiveZoneServes`, `MethodsMatchQuote`, `AuditReplays`, `FreeOnlyWhenExplicit` |
| `access` | do overlapping requests keep accounts, codes, resets and lists in order? | 2 requests, 2 administrators, 2 customers, 1 address, 2 Google subjects, 2 of every key, 3 variants of 2 products; 14 scenarios | `SuperRemains`, `StepsAdvance`, `AccountsDistinct`, `ResetsHold`, `ListsConsistent` |
| `web` | does the client survive other users and a bad connection? | every page in turn, versions to 2, 2 losses, 3 keys, 3 wishes, 2 files | `DecidedOnCurrent`, `OneEffectPerIntent`, `LateAnswersFit` |
| `overwrite` | (violation) does a save keep what others saved? | the form of a variant, versions to 3 | `OthersWorkKept` |
| `attempted` | (violation) does an attempted delivery go on? | 1 session, scenario `OnTheRoad` | `AttemptedGoesOn` |
| `verify` | (violation) is cash remitted once it is verified? | as `fulfilment`, scenario `Remitted` | `VerifiedIsRemitted` |
| `carts` | (violation) has a customer one active cart? | as `access`, scenario `Shopping` | `OneActiveCart` |

Why these are enough.  Two sessions (or requests) are all a row lock or a version can
tell apart: one holds or has read, the other comes in between, and a third transaction
appears as one of the one-step actions.  Two orders compete for the last units; a third
would meet the same counts.  The clock of `Store` has the instants before, at and after an
expiry (`ReservationTTL` 2, `TxTimeout` 1, `MaxClock` 3, in `stock` 2); that of `Pricing`
those before, in and after the term of a rate.  Three saves of settings are two of one
setting, of which one may be refused, and one of another.  Two remittances share a collection, which is
where allocations meet.  Limits of the code that only count are small, so that they are
reached: 2 attempts at a code (5 in the code), 1 cart line, 1 wish, 2 addresses.  In
the outbox two workers hold the old and the new claim of an event, two attempts make a
first and a last one, and expiring a lease costs no fault, so slow handlers are not
bounded by `MaxFaults`.  Every safety property is proved for any values of the constants besides
(section 5), so the bounds of the passing runs only matter for liveness, and for
what a mutant needs to show itself.  On the web, two versions are the one shown and the one saved since;
two losses allow the loss of a request and of its repetition.

Symmetry is used in safety runs only, over interchangeable sessions, orders, requests,
administrators, remittances and new identifiers; `stock`, `dispatch`, `pricing`,
`attempted` and `web` use none.

Fairness.  `Store!FairSpec`: the clock advances (weak), an open transaction ends by its
timeout (weak fairness of `Rollback` per session), and the sweep, which the worker
enqueues every interval, is not overtaken for ever when its rows are free again and
again (strong: InnoDB serves the longest waiter).  Clients are never assumed to act.
`Worker!FairSpec`: time passes and BullMQ's stalled check runs for each event; a poller
and a handler go on, for every database, Redis, provider and storage call in the two
loops has a timeout.  Faults are not fair.  `Fulfilment!FairFulfilmentSpec`, used by
`attempted` alone: administrators finish what they begin and keep working; with it the
delivery stays where it is because nothing is offered, not because nobody acts.

What some properties leave out, and why.  `PublishedIsSellable` and `PublishedUnderPublished`
except products an import changed: the import overrides status and price without those
checks.  `ResetsHold` counts a session from its creation: a sign-in whose password was
checked before a reset may issue one after it.  `LiveIsStored` excepts the images whose own
writer was not told that they were recorded (`unsure`), `RollbackWithinBatch` allows the
product of a batch's variants to be older than the batch, `DecidedOnCurrent` excepts forms
that stay mounted (`MountedForms`) and requests without a version, `OneEffectPerIntent` the transfer and requests without a key or code:
in each of these the code does not do what the property says (section 4).

## 4. Findings

* `attempted`: `DELIVERY_ATTEMPTED` may be followed only by `RESCHEDULED`, which is not among
  `OPERATIONAL_DELIVERY_TARGETS`, to which requests and imports are limited; no operation
  leaves the status, against `docs/CHECKOUT_AND_ORDER_LIFECYCLE.md:51`.
* `verify`: `applyVerifiedAllocations` counts what is verified of a collection in a view older
  than its locks.  Two remittances that share it and are reconciled at once are both
  `VERIFIED`, and the collection stays unremitted, against `docs/COD_RECONCILIATION.md:47`.
* `carts`: `lockCustomerAndCart` reads before it locks; two first requests of a customer
  each find no cart and create one, against the comment at `cart.service.ts:245`.
* `overwrite`: the form of a variant stays mounted (`key = variant.id`) when its list is read
  anew; untouched inputs keep what they were mounted with and are sent with the new version.
  A save puts back what another administrator saved, and the version check passes, against
  `docs/DATABASE.md:199`.  The forms of zones, thresholds, image texts and customer notes are
  made the same way.

Recorded with the hazards of `PROJECT.json`, without a run of their own:

* a cancellation writes `onHandAfter` from its read view, so the newest stock movement may
  state an outdated quantity (the quantity itself is right);
* a checkout that waits across an expiry may answer 503 (`INVENTORY_INVARIANT_BREACH`) where
  out of stock is meant;
* the poller dead-letters an event whose last attempt is under way; when that fails, its
  notification stays `PROCESSING`;
* an assignment may accept a courier suspended meanwhile, and two drafts of manifests
  may take one delivery, as both look in a view older than the locks;
* the rollback of a batch that added a variant to an older product archives the product with
  what was maintained in it by hand, because `assertCreateOnlyRollback` judges variants only;
  `docs/CATALOG_IMPORT_AND_MEDIA.md:118-125` and the message at `catalog-import.service.ts:1048`
  promise otherwise;
* when only the answer to the `COMMIT` of an upload is lost, `cleanupFailedWrite` deletes the
  objects of a live image (`product-media.service.ts:281-283`, `:497-499`, `:854-856`);
* by the views of their handlers, the limits on addresses and wishes can be exceeded by one;
* two sign-ins that both enrol a second factor overwrite each other's secret;
* an edit between quote and order changes the price silently;
* on the web: a transfer asked again after a refetch draws a new key; uploads
  whose first answer was lost are refused as duplicates until the files are chosen anew.

## 5. Proofs

Every invariant and action property of a passing run is a theorem.  It holds for any number of
sessions, orders, items, workers, deliveries, remittances, accounts, pages and so on.  The inductive invariants were checked by TLC on the
runs' instances before they were proved.

| Module | Theorems | Inductive invariant |
|---|---|---|
| `StoreProofs` | `TypeCorrect`, `NeverOversold`, `DecisionsStayGood`, `OneOrderEach`, `OrdersWholeOrNot`, `ReservationsStayFinal`, `OrdersMoveForward`, `StockAlwaysReconciles`, `PromiseKept` | `TypeInv`, `StockInv`, `OrderInv`, `ReconcileInv`, `PromiseInv` |
| `WorkerProofs` | `WorkerTypeCorrect`, `NothingEverStranded`, `AtMostOneOpenAttempt`, `ProcessedOnlyWhenDone`, `OutcomesAreFinal` | `WorkerInv` |
| `FulfilmentProofs` | `CustodyAlwaysHolds`, `PaymentAlwaysFollows`, `NeverOverAllocated`, `RemittedAlwaysVerified`, `MovesAlwaysLegal`, `CashAlwaysStands` | `FulfilmentInv` |
| `AccessProofs` | `SuperAlwaysRemains`, `StepsAlwaysAdvance`, `AccountsStayDistinct`, `ResetsAlwaysHold`, `ListsStayConsistent` | `AccessInv` |
| `PricingProofs` | `ActiveZonesAlwaysServe`, `AuditAlwaysReplays`, `FreeIsExplicit`, `OffersMatchQuotes` | `PricingInv`, `RatesInv` |
| `StorefrontProofs` | `RequestsStayValid`, `StorefrontTypeCorrect`, `ShelvesNeverEmpty`, `NothingPublishedAstray`, `CategoriesStayForest`, `MediaStaysConsistent`, `LiveStaysStored`, `ImagesImportedOnce`, `RollbacksStayWithin` | `StorefrontInv` |
| `WebProofs` | `RequestsStayFit`, `WishesFulfilledOnce`, `AnswersOnTime`, `SavesDecidedOnCurrent` | `WebInv` |
| `SumProofs` | (lemmas about `Total`) | |

### Stock and orders

`TypeOK` is not inductive alone: `TypeInv` adds that a transaction refers to a row of the
table its kind works on and that a recorded adjustment names an item.  That stock stays
within the column rests on the range checks of transfer, receipt and adjustment and on
the versioned updates.

`NoOversell` is not inductive: a commit uses a decision made two steps earlier, under an
older clock.  `StockInv` adds

* `LocksExclusive`: the items locked by two sessions are disjoint;
* `TakeFits`: what a locked checkout will take fits beside everything reserved *now*;
* `ConsumptionFits`: what a locked confirmation will consume fits beside everything
  *else* reserved now, even if its own reservation has expired since.

The argument: time only removes reservations (`ReservedLater`); a transaction changes
the reservations or the stock of an item only while it has that item's lock, so the
decisions of the others, who hold other items, are not disturbed (`DecisionKept`,
`CommitKeeps`); a decision is established when the locks are obtained
(`CheckoutLockStep`, `ConfirmLockStep`) and is what the commit needs.

`OrderInv` adds what a transaction knows of the order it works on.  `SubmissionInv`:
checkouts in flight belong to different customers (the lock on the profile), a checkout
holds a key without an order and a cart with lines, and an order is the answer of its key
and has used up its cart.  `SettlementInv`: an order's row is locked by one transaction at
a time, the items a locked transaction holds are the active reservations of its order and,
for a confirmation, cover it, and an order has consumed all, nothing, or one of the two
according to its status.  With that, consumption is of the whole order, and the two action
properties follow from what each commit changes.  `ReconcileInv` adds that stock is the
sum of its records; each commit adds one record and moves one or two items by it.

`PromiseKept` is the refinement, `Spec => Promise!Spec`.  The abstract `free` is defined item
by item, the abstract steps per variant and order; the bridge is `Balance`: the free stock
of a variant is what lies on its shelves less what is owed to the orders that hold a
promise.  It needs `PromiseInv` (a pending, unexpired order holds a reservation for every
unit it asked for, and a locked checkout takes what its cart asks for).  Every step of
`Store` then changes shelves and debts as a step of `StockPromise` does or leaves both
alone; a transfer moves units between shelves of one variant, and a sweep changes nothing
at all, because the clock already did.

Assumptions: `TxTimeout < ReservationTTL` (15 s against 30 min), finitely many orders,
movements and adjustments, `None` is no identifier, and the types of the constants
(`StoreDb`).

`SumProofs` proves what `Total` computes.  The library's induction theorems take a predicate,
which the provers cannot instantiate; here the induction is over the subsets of a finite
set, with a *set* of good subsets in the predicate's place, from the
well-foundedness of strict inclusion (`SubsetInduction`).

### The outbox

The five state predicates of `WorkerInv` are proved together (`WorkerTypeOK` and
`HandlersInformed` are among them and are in no run), because each needs the others:
`RecordDelivery` may close a dead-lettered event only because the attempt it records is
still open, which `OneOpenAttempt` ties to a notification without outcome;
`OneOpenAttempt` needs that a handler's attempt exists (`HandlersInformed`);
`ProcessedMeansDone` needs that the objects a handler has ticked off are really gone;
and `OutcomesFinal` needs that a closed event is leased to nobody, so that no clock step
and no claim touches it (`NothingStranded`).  Assumption: the three kinds of events are
disjoint and `None` is none of them (`Outbox`).

### Delivery and cash

The properties speak of rows, the commits of what their request read before.  `TxOK` closes
the gap: for every request under way, what it checked still holds of each row *whose
version it still has*; a commit whose conditional updates go through therefore acts on
what it checked.  Two things are not protected by a version.  `reconcileRemittance` and
`resolveRemittance` count the verified allocations in their view (`ViewOK`): a collection
they found covered stays covered, because allocations never shrink and `NoOverAllocation`
leaves no room for more.  (That one found *not* covered may have become so is the finding
`verify`.)  And `createRemittance` bounds its items by the balance in its view, which is right
when it commits because the balance of a settled collection no longer changes.  For each commit it is
shown that what it does to the rows is an instance of `Moves` (one relation per kind of
row: `DeliveryMove`, `CashMove`, `RemittanceMove`, `AllocationMove`, `ManifestMove`), and once for
all that `Moves` preserves the invariant (`MoveKeeps`) and implies the action properties.
Assumptions: finitely many remittances, imports name operational targets (the schema of
the request), and an instance starts with rows as orders have them before completion.

### Accounts

`AccessInv` describes what a request carries from step to step (`Shaped`), that the rows it
knows of are still there (`Informed`), that the Role lock admits one change of an account
at a time whose check stays true (`RoleHeld`), and strengthens each property to what the
handlers maintain: the steps used with a secret are not after its last one
(`StepsBelow`), an open token and an active session were handed out under the present
password (`HandedOut`), a token that was used is closed (`ResetsSpent`), an account that may
become active *again* has a way in (`AccountsApart`), an address row with the version that
was read has the default flag that was read.  Assumptions: the sets of identifiers are
apart, and an instance starts with rows for which these conditions hold.

### The catalogue

`StorefrontInv` has three parts.  `Sound` speaks of the rows: images have an owner, one mark
as primary and one imported image per owner and flag their product while pending
(`ImagesSound`); published products and categories are on published shelves, with something to
sell, and no category is above itself (`ShelvesSound`); what still has the version a batch
recorded was not edited since (`BatchesSound`).  `RequestOK` says what each request under way
may rely on: of rows it has locked, what it found when it locked them; of rows it will update
conditionally, what it found *as long as the version is the same* (`fresh`).  `ObjectsOK` says
that objects stored for a row yet to be written belong to one request, which alone may
clean them up; a request whose commit was not answered cleans up after itself like one that
failed, and leaves its image among those `LiveIsStored` excepts.

The properties follow from these at once; the work is that the requests do not disturb each
other.  It is divided in two.  For each commit it is shown that the rows it leaves are sound
and that it moves them as `RowsMove` allows, which bounds what may happen to a row by the
locks and versions the commit must own.  Once for all (`StepKeeps`) it is shown that a
step which moves rows so and respects the locks (`TxStep`) keeps the conditions of all *other*
requests (`OthersKept`) and of their objects (`ObjectsKept`).

For the tree, `AncestorsLeast` says what the least closed set is,
and `AncestorsKept` that a chain of ancestors stays as it is while nobody moves one of its
members; a move has all of them locked, so its check is still true when it commits, and
`TreeKept` shows that hanging a category under one it is not above closes no cycle, for a tree
of any depth.  A rollback compares versions, and an administrator's edit changes them;
the versions an import's own uploads change are recorded anew only for owners that nobody
edited meanwhile, which is the condition of `RequestOK` on a media import.

Assumptions: products and variants are different identifiers and `None` is none of them
(`CatalogAssumption`); a file's variants belong to its product, as `applyProductGroup` refuses
any other (`CATALOG_IMPORT_SKU_CONFLICT`, `PayloadAssumption`); an instance starts
with sound rows (`StorefrontAssumption`).  TLC evaluates them on the instances of the run.

### Configuration and policy

`ActiveZonesAlwaysServe`: every edit of a zone, a link or a rate re-checks the zones it
affects; the proof shows which zones those are, so that the others cannot lose their last
locality or rate.  `AuditAlwaysReplays`: what a save read is still the setting as long as the
version is the one it read (`EditsRead`), so the entry written with a conditional update
that goes through continues where the log ended; the replay of the other keys does not
notice an entry that is not theirs.

`RatesInv` says of the rates what every edit re-checks.  No two active rates are ambiguous
(`RatesApart`), so among the applicable rates of the most specific scope `chooseUnique`
finds one of the highest priority and never two; with an active zone's base rate from
`PricingInv` that makes the offer and the quote agree (`OffersMatchQuotes`).  An active
rate costs nothing only in a zone that is free for every order (`FeesExplicit`), so a
sum of fees is zero only there (`FreeIsExplicit`, by the lemmas of `SumProofs`); a checkout
that read the zone before the edit and the rates after it is why the property names two
thresholds.  Assumptions: finitely many rates; zones, localities, delegations and
governorates are different identifiers and `None` is none of them; an instance starts
with rows the edits may have left.

### The web client

None of the three properties is inductive: each speaks of a request at the moment it is
handled, and what makes it right was decided when the page was read, the form filled or the
key drawn, with losses and other users in between.  `WebInv` says what the pages carry along.

*Editors.*  Every copy of the record, in the cache, in an answer or behind a form, is older
than the record or the same (`Copy`), and the record only moves on by a version
(`RowMoves`).  A form mounted for one version and a dialog show the copy they were opened on
wherever nothing was typed; a form that stays mounted `Lags`: nothing is said of its entries
(`FormOK`).  A request keeps the version of the copy it was made from (`SaveOK`), whether it is
pending, lost or late.  So a request the server accepts was made from the record as it is, and,
unless its form lags, every field it does not mean to change is the record's own.
`SavedAsExpected` shows that nothing but the server's acceptance counts as a save.  For the
forms that lag, the finding `overwrite` shows what is missing, and `DecidedOnCurrent` leaves
them out.

*Submissions.*  `KeysAgree`: all requests for one wish carry one key, which the page still
holds while the wish is the present one (`PresentKey`); it is forgotten only by a step that
makes a new wish (`Leave`, `Fulfilled`) and drawn anew only for another signature.  The checkout is
different, as a refetched cart changes its signature and so its key: there `CartsApart` shows
that a second order under another key would need a cart that is not spent and has a later
version, and only the customer's next wish fills one.

*Batches.*  One invariant per page: files before the one being sent are stored
(`UploadInv`, with the least file of a selection from the well-foundedness of the naturals,
`LeastFile`), an approval is of a trial that was found valid (`ImportInv`), an answer is of
the delivery asked for (`MessageInv`), and an editor at rest shows what its settings make
(`ReplacementInv`).

A step of one kind of page leaves the others' variables alone (`EditorKeeps`,
`SubmissionKeeps`, `BatchKeeps`), so each handler has to show its own part only.  What the proofs
use of the tables `Editors` and `Submissions` is proved of every entry (`EditorsWellMade`,
`SubmissionsWellNamed`): a new page has to meet the same conditions.  Assumptions: `None` is no version,
record, outcome, kept key or approval, and the pages are those of the tables.

### Only model-checked

* Liveness (`OverdueReleased`, `EventsSettle`), which the prover does not reach.
* The four findings, which are violations.

## 6. Not modelled, and the plan

Not modelled in the API: contact attempts, order notes, low-stock alerts, suppliers,
locations and thresholds of stock, the creation of couriers, which append or edit rows that
no decision reads; the texts of messages, the columns of files, the validation of
images and the parsers of imports, which are computations without state; storefront
content; searches, reports and exports; cryptography and the HTTP layer.  On the web:
layout, wording and translations, navigation, read-only pages, and the client's own session
state.  Also left out: scripts for backup, restore and
migration, load tests and seed data.  Deadlocks of MySQL appear as `Rollback` and `Abort`,
since InnoDB resolves them by rolling one transaction back.  The age gate is left out
because it decides within one request: a confirmation writes a consent and a signed cookie,
and serving compares the cookie with the settings of the moment.  Of the media import,
the branch `overrideImages=true` (`catalog-media-import.service.ts:501-539`), which replaces
what an owner has, is left out.

What would come next: the two proofs of liveness, once the prover reaches them; the limits on
list lengths in `DeliveryConfig`; and, on the web, pages that hold two records at once.
