# TLA+ models of RetailOS

RetailOS is a multi-tenant e-commerce platform: NestJS and Prisma over
PostgreSQL (one master database, one database per store), Redis and BullMQ.
This directory holds TLA+ models of its core, the TLC configurations that check
them and the TLAPS proofs about them.  `PROJECT.json` maps each definition to
the lines it models and lists runs, mutants, hazards, findings and theorems.

Paths below are relative to `src/`; `api/` is short for `apps/api/src/`.

## 1. Inventory

### The order path

| part | state | operations | talks to |
|---|---|---|---|
| Orders `api/modules/orders/orders.service.ts` | `orders`: status, paymentStatus, idempotencyKey | create, onPaymentSucceeded, onPaymentFailed, updateStatus, cancelByCustomer, releaseStaleReservations | every other part of this table, in the same tenant transaction |
| Inventory `api/modules/inventory/inventory.service.ts` | `inventory`: quantity, reserved, version; `inventory_transactions` | reserve, commit, release, restock, adjust, bulkAdjust | called by Orders; CHECK constraints of tenant migration 0002 behind it |
| Payments `api/modules/payments/payments.service.ts` | `payments`, `payment_refunds`; master `payment_routes`, `webhook_events` | createPaymentRecord, attachProviderIntent, verify, handleWebhook, markPaid, markFailed, refund, applyRefund, settleRefund | the gateway (Razorpay), Orders |
| Coupons `api/modules/coupons/coupons.service.ts` | `coupons.usage_count`, `coupon_redemptions` | validate, redeem, release | called by Orders and Cart |
| Cart and pricing `api/modules/cart` | `carts`, `cart_items` | add, update, remove, clear, coupon, merge of a guest cart; `PricingService.price` (pure) | read and emptied by Orders, reads Inventory |
| Maintenance `api/worker/maintenance.processor.ts` | none | cron: release stale reservations, refresh counters, billing lifecycle | Orders, Billing |

What is hard here: every operation is a transaction in READ COMMITTED that
first *reads* the order without a lock and then *writes* from what it read; the
payment row, the order and the webhook row are committed separately (the last
in another database); the gateway may answer a browser (`verify`) and send two
webhooks about one capture at the same time; the cron job races all of them;
and any of these calls can die between two commits.

Correctness of the parts: stock never leaves its CHECK constraints, never more
units sold than there were, what goes back on the shelf had left it; one order
per idempotency key; a payment is settled once, an order is PAID only over
captured money, a capture ends in a confirmed order; the coupon counter equals
its redemptions and respects its limit; an unpaid order gives its stock back;
what a shopper put in a cart stays there until it is ordered; the stock ledger
explains the stock; the amounts on an order add up.

### The parts around it

| part | state | hard behaviour | what makes it correct |
|---|---|---|---|
| Refunds (in Payments) | `payment_refunds`, `payments.refundedAmount` | gateway timeout after the money moved, two clicks, a webhook before the answer | refunds never exceed what was captured; money that left is on record; one row per refund; a failed refund stays failed |
| Provisioning `api/modules/tenants/tenant-provisioning.service.ts`, `api/worker/provisioning.processor.ts` | `tenants`, `tenant_databases`, job rows with `completedSteps`, a Redis lock with a TTL | crash and resume at any step, a refused or leaked lock, suspension meanwhile | what is recorded as done is done; the registry's password is the server's; the lock is freed; the retries suffice |
| Deletion `api/modules/tenants/tenant-deletion.service.ts` | deletion jobs with `completedSteps`, storage, accounts | a step fails or the process dies, requests keep connecting | a store whose access was revoked never serves again; COMPLETED means nothing is left |
| Tenant connections `api/core/database` | pool, connecting map, busy counters | connects, evictions and the sweeper interleave at every await; a client opened with a password that has changed since | one client per store, counters that count, no client closed under a counted call; pooled clients match the server |
| Staff and guards `api/modules/staff`, `api/core/tenant`, `api/common/guards` | `tenant_users`, `staff_profiles` in the store's database, two Redis entries per member and store | two databases and a cache without a transaction; reads before a change that are cached after it | a removed member is out as soon as the change is announced; seats are bounded; the mirror agrees |
| Sessions `api/modules/auth` | session rows per refresh token | two refreshes with one token; revocation between check and mint; a call that dies between consume and mint | a revoked session stays dead; a token has one successor; an old password is out |
| Billing and entitlements `api/modules/billing`, `api/modules/entitlements` | subscriptions, invoices | double confirmation, the lifecycle job against a payment | a payment extends once; a settled invoice stays; who paid is served |
| Cache `api/core/cache` | Redis keys, in-flight loaders | a loader finishing after an invalidation writes the old value | outside that race, nothing stale is served |
| Storage, catalog, customers, reviews, store settings, reports, AI, notifications, audit, controllers, web and mobile apps, API client, templates, UI, infrastructure | rows, objects, browser state | mostly CRUD over one transaction, or rendering | see section 6 |

How they interact: a sign-up (`TenantsService.createTenant`) writes the store,
its subscription and a job, and queues it; the worker provisions the store
through the registry and the connection pool; orders and payments run inside the
store's own database; refunds close orders through `updateStatus`; billing
writes the subscription in the master database and invalidates the cached
entitlements that every gated operation reads; a staff request passes guards
that believe the cached membership and status; every query on a store goes
through the connection pool; deletion takes all of it down again.  Sessions live
in both databases: staff in master, shoppers in the store's own.

## 2. Modules

| module | what it is |
|---|---|
| `Stock` | the four movements of `InventoryService` as functions from the inventory row before the UPDATE to the row after it, and the CHECK constraints |
| `Checkout` | the state machine of the order path: variables, one action per handler or transaction step, fairness, properties, and the mutants the properties are tested against |
| `Reservation` | the abstract promise: units on hand are free or held for one order; a sale takes what that order held; what comes back was held or sold |
| `MCCheckout` | small stores for TLC: request `a1` tapped twice (`a2` carries the same key), another shopper's online order `b1`, a cash order `c1` |
| `CheckoutProofs` | types, stock, idempotency keys, coupons, settled payments, single sales and the refinement of `Reservation`, proved |
| `Refunds`, `MCRefunds`, `RefundsProofs` | refunds of one captured payment and the gateway behind them; two requests and the gateway's dashboard for TLC; the proofs |
| `Tenants`, `MCTenants`, `TenantsProofs` | one store from sign-up to deletion: provisioning, status, pool, deletion; the proofs |
| `Sessions`, `MCSessions`, `SessionsProofs` | the refresh sessions of one account; the proofs |
| `Billing`, `MCBilling`, `BillingProofs` | one store's subscription, invoices and cached entitlements; the proofs |
| `Pool`, `MCPool`, `PoolProofs` | one process's database clients of several stores; the proofs |
| `Members`, `MCMembers`, `MembersProofs` | staff memberships of one store, their mirror, and what the guards have cached; the proofs |
| `Cart` | the carts of shoppers and guests |
| `Shelf` | `Stock` for every variant, with the ledger and adjustments by staff |
| `Pricing` | what a list of lines costs, as operators |
| `Shop`, `MCShop`, `ShopProofs` | composes `Cart`, `Shelf` and `Pricing`: carts become orders of several lines; the proofs, with those about sums |

### How `Checkout` corresponds to the code

A *worker* is a call in flight: a request, a webhook delivery or a job.
`call[w]` is its local state: where it is, which order it serves, and what it
has read (`seen`, `seenPaid`, `held`).  A transaction is two steps:

- the *read*: `findUnique` takes no lock in READ COMMITTED, so another
  transaction may commit between it and the first write;
- the *write*: the first UPDATE takes a row lock that conflicting transactions
  wait for, and everything from there to COMMIT is one step.  It writes what
  the code writes, from what the code read: `status: order.status === 'PENDING'
  ? 'CONFIRMED' : order.status` writes the *snapshot*, so `PaidWrite` does too.

Statements committed on their own are steps of their own: the conditional
UPDATE of `markPaid` (`MarkPaid`) before `onPaymentSucceeded` (`PaidRead`,
`PaidWrite`); the insert of the webhook row (`Webhook`) before anything is
applied (`HookApply`) and marked (`HookDone`).

| code | actions |
|---|---|
| `OrdersService.create` | `SubmitAgain` (fast path) or `Submit`, `ReadCart`, `Place` or `PlaceRefused`, `Attach` (after the commit: gateway intent and route, or the COD tail); the services it calls are `CanReserve`, `Commit`, `RedeemCoupon`, `CreatePayment`, `OpenIntent` |
| `PaymentsService.verify` | `VerifyCaptured`, `VerifyAuthorized`, `VerifyFailed`, by the gateway's answer; `VerifyFailed` also for a signature that does not verify |
| `handleWebhook` | `Webhook`, `HookApply`, `HookDone`; a redelivery finds the row and is a no-op, so it is no action |
| `onPaymentSucceeded`, `onPaymentFailed` | `PaidRead`, `PaidWrite`; `FailRead`, `FailWrite` |
| `releaseStaleReservations` | `Sweep`, then `FailRead`, `FailWrite` |
| `updateStatus` | `StaffMove` (guards and reads), `MoveWrite` |
| `cancelByCustomer` | `ShopperCancel` (its own query), `CancelRead`, `MoveWrite` |
| an exception, timeout or killed process | `Abort` |
| the gateway (external) | `GatewayStep`: attempts may be authorized, fail and succeed later; a capture is final |

Abstractions.  One variant per store, and orders of one line; orders of several
lines are `Shop`.  A cart is a number of units, a price never decides anything
here.  An order has the name of the request that placed it.
Refused configurations (COD disabled, gateway not connected), addresses, notes, history rows, counters of products and customers, queue
messages and audit entries are left out.  How long a shopper takes is
unbounded, so `Sweep` has no clock.  `inventory_transactions` is kept as the
number of SALE and RETURN rows per order; its sums, and manual adjustments, are
in `Shelf`.  Refunds through the gateway are a model of their own.

Switches restrict the *environment*, never the code: `StaffTargets`,
`Shoppers`, `Sweeping`, `Gateway` and `WebhookKinds` say who acts;
`BadSignatures` says whether `verify` is ever called with a signature that does
not verify, which marks the payment FAILED whatever became of it;
`OneCallPerOrder` makes calls on the same order take turns.  Bad signatures are
on in the passing runs, and off in the two violations, whose traces need none.

### How `Refunds` corresponds to the code

| code | actions |
|---|---|
| `refund` | `Ask` (the read and the guards), `Insert` or `InsertRefused`, `Send` or `SendFails` (the gateway), `Store` or `StoreRefused`, `Catch`, then the steps of `applyRefund`, `Close` |
| `applyRefund` | `ApplyRead`, `ApplySum` or `AlreadySettled`, `ApplyWrite`: one transaction, whose conditional UPDATE takes the row lock (`RowFree`) |
| `settleRefund` | `HookFind` or `HookUnknown`; `HookCreate` or `HookCreateRefused`; `HookFail`, `FailSum`, `FailWrite` |
| the gateway | `Send`, `GatewayMove`, `DashboardRefund`: it creates one refund per idempotency key, may lose the answer, settles later, and sends a webhook for each end state |

A refund request is a process, and so is each webhook (a gateway refund and
its outcome).  A request is for any amount that is left when it reads, and the
idempotency key is the pair of its sequence number and its amount.  A sum of
amounts is the number of pairs of a row and a unit of money it stands for
(`Units`).  `payments.status` follows from `refundedAmount` and is
not a variable.  A webhook handler does not die here: what that costs is
`webhook_lost`.

### How `Tenants` corresponds to the code

| code | actions |
|---|---|
| `TenantProvisioningService.provision` | `Acquire` or `Conflict`; `Load`, `AlreadyDone` or `LoadFails`; `NextStep`; `Record`; `Complete`; `Throw`, the catch and the finally, in `Stuck` and `Fault` |
| its steps | `CreateDdl`, `CreateRow`; `MigrateStart`, `MigrateRun`, `MigrateEnd`; `Seed`; `Brand`; `Activate` |
| BullMQ, a killed process, Redis | `AttemptsLeft`, `Crash`, `LockExpires` |
| `PlatformService.updateTenantStatus` | `StatusRead`, `StatusWrite` |
| `TenantConnectionManager` | `Reaches`, `Connect`, `Evict`, `Sweep` |
| `TenantDeletionService.deleteTenant` | `DeleteStart`, `DeleteNext`, the five steps (`PurgeMaster` and `RemoveOrphans` are the two halves of one), `DeleteRecord`, `DeleteComplete`, `DeleteFails`, `DeleteCrash` |

A *runner* is a caller of `provision`: the worker, or the console.  A password
is a number that grows with each `ALTER ROLE`; a pool remembers the one its
client was opened with.  What the store's database holds is what the steps put
there (`schema`, `settings`, `branding`).  Three switches name environments the
code does not survive; the run has them off: `SlowRuns` (a run outlasts its
lock, which nothing renews), `DeleteAnytime` (a deletion starts while a runner
works), `LateUploads` (a presigned upload lands after the access was revoked, the
store's row being there or gone).  Staff may make a store ACTIVE again at any
time, also while it is deleted: whether it *serves* (`Serves`) is its status
and `deletedAt`, which every lookup of a store or a membership tests.

### How `Sessions` corresponds to the code

| code | actions |
|---|---|
| `login`, `switchTenant`, `mint` | `Login`, `Switch` (the checks of each), `Open` (the insert) |
| `JwtAuthGuard` | `AccessExpires`; until then an access token is accepted |
| `refresh`, `rotate` | `Find`; `Burn` or `BurnFails`; `Resolve` or `Refuse`; `Consume`; `Mint` or `MintRefused` |
| `logout`, `changePassword` | `Logout`; `Rehash`, `RevokeAll` |
| `pruneExpiredSessions`; an account disabled or a member removed | `Prune`; `SetEnabled` |
| an exception or a killed process | `Dies` |

A refresh token is its claims: session, version and the second it was signed
in, which is all that tells two tokens of one session apart; a row is found by
the hash of the token, so the table is a function of tokens.  `access` are the
sessions with an access token that has not expired: a revocation does not
touch it.  `switchTenant` needs such a token and nothing else, so the session it
opens stands for the password its caller's session was opened with.  `shared`,
`dead`, `opened`, `settled` and `escaped` are history: the code does not have
them and no guard reads them; the properties do.

### How `Billing` corresponds to the code

| code | actions |
|---|---|
| `startCheckout` | `StartCheckout` (the period), `CreateInvoice` |
| `confirm` | `Confirm` (the read), `Pay` (the transaction), `Forget` (the resync) |
| `recordFailure` | `Fail`, `FailRead`, `FailWrite`, `Forget` |
| `advanceLifecycle` | `PassRead`, `PassPastDue`, `PassExpire`, `PassForget` |
| `changeSubscription`, `setEntitlement` | `ChangePlan`, `SetOverride`, `Forget` |
| `EntitlementsService.get`, `remember` | `Load`, `Remember`; `Expires` is the TTL |

Time is counted in units; the period and the grace window are constants.  A
cached entry is not its contents but whether the rows it was computed from are
still what they were.  An invalidation may be lost: `del` swallows the errors
of Redis.  `paid`, `contested`, `spoiled` and `raced` are history.

### How `Pool` corresponds to the code

| code | actions |
|---|---|
| `run` | `Admit` (the guard before it), `Mark` (the counter, after the await), `End` (the finally) |
| `getClient` | `GetPooled`, `Join` (a connect is under way), `StartConnect`, `Refuse` (destroyed), `Resume` (the promise settled) |
| `connect`, `enforcePoolLimit` | `Room`, or `MakeRoom` and `RoomMade` (the victim's `$disconnect` is awaited); `Opened`; `ConnectFails`; `Forget` (the `finally` on the promise) |
| `evict`, the sweeper, `onModuleDestroy` | `Evict`, `Sweep`, `Destroy`; `Closed` when `$disconnect` returns |
| `PlatformService.updateTenantStatus` | `SetStatus` |

Node runs what lies between two awaits without interruption, so that is a step.
A client has the name of the connect that opens it; a name is used again when
nothing refers to it.  Which idle client is the least recently used is open.

### How `Members` corresponds to the code

| code | actions |
|---|---|
| `StaffService.invite` | `InviteCount` (the quota), `InviteFind`, `InviteUpsert`, `Sync`, `Forget` |
| `update` | `UpdateRead`, `UpdateWrite`, `Sync`, `Forget` |
| `remove` | `RemoveRead`, `RemoveDelete`, `Forget`, `Unmirror` |
| `TenantsService.updateStatus` | `SetStatus`, `ForgetStore`, `ForgetAll` |
| `TenantGuard`, `PermissionsGuard` | `Arrive`; `FindHit`, or `FindLoad` and `FindStore`; `ResolveHit`, or `ResolveLoad` and `ResolveStore`; the membership once more |
| TTLs, a killed process | `Expires`, `ExpiresStore`; `Dies` |

Every statement outside the master database may fail, as the code swallows its
errors (`Sync`, `Unmirror`, and every `del` of the cache).

### How `Shop` corresponds to the code

| code | actions |
|---|---|
| `CartService.addItem` | `AddResolve`, `Create` (`resolveCart`), `AddRead`, `Write` |
| `updateItem`; `removeItem`, `clear`; coupons | `UpdateRead`, `Write`; `Delete`; `Coupon` |
| `mergeGuestCart` | `MergeGuest`, `MergeOwn`, `Merge` |
| `InventoryService.adjust` | `AdjustRead`, `AdjustWrite` |
| `OrdersService.create` | `Checkout` (the cart is read), `Lock` (each `reserve`), `Place` (the rest and the commit) |
| `onPaymentSucceeded`, `onPaymentFailed`, `updateStatus` | `Settle` (the read), `Lock` (each row), `Settled` |
| a deadlock PostgreSQL breaks, a timeout, a killed process | `Abort` |

`Cart` and `Shelf` give steps that leave the other's variables alone, and
`Shop` says so.  A row of the inventory is locked by its first UPDATE until
the transaction ends (`Free`), in the order the lines were read, which the
code does not fix.  Calls on one order take turns here: their races are
`Checkout`'s subject.  A customer's cart and the cart of a guest token are both
unique (migration 0002 and the schema): `Create` fails where there is one, and
`Merge` rolls back if the cart it would make came too late (`SecondCart`).
Prices are whole minor units; a division is exact and then rounded half up,
where the code divides floating point numbers.

Two reads the code does not repeat leave a window, which history variables
mark: `torn` are lines of a cart that a request overwrote or deleted without
having read them as they were, `lost` are items whose quantity an adjustment
overwrote.  `CartKept` and `LedgerSums` hold of all others.

## 3. Runs

The order path runs on `MCCheckout`, each other module on its own.  Sizes are
distinct states, with symmetry where the run has no liveness property.

| run | question | result |
|---|---|---|
| `race` (1,005,000) | double tap, a second shopper, a coupon with one use, two units; verify, webhook, sweep and staff race without any ordering | `TypeOK`, `StockSound`, `SoldOnce`, `PaidIsBacked`, `CouponHonest`, `OneOrderPerKey`, `SettledIsFinal` hold |
| `books` (378,000) | two orders compete for two units, every operation, two calls die; calls on one order take turns, staff never confirm an unpaid order | `ImplementsReservation`: every step is a step of `Reservation` |
| `resolved` (258,000) | fair scheduling, one call dies, calls race | `PendingResolved`: an order never stays PENDING for ever |
| `oversold` | calls on one order race | `NotOversold` violated |
| `webhook_lost` | fair scheduling, one call dies | `CapturedConfirmed` violated |
| `refunds` (1,663,000) | two requests and the dashboard, of any amounts, cash or online; lost answers, late and early webhooks, a call dies | `EqualRefundsFit`, `MovedIsRecorded`, `CountedOnce`, `FailedIsFinal` hold |
| `tenants` (529,000) | worker, console, staff who suspend and reactivate, requests and a deletion; a step throws, a process dies, the lock expires; fair scheduling | `RecordedStepsHold`, `PasswordsAgree`, `CompletedIsGone`, `StaysInert`, `LockFreed`, `GetsProvisioned` hold |
| `sessions` (1,404,000) | two requests on two devices of one account: login, switch of store, refresh, replay, logout, two password changes | `DeadStaysDead`, `OneHolder`, `OldPasswordOut` hold |
| `billing` (1,860,000) | two calls, the lifecycle pass, a loader of entitlements and the clock | `NeverOverExtended`, `PaidIsServed`, `FreshUnlessRaced`, `SettledStays` hold |
| `pool` (150,000) | two calls of two stores, room for one client; evictions, the sweeper, failing connects, suspensions, the shutdown; databases answer | `OneClientPerTenant`, `CountedRight`, `HeldOpen`, `OverrunBounded`, `Reconnects` hold |
| `members` (4,140,000) | two people, two changes, one request in the guards; Redis and the store's database fail, calls die | `GuardsFresh`, `SeatsBounded`, `MirrorAgrees` hold |
| `shop` (669,000) | a guest cart, with or without a cart of the shopper's own; two cart requests, two transactions on orders of two lines, one adjustment | `TypeOK`, `CartKept`, `LedgerSums`, `ReservedIsOwed`, `ChargedRight` hold |

`books` and `oversold` belong together.  The lifecycle implements
`Reservation` exactly when two restrictions hold that the code does not
enforce: calls on the same order take turns (no row lock or version check on
the order), and staff do not move an unpaid online order to CONFIRMED.  Drop
the first and `oversold` sells three units out of two; drop the second and
units that were only reserved are restocked as if they had been sold.

What the two violations show:

- **oversold.** The capture of an order and the stale-order sweep both read
  PENDING, then both write.  The sweep's release gives back a reservation that
  the capture already turned into a sale; the release is taken out of another
  order's reservation, whose units are then sold twice.  The conditional
  UPDATE of `reserve` cannot see this: it guards the row, not the order.
- **webhook_lost.** The webhook row is inserted before anything is applied.  If
  the call dies (or fails and marks it FAILED), the redelivery is answered
  "duplicate", and once `markPaid` committed, every other path finds the
  payment settled: captured money, order PENDING, and the sweep cancels it.

### Promises of the documents that have no run

Met while modelling; each follows from the steps of the models, and none is
needed to state what does hold:

- *Staff confirm an unpaid order* (`orders.service.ts:557`): PENDING to
  CONFIRMED is a legal edge for staff and commits no stock; a later
  cancellation restocks by status, so units that were only reserved are added.
- *A double tap returns the original order* (`docs/PAYMENT.md:182`): the key is
  looked up before the transaction only.  A tap that overlaps the first one
  loses against the emptied cart or the unique index and is answered with an
  error; `OneOrderPerKey` holds, the order is not returned.
- *Stores may accept orders when out of stock*: `reserve` drops its WHERE
  clause then, but `inventory_reserved_within_quantity` still refuses
  `reserved > quantity`.
- *The second of two counts is told to reload* (the comment above `adjust`): the
  version is compared when it is read and not in the UPDATE, so two counts that
  read one version both write, and the first is overwritten.
- *Per-line amounts re-sum to the order total* (`pricing.service.ts:65`): the
  discount does; the lines may exceed the total when the last line's share of
  the discount exceeds the line.  And with four equal lines and a discount of
  two minor units the last share is -1, which a CHECK refuses with the order.
- *The pool's limit* (`tenant-connection.manager.ts:38`) is checked before an
  await and not after: connects that pass together overrun it, by no more than
  `OverrunBounded` says.  *A busy client is never evicted* (`:14`): `evict` and
  the shutdown do not look at the counter.  *A client is never handed out for a
  suspended store* (`:42`): a request past the guard connects again after the
  eviction.
- *A double click can never refund twice* (`payments.service.ts:609`), *two
  clicks cannot both refund the full amount* (`:634`): two requests that read
  the same rows and ask for different amounts have different keys, and both are
  inserted.  Online, the gateway's own cap is left to stop the second; a cash
  refund asks no gateway, so 2 and 1 of 2 are both handed back.
  `EqualRefundsFit` is the part that holds.
- *Changing a password ends every other session* (`auth.service.ts:478`,
  `docs/API.md:98`): the refresh tokens, yes.  An access token is accepted until
  it expires, and `switchTenant` mints a new refresh session for it without a
  password and without a look at its session; that one lives on after the
  change.
- *`DELETING` alone refuses everything* (`tenant-deletion.service.ts:18`,
  `docs/TENANCY.md:187`): `updateStatus` has no guard against it and `activate`
  writes ACTIVE blindly, so the status of a store under deletion can be ACTIVE
  again.  It still does not serve, because `revokeAccess` also sets `deletedAt`.
- *A demotion takes effect on the next request* (`permissions.guard.ts:14`) is
  true unless
  a read of the old membership is cached after the invalidation: then within
  30 seconds.

### Where the passing runs stop

Several of these properties hold outside a window the code leaves open.  The
windows are named in the models, so that each property says exactly how far
the code goes:

- **refunds.** A second click is stopped by the unique index on a key both
  requests computed alike, and by the gateway's own idempotency after a
  timeout.  Requests of unequal amounts have unequal keys; the property speaks
  of payments whose refunds are all of one amount.  A webhook that overtakes the answer leaves the
  caller's row FAILED and `refundedAmount` at the higher total (`Quiet` looks
  at the rows, which do agree); `refund.failed` leaves the order's
  `paymentStatus` as it was.
- **tenants.** A step that throws after the migrations marks the registry row
  FAILED, and the resumed run skips the migrations that would set it READY
  (`Unreachable`).  An attempt that meets the lock is spent, and all five
  attempts of BullMQ are over before a leaked lock expires (`refused`).  A
  deletion that dies right after the master rows are gone can never be
  resumed: the lookup finds no store.  A presigned URL is good for its whole
  life, so an object may land after the purge (`LateUploads`); `CompletedIsGone`
  allows that object and nothing else.
- **sessions.** A session `switchTenant` opened after a password change for an
  access token from before it (`escaped`), above.  Two refreshes that both found the row both mint (`shared`), and
  a revocation between find and mint does not stop the mint (`dead`, `settled`
  count only revocations with nothing under way).  A refresh that dies after
  the consume signs the device out: its retry is taken for a replay.
- **billing.** Two confirmations of one invoice at once (`contested`): the
  declined one overwrites PAID.  A lifecycle pass that read the store before
  its payment expires it after (`spoiled`).  A loader that started before an
  invalidation stores the old entitlements after it (`raced`), as does a lost
  `del`, until the TTL.
- **pool.** A call that got its client in one await and is counted after it can
  lose the client in between, and one whose entry was replaced is counted on
  the new one; `HeldOpen` speaks of calls counted on the client they hold, and
  names the clients that were closed although busy (`closedBusy`).
- **members.** An entry read before a change and stored after it, or whose
  invalidation was lost (`raced`); members that two calls handled at once or
  one call half way (`torn`); invitations counted together (`inviting`), and
  members that `update` reactivated, which checks no quota (`reopened`).
- **shop.** Lines and items overwritten unread (`torn`, `lost`), above.  Two
  checkouts of one cart with two keys are two orders of the same lines.

### Bounds

Two workers: every race here is between two calls, and a third only repeats
one of them.  Three requests at most: two with one key, and one competitor.
Stock of two and carts of one or two let a second order fit, or just not fit.
One coupon use for two entitled shoppers.  `MaxAborts` of one or two: a crash,
and a crash of the call that comes after.  Every request is placed once and
nothing is unbounded, so the graphs are complete.  Deadlock is off: when all
requests are settled nothing is left to do.

`refunds`: two requests and one dashboard refund, each of one or two of an
amount of two, so each of the three may be the one too many; two events let a refund succeed and fail, or two refunds
succeed; one aborted call.  `tenants`: one throwing step, which may be any of
the five, and one crash of any process, in one behaviour; four attempts, one
fewer than `queue.service.ts` allows and one more than a fault and a crash need;
three passwords, one more than a fault and a crash need.
The graph is complete but for the passwords: a fourth run of CREATE_DATABASE
is cut off.  `sessions`: two devices, so that one session is switched from the
other, or one opened before a change and one after; two requests, two that
refresh or one that refreshes and one that revokes; two versions, so a token
and its successor; one second, in which tokens differ by session and version;
two password changes, as a second one ends what escaped the first.  `billing`: two calls and the pass; one
invoice, confirmed and declined by either call; two plans; a period of two and
a grace of one within four units, so a period ends, the grace ends, and a
renewal may follow; one change by the console.

`pool`: two stores and a limit of one, so every connect needs room; two calls
and two clients, since a race here is between a call and one other actor.
Names of clients are used again, so the graph is complete.  `members`: two
people and one seat, so an invitation is one too many; two changes, of each
other or one after the other, and one request.  `shop`: every cart request,
transaction and adjustment happens at most once, which bounds the run: two
cart requests, so two merges, a merge and an addition, or two writes of one
line; two transactions, so two checkouts, or a checkout and its settlement; a
line of one unit at a time, two of one variant and one of the other; three
carts, so a cart merged away can be made again.

Every invariant and action property of a passing run, and the refinement, is
also proved without these bounds (section 4); the bounds matter only to the
liveness properties.

### Fairness

`FairSpec` asks for weak fairness of a call's next step (a handler that does
not die runs on), of the delivery of each webhook the gateway has (it retries
until answered) and of the sweep of each order (cron, every five minutes,
`maintenance.processor.ts`).  Shoppers, staff, the gateway and `verify` owe no
step: a browser may close at any time.  `PendingResolved` needs the sweep;
`CapturedConfirmed` is violated with the webhooks fair.

`Tenants` asks for weak fairness of a runner's next step (it runs on unless it
dies), of the worker's next attempt while BullMQ has any left (`Acquire` or
`Conflict`), and of the expiry of the lock (Redis).  The console, staff, the
deletion and requests owe nothing.  `LockFreed` needs the expiry for the
leaked lock; `GetsProvisioned` needs the attempts, and holds of behaviours in
which no attempt was refused and the store can be reached.

`Pool` asks for weak fairness of the steps of a connect and of a close
(databases answer or time out) and of the `finally` that forgets a connect (the
event loop).  Callers, the console and the sweeper owe nothing.

### Mutants

Each property of a passing run has a mutant in the module it is about: an
operator, commented as such, that changes one definition as a plausible bug
would (no unique index, a payment UPDATE that also matches PAID rows, an
authorisation taken for a capture, a release without clamp, a retry with a
fresh idempotency key, a lock without NX or without a TTL, a step recorded
before it ran, a store closed by its status alone, a token that is not consumed, a password change that revokes
nothing, an invalidation left out, a counter decremented on the wrong entry, a
guest cart deleted with `deleteMany`, an UPDATE that writes the whole row it
read...).  With it, TLC
finds the property violated.

## 4. Proofs

TLAPS proves every invariant, every action property and the refinement that the
passing runs check.  For `Checkout`: for every set of requests, carts, limits,
any number of workers and any number of aborts, in every environment.  For the
other modules: for any number of calls, amounts, attempts, faults,
crashes, passwords, sessions, versions, seconds, loaders, invoices, plans, stores,
clients, people, carts, orders and variants, any catalog and coupon, and any
length of time.

| theorem | statement |
|---|---|
| **of `Checkout`** | |
| `TypeCorrect` | `Spec => []TypeOK` |
| `StockAlwaysSound` | `Spec => []StockSound` |
| `KeyHasOneOrder` | `Spec => []OneOrderPerKey` |
| `CouponAlwaysHonest` | `Spec => []CouponHonest` |
| `SettledPaymentIsFinal` | `Spec => SettledIsFinal` |
| `PaidAlwaysBacked` | `Spec => []PaidIsBacked` |
| `SoldAtMostOnce` | `Spec => []SoldOnce` |
| `LifecycleReserves` | `InTurn`: `Spec => ImplementsReservation` |
| `NothingLostInTurn` | `InTurn`: `Spec => []UnitsConserved` |
| **of `Refunds`** | |
| `TypeCorrect` | `Spec => []TypeInv` |
| `RefundsFit` | `Spec => []EqualRefundsFit` |
| `MovedMoneyRecorded` | `Spec => []MovedIsRecorded` |
| `FailedStaysFailed` | `Spec => FailedIsFinal` |
| `RefundsCountedOnce` | `Spec => []CountedOnce` |
| **of `Tenants`** | |
| `TypeCorrect` | `Spec => []TypeInv` |
| `RecordedStepsAlwaysHold` | `Environment`: `Spec => []RecordedStepsHold` |
| `PasswordsAlwaysAgree` | `Environment`: `Spec => []PasswordsAgree` |
| `CompletedIsAlwaysGone` | `Environment`: `Spec => []CompletedIsGone` |
| `AlwaysInert` | `Spec => []StaysInert` |
| **of `Sessions`** | |
| `TypeCorrect` | `Spec => []TypeInv` |
| `SignedOutIsOut` | `Spec => []DeadStaysDead` |
| `OneSuccessor` | `Spec => []OneHolder` |
| `OldPasswordIsOut` | `Spec => []OldPasswordOut` |
| **of `Billing`** | |
| `TypeCorrect` | `Spec => []TypeInv` |
| `ExtendedOncePerPayment` | `Spec => []NeverOverExtended` |
| `SettledInvoiceStays` | `Spec => SettledStays` |
| `PaidAlwaysServed` | `Spec => []PaidIsServed` |
| `CacheFreshUnlessRaced` | `Spec => []FreshUnlessRaced` |
| **of `Pool`** | |
| `TypeCorrect` | `Spec => []TypeInv` |
| `OneClient` | `Spec => []OneClientPerTenant` |
| `CountersRight` | `Spec => []CountedRight` |
| `CountedKeptOpen` | `Spec => []HeldOpen` |
| `LimitNearlyKept` | `Spec => []OverrunBounded` |
| **of `Members`** | |
| `TypeCorrect` | `Spec => []TypeOK` |
| `CacheIsFresh` | `Spec => []GuardsFresh` |
| `SeatsHeld` | `Spec => []SeatsBounded` |
| `MirrorKept` | `Spec => []MirrorAgrees` |
| **of `Shop`** | |
| `ShopTyped` | `Spec => []TypeOK` |
| `CartsKept` | `Spec => []CartKept` |
| `LedgerExplains` | `Spec => []LedgerSums` |
| `OwedIsReserved` | `Spec => []ReservedIsOwed` |
| `ChargedAddsUp` | `Spec => []ChargedRight` |

Assumptions: `RequestsAssumption`, `StoreAssumption`, `EnvironmentAssumption`
of `Checkout`, `RefundAssumption`, `TenantsAssumption`, `SessionsAssumption`,
`BillingAssumption`, `PoolAssumption`, `MembersAssumption`, and of `Shop` with
its parts `CartAssumption`, `ShelfAssumption`, `ShopAssumption`.  They give the
constants their types and say which sets are finite.  Beyond that, a store of
`Members` starts within the seats of its plan, as one that is provisioned with
its owner alone does, and `Shop` starts from carts of
the right form, where one that is not there is empty and nobody has two; its items on the shelf
are the variants in its catalog.  TLC evaluates all of them in every run.

The refinement and its corollary are proved under `InTurn`, the two
restrictions of the run `books`: `OneCallPerOrder`, and staff do not move an
unpaid order to CONFIRMED.  They are restrictions and not facts about the code:
the run `oversold` shows what happens without the first, section 3 what happens
without the second.  Everything else about `Checkout` is proved without them.

Three theorems of `Tenants` are proved for the environment of its run,
`Environment`: a run of provision ends before its lock expires, and a deletion
starts when provisioning is over (`SlowRuns` and `DeleteAnytime` off).
Presigned uploads may land late.  `AlwaysInert` needs no restriction: staff may
set any status, and a deletion may overlap any run.

The argument.  `TypeOK` is not inductive: a write step uses the order, the
quantity or the target its call carries, so `TypeInv` adds `CallsNamed` (a call
past "free" names an order, and carries what its step needs).  `StockSound` is
inductive relative to it, movement by movement (`MovementsLegal`).
`OneOrderPerKey` is not: it needs that a status is only overwritten where there
is an order, that is, that settlements, webhooks and cancellations are of
orders that exist (`KnownOrders`: rows and calls); with it only `Place` creates
orders, and its guard is the unique index.  `CouponHonest` needs from
`KnownOrders` that a new order has no redemption row yet.  `PaidIsBacked` needs
what calls in flight rely on (`Funded`): a settlement under way is of a payment
that is PAID, and a snapshot that says PAID is still true when it is written;
these stay true because a settled online payment is final
(`SettledPaymentsStay`) and a capture is never taken back.

`SoldOnce` needs `SoldInv`: for every online order at most one call is between
the UPDATE of `markPaid` and its `PaidWrite` (`OneSettling`), and while one is,
nothing of the order was sold (`UnsoldCalls`).  A second call cannot join,
since that UPDATE matches only a payment that is not PAID, and it is PAID from
there on.  A cash order is sold when it is placed, and no settlement touches it.

The refinement.  When calls take turns (`Turns`), a call on an order is the
only one, so what it has read is still so when it writes (`FreshCalls`).  With
that every step is one of a few movements of one order and the stock row
(`BookStep`): held, sold, released, restocked, or nothing.  `ReservedIsHeld`
says that the units reserved are those of PENDING orders, as the cardinality of
a set of pairs of an order and a unit, so that a movement adds or takes the
pairs of one order; it is why a release finds what it gives back and the clamp
of `release` never cuts.  `BookedRows` says by status what was sold and
returned.  `BookStepReserves` then maps each movement to an action of
`Reservation`, or to a stutter.  `NothingLostInTurn` draws the consequence for
the store: units on the shelf and units customers keep are always the units
there were at first.

`Refunds`.  `EqualRefundsFit` counts refunds at the gateway, or cash rows; what
bounds them is `KeyInv`: every key in use (at the gateway, in a row, or carried
by a call) is a number of refunds of its amount that still fits what was
captured, as long as every row is of that amount (`Fitting`); no two requests'
rows carry one key; and what the gateway has is on some row.  A new key fits
because the rows that count were subtracted when it was computed.
`MovedIsRecorded` needs `Books`: what the row
of a request says at each step of its call (`CallRow`), that a row made by a
webhook is about its refund (`HookMade`), which row a webhook works on
(`HookRow`), and that a row which knows its refund counts until that refund
fails (`Stands`).  `FailedIsFinal` follows from `Books` step by step: `Catch`
is reached with a PENDING row, and `Moves` repeats the status.  `CountedOnce`
speaks of the end of all calls and needs the history of each row (`Once`): a
row of a call carries its key from the insert on, and, once the answer is
stored, the refund the gateway has under that key; a call that is past the
gateway has stored the refund or failed its row; a webhook about a failure has
failed the row that knew the refund, once it is past it; and no two rows are
about the same refund (`Apart`).  So when all is quiet a row that counts knows
its refund, and rows that count differ in it.

`Tenants`.  `LockInv`: who works holds the lock, so two runners never work at
once; it is where `~SlowRuns` is needed.  `OrderInv`: a runner at work has done
exactly the steps before its own, as the job says, and no deletion has begun;
and a deletion begins with all five steps done, so nothing that a runner still
does can undo it.  On these, `PwInv`: until CREATE_DATABASE is recorded nobody
can connect, which is why a half-done or repeated password change is never
seen, and from then on the row and the clients have the password of the role.
`HoldInv`: a runner about to record a step has done it, and before a deletion
nothing is undone (`NothingUndone`).  `GoneInv`: what each step of the deletion
removed, once the step is recorded, carried by the call, or about to be
(`Reached`), stays removed.  `InertInv` says that
from the revocation on (recorded, carried by the call, or done with the row
gone) `deletedAt` is set; nothing resets it (`NeverUnmarked`).

`Sessions`.  `DeadInv` adds to "no live token" that nobody is past the lookup
with a token of a dead session, so nothing can mint; `HolderInv` that the one
call that refreshes holds the one live token until it consumes it, so a mint
finds none; `PasswordInv` that whatever can still become live was opened with a
password at least as new as the last settled change, or by `switchTenant` since
(`Known`); an access token can open nothing else.

`Billing`.  `HandleInv`: an invoice that is being settled is PENDING and in one
call's hands, unless contested.  `ServedInv`: a pass that is about to expire the
store, and a store that is EXPIRED, have an end in the past.  `FreshInv`: what
is stale, in the cache or in a load, is raced or about to be announced.
`ExtendInv`: what a call is about to write on an invoice, and what an unpaid
invoice says, is within the bound the payment itself will grant (`Bound`, one
period more per payment), so settling it keeps the subscription within it.

`Pool`.  `Links` ties the maps together: what is pooled is open and was opened
for that store, what is open is pooled, a connect under way is the one
registered for its store and the store has no client, and what a call holds at
each of its steps (`Known`).  `OneClientPerTenant` is then a corollary.
`CountedRight` is a cardinality, so each step that counts or uncounts a call
adds or removes one element of the set; `HeldOpen` needs it, as the limit and
the sweeper look at the counter and not at the calls.  `OverrunBounded` needs
that the pool together with the connects past the limit grows only where the
limit was checked, or where `peak` grows too.

`Members`.  `FreshInv` is stronger than `GuardsFresh` by the requests: nobody
holds, between its query and its `set`, a membership or a status that has
changed since, unless the entry is marked raced or the change is about to be
announced.  `SeatsBounded` counts an invitation from its count of the seats on
and not from its upsert; then the seats and the invitations under way exceed
the plan by no more than the history in the property says, and no step but the count
has to be compared with the plan.  `MirrorAgrees` needs that a member that is
not torn has one call at most, and what that call still has to mirror at each
of its steps; the calls on other members are left alone by it.

`Shop`.  `ShopInv` is the structure: a cart that is not there is empty
(`Vacant`), a request knows whose its carts are as long as they are there
(`Asks`), a cart that a merge will make is nobody else's (`MakesAlone`), a
transaction has a customer's cart, which never goes away, and settles an order
nobody else settles (`Deals`).  On it rests `Wanted`, the sums over carts: each
step replaces one cart or two, and changes what its shopper wants by the same
amount, or the lines are torn.  `StockInv` is about the shelf: each row is
legal, its reserved units are the sum of what the unpaid orders owe, its ledger
explains its quantity unless it is lost, and a row that a checkout has locked
has enough left for the line.  This last part is what keeps the CHECK
constraints when several rows move in one commit.  Sums are folds over finite
sets.  The induction theorems of the library cannot be used here (below), so a
fact about sums is proved by contradiction: subsets of a finite set are
well-founded under inclusion, so if the fact failed for some subset it would
fail for a smallest one, which is not empty, and whose picked element can be
taken out (`LeastFailing`, `SumOf`).  `ChargedRight` is arithmetic: a share that
is not the last is at most its line and short of its proportion by less than
half a unit, so the shares add up to the discount, and only the last can exceed
its line, by at most half a unit for every other line (`SharesAddUp`); the total
is off by no more than that (`PriceResums`).

### Only model-checked

- **Liveness**: `PendingResolved`, `LockFreed`, `GetsProvisioned`, `Reconnects`.
  Liveness under fairness, and ENABLED, are outside this prover's reach.
- **The two violations**, `NotOversold` and `CapturedConfirmed`, of course.
- **Recursion and induction over data**: the library's induction theorems take
  an operator as a parameter, which the installed provers cannot instantiate.
  The sums of `Shop` need only well-foundedness, as above; nothing else in the
  proofs needs more.
- **That the constants of the runs satisfy the assumptions**: TLC evaluates them.

## 5. Hazards

`PROJECT.json` lists what can go wrong in this code and would hardly be met by
a test, at its line, with the property that covers it or the reason why none
does yet.

## 6. Not modelled

- **Most of the repository's lines** are CRUD over single rows, request
  routing, answers, templates, rendering and configuration: catalog, customers,
  reviews, store settings, reports, the merchant and storefront
  controllers, the web and mobile applications, the API client and the template
  registry.  They keep no state between two statements that another actor could
  disturb, so there is no behaviour for a model checker to explore; the models
  cover the services that do.
- **How a cart is shown** (unavailable products, changed prices, minimum order
  value) and the thresholds and alerts of the inventory.
- **Floating point** in `PricingService`.
- **Migrations of live stores**, `deprovision`, and the backfill of templates.
- **Notifications, audit, AI, storage**: calls of external services, fire and
  forget; storage enters `Tenants` as what a deletion must leave behind.
- **Cryptography**: hashes, signatures and encrypted credentials are library
  calls, taken to do what they say.

What is left to do: the action properties that the invariants of `Members` and
`Shop` suggest (what one step may do to a locked row, to a cart that is not the
request's), and a refinement that relates the orders of `Shop`, which have
several lines, to `Reservation`, which has one kind of unit.
