# A TLA+ verification of the POCER voucher platform

POCER sells WiFi vouchers. A customer or an agent orders a voucher, pays with a
QR code or from a wallet, and the platform creates a user on the MikroTik router
of the outlet. This directory holds TLA+ models of the parts of the backend
(`src/src/modules`) where money, vouchers and permissions change hands, of what the
screens of the four web apps do with requests and answers, TLC configurations
that check them, and TLAPS proofs of every safety property, action property and refinement
that the configurations check.

Paths are relative to the repository root `src/` is in; line numbers are those
of the commit beside this directory. `PROJECT.json` maps every definition to the
lines it was translated from.

## 1. Inventory

| Component | State it keeps | Operations | What makes it hard |
|---|---|---|---|
| Wallet ledger (`wallet.service.ts`) | `accounts.balance`, `ledger_entries`, `holds` | credit, reserve, settle, release | retries, concurrent purchases, a read outside the lock |
| Purchase saga (`ordering.service.ts`: agentWalletPurchase, customerWalletPurchase, agentSellToCustomer, agentSellBatch) | `orders` | create, reserve, PAID, provision, settle + deliver or release + FAILED | no transaction spans the steps; any await may throw; nobody resumes it |
| Provisioning (`provisioning.service.ts`, `routeros-provisioning.provider.ts`) | `vouchers`, `orders.fulfillStatus`, users of the routers | provisionOrder, createHotspotUser | works on a stale copy of the order; lost replies; colliding codes |
| Payments (`payments.service.ts`) | `payments`, `amount_locks` | createForOrder, cleanupAmountLocks, markPaidByReference | totals are unique for a time only |
| Reconciler and scheduler (`payment-reconciler.service.ts`, `scheduler.service.ts`) | `webhook_events` (orphans), the `running` flag | tick, runCycle | lists read before and used after; a webhook confirms meanwhile |
| Confirmation and webhooks (`confirmPayment`, `payment-webhook.controller.ts`, `bri-notify.controller.ts`) | - | webhook, notify, simPay | redelivered, concurrent, not atomic |
| Voucher activation (`hotspot-webhook.controller.ts`, `activateVoucherOnLogin`) | `vouchers.activatedAt` | on-login | check, then write |
| Settlement detection (`gobiz-detection.provider.ts`, `gobiz-auth.service.ts`) | the stored refresh token and merchant | listSettlements, refresh | token rotation, overlapping cycles, outages, a page of 50 |
| Identity (`auth.service.ts`, `login-throttle.service.ts`) | customers, agents, throttle counters | register, login, verifyPin, setCustomerProvider | attempts in parallel |
| Owner console: outlets, brands, packages, QRIS (`owner.service.ts`) | brands, QRIS accounts, outlets, packages | CRUD, routing, GoBiz connection, deletions | count-then-create, count-then-delete, stale receivers |
| Owner console: agents and customers (`owner-agents.service.ts`, `owner.service.ts`) | agents, their links and discount, customers | CRUD, assignOutlets, deleteCustomer, deleteTransactions | scopes derived from rows that others change |
| Platform administration (`owner-admin.service.ts`) | owner of each outlet, `manageAllOutlets` | assignOutlets, update | changes the scope under the owners' feet |
| Catalog and prices (`catalog.service.ts`, `agentPriceFor`) | `agent_package_prices` | agentPackages, setAgentSellPrice | a cost computed from rows read earlier |
| Web apps (`web`, `web-admin`, `web-agent`, `web-internal`) | what a page shows, what is in flight, token and outlet in `localStorage` | load, submit, poll a QRIS, choose an outlet | answers late, lost, refused or overtaken; forms closed meanwhile |
| Notifications, assistants, QRIS builders, BRI, scripts | rows, or nothing | CRUD, queries, HTTP | - |

How they interact: the controllers call `OrderingService`, which calls the wallet,
payments, provisioning and notifications in turn, each in a database transaction
of its own. The scheduler's timer calls `cleanupAmountLocks` and then `runCycle`,
which calls the same `confirmPayment` as the webhooks. All of it is one Node.js
process: a handler runs undisturbed from one `await` to the next, and at every
`await` any other handler may run. The database gives row locks where
`SELECT ... FOR UPDATE` asks for them (wallet only), unique keys, and atomic
single statements; everything else is shared state without protection. The web apps
see the backend through `api()` alone; they keep no cache between pages, so that a
page is its list, its form and the requests of both.

What makes each component correct:

* **Wallet** - the ledger explains the balance, a reference moves money once,
  a charge and a SETTLED hold come together, money on hold cannot be spent.
* **Saga** - no voucher without money, no charge without a voucher, a refund is
  final, and no money stays on hold for ever.
* **Provisioning** - one voucher per order, and a voucher that opens the router.
* **Confirmation** - redelivered and overlapping confirmations hand out one voucher or
  one credit, only for money that came, and in the end they do.
* **Brand routing** - a brand has one QRIS, and money stays in the brand it is paid for,
  up to the races between requests that overlap.
* **Agents and outlets** - an agent sells within his brand, an outlet belongs to the brands
  of its owner, and an agent reaches one more outlet only by a request that was checked.
* **Shop** - an agent sells above his cost, history keeps its packages, and a validity
  starts again only by logins that race.
* **GoBiz session** - rotation never loses the session, and a token goes with its merchant.
* **Web apps** - a page at rest shows what is stored, a message tells what happened, a choice
  of the user stays as long as it is remembered and offered.
* **Payments and reconciler** - money is matched to the order it was paid for,
  nothing is confirmed without money, nothing paid is taken back, money in time
  is recognised, money that fits nothing is reported.

## 2. Modules

| Module | Models | Notes |
|---|---|---|
| `Account` | the promise of a ledger | abstract: funds, what was credited, what was charged |
| `Wallet` | `wallet.service.ts` | implements `Account` |
| `Provisioning` | `provisioning.service.ts` and the RouterOS adapter | one job per call, one step per await |
| `PurchasePromise` | the promise of a purchase from a wallet | abstract: spendable money and the phase of each purchase |
| `PurchaseSaga` | the wallet purchases of `ordering.service.ts` | composes `Wallet` and `Provisioning`, implements `PurchasePromise` |
| `PaymentMatching` | `payments.service.ts`, `payment-reconciler.service.ts`, `scheduler.service.ts`, the front half of `confirmPayment` | clock, locks, cycle, webhooks |
| `Fulfilment` | `confirmPayment` as a whole, its callers | composes `Provisioning` and `Wallet` |
| `AsyncRequests` | requests and timers as workers between two awaits | extended by the modules whose `job` it is |
| `BrandRouting` | QRIS accounts and outlets in `owner.service.ts`, `resolveOrderQris` | one step per statement |
| `AgentScope` | brands, outlets, agents and the operator: `owner-agents.service.ts`, `owner-admin.service.ts`, parts of `owner.service.ts` and `auth.service.ts` | one step per statement, stopped anywhere |
| `Shop` | packages, prices, orders, customers, vouchers: parts of `owner.service.ts`, `ordering.service.ts`, the hotspot webhook | two requests overlap |
| `GobizSession` | `gobiz-detection.provider.ts`, `gobiz-auth.service.ts`, the connection in `owner.service.ts` | cycles and requests overlap |
| `WebPages` | every page and form of the four apps by its shape | a table of constants |
| `WebApps` | what a page and a form of any shape do | instantiated with `WebPages` by `MCWebApps` |
| `ProvisioningProofs`, `PurchaseSagaProofs`, `PaymentMatchingProofs`, `FulfilmentProofs`, `AgentScopeProofs`, `ShopProofs` | - | the theorems about the module of that name |
| `QrisAccountProofs` | - | the theorems about the two modules on QRIS accounts, `BrandRouting` and `GobizSession` |
| `WalletAndScreenProofs` | - | the theorems about both ends of a purchase, `Wallet` and `WebApps` |
| `MC...` | - | small instances for TLC |

### Wallet

One account: no operation touches two. `balance`, `ledger` and `hold` are the
columns and tables of the same names; a hold that has no row yet has the status
`"NONE"`, so that the set of primary keys is a constant. `Credit`, `Reserve` and
`Release` are one step each, because a transaction that locks the account row (or
a single UPDATE) cannot be interleaved with another of the same account. `settle`
is two: it reads the hold before `applyEntry` takes the lock, so between
`SettleRead` and `SettleCommit` a release, another settle or a reserve may run.
The hold it read is kept in `txn`. `SettleRollback` is any end of the
transaction without a commit. The callers are free, so whatever holds here holds
for every caller. `Amount` is a constant because the amount of an order is fixed
when the order is created and its merchant reference is never reused. The code's
REFUND and ADJUSTMENT entries are members of `CreditTypes`.

The database is read-committed: `SettleRead` sees committed holds, and
`SettleCommit` overwrites the status by primary key.

### Provisioning

`provisionOrder` gets a copy of the order row. `Call` takes that copy (`job.copy`),
`Check` is the two early returns, which trust the copy but look the voucher up,
`Fix` repairs a missing CREATED mark, `RouterAdds` and `RouterRefuses` are the
outcomes of `createHotspotUser` (inside its `try` the adapter turns exceptions and timeouts
into `{ok: false}`, so a user may exist on the router although the result says no).
`ResolveThrows` is the exception outside of it: the credentials of an outlet in `Unreadable`
are resolved before the `try`, and a failure there leaves `provisionOrder` without a FAILED.
`Fail` writes FAILED whatever the row says by then, and `Store` is the
transaction of voucher and CREATED mark, which throws when the username exists.
`Die` is a call that ends with its process. A code is drawn for each order from
`Codes` and may be drawn twice, for one router or for two.

### PurchaseSaga

The saga of one order is a request; `at` is the step it is about to take. The
wallet and the provisioning are instances of the modules above, the worker of
a settle and the caller of a provisioning being the request itself. `Refuse` is
the exception of `reserve` (the order stays UNPAID), `Decide` reads the result of
provisioning, and a result that is an exception ends the request where it is: none of the
three methods has a `catch`. `Die` ends a request of `MayDie` anywhere. Nothing
resumes a request, since the code persists no saga state.

### PaymentMatching

A payment and its order are one record. `ReserveUniqueTotal` and `CreatePayment`
are the two halves of `createForOrder`, with the QR built in between. A settlement
is named by the payment whose QR was paid; what the bank reports of it is the
total and, unless the payment is in `Untimed`, the time, so `Matches` compares just these; a
settlement without a time fits every payment of its total, however old it is. The cycle is the sequence
`Tick`, `StartCycle`, `ListSettlements`, `FindPending`, one of `Confirm`,
`StillOpen`, `ExpirePayment` + `ExpireOrder` per payment, `LogOrphans`; `rec` holds
the lists as they were read. `confirmPayment` is `MarkPaid`, `PayOrder`, `Fulfil`
for the cycle and for every webhook alike. `PayOrder` and `Fulfil` may throw, which aborts the
cycle; the first of them leaves the payment PAID and its order not (`Abandoned`). An account whose
bank does not answer is skipped, and of each account the newest 50 journals are listed: with
`MayMiss` a listing holds any part of the window. `Crash` drops whatever was under way. Time is an integer clock; one unit
stands for a TTL, a window or a grace time.

### Fulfilment

A caller (a webhook, the reconciler) is busy with one confirmation, whose `at` is the
next await: `MarkPaid`, `Load`, `PayOrder`, then `Credit` or `Provision` ...
`Fulfilled`, `Notify`, `MarkSent`. `conf[c].copy` and `.sent` are the order row as
`findUnique` returned it; `PayOrder` writes the status into the copy too, as the code
does, and everything later trusts it. Webhooks arrive any number of times once there
is money. The reconciler lists the PENDING payments with money (`listed`) and of the others
any that are overdue (`doomed`). It confirms the ones and expires the others later, one by one, whatever
they are by then: `ExpirePayment` writes by id and may overwrite PAID, `ExpireOrder` asks for UNPAID.
Which payments are overdue, and how money is matched, is in `PaymentMatching`. `DeleteOwner` takes
the account of the top-ups away: an order read afterwards ends as `topup_no_owner`, one that was read
before makes the account anew. `Stop` is an exception or the end of the process; the
latter is a `Stop` of every call, as no state is kept in memory.
`told` counts up to two messages. The wallet's holds play no part and are empty.

### BrandRouting

Each statement of a console request is a step, each `$transaction` one step, and
`job[w]` keeps what the request read before. A static QRIS text is there or not
(`text`); the check for a real EMVCo string is not told apart from it. BRI credentials
are complete when they are set (`SetBri`), which does not route outlets. `patch` holds
the flags a save sends; `fresh` is the second read of `updateQrisAccount`. `RouteTo` fails as a whole
when its account is gone (foreign key); a brand cannot be deleted. `findFirst`
without `orderBy` may return any match, so `TopUpAccounts` and `OrderAccounts` are
sets of possible answers. The brands are those of one owner, since every write checks
the owner of the brand it names. Requests overlap. `overtaken` is history: the requests that are
under way and under which another one has written a row since they began. The four properties
are action properties about the statements of all other requests (`Undisturbed`), of which the
others may be anywhere in between. Its names are prefixed (`RoutingSpec`, `Consoles`, ...) so that one
module can extend it and `GobizSession`.

### AgentScope

The rows of outlets (`servers`: owner, brand, active) and of agents (owner, brand, links
in `agent_outlets`), the brands created so far and the admins with `manageAllOutlets`.
A request is a sequence of statements, `job` is what is left of it: `create` and
`assignOutlets` are a row, a check and a replacement of the links; `update` with another brand
is the row and then the deletion of the links outside the brand. `Stop` ends a request
between two statements. Requests follow each other. `Owned`, `Reaches`, `Assignable`, `Resolved`
and `MaySell` are the scope queries on which the requests and the sales decide; the lists and counts
of the console, which read the same rows, decide nothing and are left out, and so is `isActive`.

### Shop

A worker goes from one await to the next: `CountOrders` and `DeletePackage`;
`ReadPackage`, `ReadDiscount`, `Upsert` (the agent's own price); `Choose` and `CreateOrder`;
`AskDelete` and `DeleteCustomer`. Deletions follow the schema: SetNull for the package and the
customer of an order and for the customer of a voucher, Cascade for an agent's price. A
deleted row is `Gone` and does not come back. `Login` and `Activate` are the look-up and the
write of `activateVoucherOnLogin` for any number of overlapping reports (`Logins`): the write is by id
and does not look again. The date it writes is reduced to how often a validity
began (`starts`); `racing` is history, the logins that were between the two at the first start. How an order is paid is left to the other modules, hence `Fulfil`.

### GobizSession

One account: `row` holds its token and merchant. GoID is modelled from how the code uses it:
`live` are the tokens it accepts, a trade makes the old one worthless. `List` copies token and
merchant, `Trade` asks GoID (its answer may be lost, the merchant may remain unknown),
`Store` writes both by the account's id, `Search` reads the journals. `Paste` and `Connect` are the
three ways an owner connects, `Disconnect` clears the row at any time, `Crash` drops all jobs.

### WebPages and WebApps

`WebPages` has one constant for each page and form of the apps: what its loads depend on, what
a failure shows, when its button can be pressed again, in how many parts its change is
committed, what follows a success. `WebApps` says how a screen of any such shape behaves:
list requests (`loads`) and submissions (`posts`) whose answers come late, in another order
or never; a form closed and a page left while they are under way; a 401; the stages of a sheet
(form, waiting, QRIS, done); a QRIS pane that polls its payment, whose order is PAID (`Pay`) before, or
without, the credit or voucher (`Deliver`); the outlet choice with the outlets offered at a visit,
the location answer, late ones included, and a storage that may refuse what is written. A page is thus
represented by its requests and answers only: fields, validation, layout and formatting are not
in the model, and pages with equal shapes are one screen to TLC. `db` is the committed
data as far as a list shows it. `doubt` is history: it is set when the page is given a reason to
show something else than `db` (a lost answer, two loads under way, a handler that reloads the
selection it was started with, a payment delivered after the page was told of it or has stopped polling it), so `ShownIsStored` says that there are no other reasons.

## 3. Runs

| Run | Instance | Shows |
|---|---|---|
| `wallet` | 2 purchases, 1 top-up, 3 hold rows, 2 settles at once | ledger, idempotency, charges = settled holds, refinement of `Account` |
| `provisioning` | 3 orders, 2 routers, 2 codes, 2 callers | one voucher per order, vouchers open their router, CREATED means voucher |
| `purchase_saga` | 3 purchases, 2 top-ups, 2 requests may die, 2 codes | no overspending, voucher <-> money, refund is final, refinement of `PurchasePromise`, a request that is not cut off resolves its hold |
| `payment_matching` | 2 payments, 1 of them settled without a time, 2 totals, 1 webhook, restarts, incomplete listings | unique totals, no confirmation without money, paid stays paid |
| `payment_live` | 2 payments, 1 total, no webhook, refunds, confirmations that throw | money in time is recognised |
| `fulfilment` | 1 sale, 1 top-up whose owner may be deleted, an earlier sale with perhaps the same code, 1 webhook that may stop, the reconciler, expiry by id | one voucher or credit per order, only for money, `wa_sent` means sent, a confirmation that is not cut off is fulfilled |
| `fulfilment_lost` | 1 sale, 1 top-up, the reconciler may stop | the finding |
| `brand_routing` | 2 brands, 1 outlet, 2 accounts, 2 overlapping requests, stopped anywhere | a second QRIS, routing or payments outside the brand and a capture by an unusable account come from requests that were overtaken only |
| `agent_scope` | 2 owners, 3 brands of which 1 exists, 2 outlets, 1 agent, the operator | links stay in the brand, outlets with their owner, reach grows on request |
| `shop` | 2 owners, 1 package, 1 customer, 1 order, 2 overlapping requests, 2 overlapping logins | validity, cost and history, up to the races the code leaves open |
| `gobiz_session` | 2 cycles and 1 request overlap, 2 merchants, 6 tokens | the session survives rotation, a token goes with its merchant |
| `screens` | all shapes, 2 submissions, 2 list requests, 2 selections | what is shown, told and chosen |

### Bounds, and why they are enough

* *Wallet*: two purchases that compete for one top-up are the smallest overdraft;
  a reference that is reserved again after a release needs a second hold row, and
  its competitor a third. Two workers are the smallest race of two settles. The
  ledger is finite because an entry is never applied twice. The proofs cover all
  other sizes.
* *Provisioning*: two callers race; three orders give a collision of codes on one
  router and another across routers. The unique key of the usernames bounds the
  vouchers.
* *PurchaseSaga*: the top-ups (2 and 1) pay for two of the purchases (2, 1 and 1).
  A third purchase has to be refused, or to spend what another one gave back.
* *PaymentMatching*: with TTL, grace and window of one unit each and `MaxTime = 3`
  a total can be locked, freed, reused, expire and be paid after the expiry. The
  real values are 60, 1 and 60 minutes, that is `Grace <= Window <= TTL`. The clock
  stops at `MaxTime`; the cycles go on. `payment_matching` has two totals, so that they
  must be told apart; `payment_live` makes reuse certain with a single one.
  `WithoutOrphans` leaves `orphans` (never read) out of the fingerprints of the
  run that says nothing about it. Both runs have a settlement without a time. `payment_live`
  takes a bank that answers with all of the window, so at most 50 journals in it (below, Fairness).
* *Fulfilment*: a webhook and the reconciler are two calls at once, each repeatable;
  one sale and one top-up suffice, since a call never waits for another order. An order
  meets others through their usernames only: the earlier sale of another outlet makes the
  voucher insert throw. In `fulfilment` the webhook may stop anywhere and
  the reconciler may not, so that `ConfirmedIsHandled` speaks of a call that
  shares its order with one that was abandoned.
* *BrandRouting*: two brands and two requests are the smallest race; an outlet comes, moves and is
  served by either account. A request that writes two outlets changes both in one statement, so that
  one outlet shows what there is to see; the proofs cover all others. `MaxQris` bounds creations. A save
  makes an account a default or takes its payload away. The constraint `UntilBroken` does not visit what
  follows once a brand has two accounts or an outlet another brand's: the step into such a state is checked,
  and what the properties say afterwards is proved.
* *AgentScope*: an owner with two brands is the smallest move of an agent or an outlet between
  brands, the second owner with a brand of his own the smallest hand-over; two
  outlets tell a link that stays from one that is dropped. Nothing counts, so nothing is cut off.
* *Shop*: an order must be counted before a deletion or be made after it, and one does both;
  two requests are the smallest race. Two prices and two discounts give a cost above and
  below the selling price, and a rounded one. Two logins are the smallest race for a validity.
  `MaxOrders = 1` bounds the orders ever made.
* *GobizSession*: `MaxTokens = 6`: a connection, two trades of overlapping cycles, a second connection
  and a trade after it fit, with one to spare. The proofs do not depend on it.
* *WebApps*: two answers can overtake each other and two submissions overlap; a selection can be
  left and come back. `Changes` and `Loads` bound them.
* Symmetry: hold rows and workers; callers and codes; totals; brands and requests; outlets;
  requests and logins; merchants and cycles; submissions and list slots. It is
  not used in the runs with liveness properties.
* Deadlock is off where work is finite (the wallet's references are used up, the
  requests end, and `fulfilment_lost` has no webhooks); it is on everywhere else.

### Fairness

* `PurchaseSaga!Spec`: weak fairness of each request's `Advance`. The event loop
  runs every handler whose await has returned, database calls return, and a router
  call ends with `ROUTEROS_TIMEOUT_MS`. Nothing is assumed of top-ups or of new
  orders.
* `PaymentMatching!FairSpec`: weak fairness of the scheduler's steps as a whole: with
  `SCHEDULER_ENABLED` the timer fires again and again (`running` only prevents
  overlap, and is reset in `finally`). `Prompt` says that a whole cycle fits in every
  unit of time (30 seconds against an hour); without it money could arrive and leave the
  detection window between two cycles. The bank is assumed to answer, and to list all of the window
  (`MayMiss = FALSE`): the provider skips an account it cannot reach and takes one page of 50
  journals (`gobiz-detection.provider.ts:97`), and a payment whose grace time passes before its
  settlement is seen is expired.
* `Fulfilment!Spec`: weak fairness of every running call (as above) and of the cycle.
  No fairness of webhooks: nobody owes a redelivery. `ConfirmedIsHandled` speaks of the
  callers outside `MayStop`; `fulfilment_lost` shows that it cannot be had for the others.
* `ResolvedUnlessCut` speaks of the requests outside `MayDie` in the same way.

### Mutants

Operators introduced by the comment *Slip* are plausible mistakes in the
operation that follows (a dropped WHERE, a forgotten lookup, the wrong order).
They are used by no specification. Each property has one that breaks it.

## 4. Findings

**Paid money may never be handled** (`fulfilment_lost`). `markPaidByReference` comes
first; a call that ends between it and the credit or the voucher leaves a payment that
is PAID, and the reconciler looks at PENDING ones only. `README.md:12` and `:16`.

### Remarks

Seen while modelling. The first nine have a configuration of their own, in which TLC finds the
property named violated; they are kept beside the runs because they ask no question of their
own of the rest of the system.

* **A hold may stay for ever** (`MCPurchaseSagaStuck.cfg`, `HoldsAreResolved`). Codes are random and
  `vouchers.username` is unique over all outlets. If two outlets draw the same
  code, the second router accepts the user, the insert throws, and the request
  ends between reserve and release (`ordering.service.ts:483`). No `catch` releases, no job reads
  `holds.expiresAt`, and `EXPIRED` is never written. The same happens when the
  process ends there. `README.md:17` promises "release+refund on failure", and
  `ordering.service.ts:21` calls the TTL a safety window.
* **Two PENDING payments may ask for one total** (`MCPaymentMatchingReuse.cfg`, `PendingTotalsDiffer`).
  `cleanupAmountLocks` (`payments.service.ts:103`) frees a total at the TTL; the payment stays PENDING for the
  grace time and until the next cycle. `schema.prisma:237`: a total is reserved
  "while a payment is in-flight". `ForeignMoneyOnlyByReuse` shows that this
  reuse is also the only way for the money of one order to confirm another.
* **Unmatched money may not be logged** (`MCPaymentMatchingUnlogged.cfg`, `UnmatchedIsLogged`): the orphan
  filter (`payment-reconciler.service.ts:102`) knows totals, the match knows totals and times. Line 27
  says that settlements that matched nothing are logged.
* **A redelivered confirmation marks a delivered order FAILED** (`MCFulfilmentRedelivery.cfg`,
  `CreatedStaysCreated`): the router refuses the user that the first confirmation added, and the failure
  is written over CREATED (`provisioning.service.ts:89`). `bri-notify.controller.ts:12`: "Idempotent
  (confirmPayment is)."
* **A voucher may belong to an EXPIRED payment** (`MCFulfilmentExpired.cfg`, `VoucherSaysPaid`). The expiry
  writer updates the payment by its id from an old list (`payment-reconciler.service.ts:91`), although `:26`
  says "on both sides". The order is guarded and stays PAID (`PaidOrderStaysPaid`), so
  `NothingForFree` only says that the payment is not PENDING.
* **A brand may get two QRIS accounts** (`MCBrandRoutingRace.cfg`, `OneBrandOneQris`): two overlapping
  `createQris` both count zero (`owner.service.ts:1008`), right below "1 brand = 1 QRIS" (`:1007`); no unique
  key stops the second. `OneQrisPerBrand` shows that only a request overtaken between count and write does it.
* **An outlet may be served by another brand's account** (`MCBrandRoutingStale.cfg`, `OnlyOwnBrand`): it is
  written with a receiver that was read before the account moved (`owner.service.ts:234`). For the same reason
  an outlet may come to an account that has lost its payload, and a payment may leave its brand; again
  only a request that was overtaken does so.
* **A validity may start twice** (`MCShopRestart.cfg`, `ValidityNeverRestarts`): two overlapping reports of a
  login both find no `activatedAt`, and the later write by id wins (`ordering.service.ts:880`), although
  `:867-870` promises that only the first call sets it. `RestartsAreRaces` shows that nothing else restarts it.
* **A top-up may be told before, or without, its credit** (`MCWebAppsTold.cfg`, `SuccessIsStored`): the pane
  calls success when the order is PAID, which `confirmPayment` writes before the credit
  (`ordering.service.ts:969`, `:982`). "Saldo bertambah!" (`TopupSheet.tsx:129`) and "Saldo berhasil ditambah"
  (the agents' `saldo/page.tsx`) are then shown beside the old balance, and after a confirmation that was cut
  off there is none to come (section 4). `ToldIsTrue` allows for just this.
* Settlements that confirmed a payment in an earlier cycle are logged as orphans for as
  long as they stay in the window (`payment-reconciler.service.ts:101`).
* Two overlapping confirmations may both send the voucher, as `waSent` is checked on a
  copy (`ordering.service.ts:994`).
* A settlement without a time fits every payment of its total (`payment-reconciler.service.ts:75`), money
  from before the payment included, although `:25` says that its time "must be >= payment.createdAt".
  `PaidHasSettlement` names this exception.
* An exception between the payment's PAID and the order's (`ordering.service.ts:962`) has the effect of the
  finding above; so has a top-up whose owner was deleted (`topup_no_owner`, `:980`). An owner that is deleted
  after the order was read gets an account again, which belongs to nobody (`ensureAccount`).
* Credentials that cannot be read throw past everything that follows (`routeros-provisioning.provider.ts:68`):
  no FAILED is written, the hold of a wallet purchase stays, the rest of the reconciler's cycle is skipped.
* `PaymentStaysInBrand` needs its premise, a usable default of the brand's own. The fallback meant for "legacy rows that predate
  brands" (`payments.service.ts:140`) is taken for any customer whose brand has no usable
  default, and leads to the default of another brand of the owner.
* `updatePackage` compares the two prices only if both are sent, so a cost above the price can be
  stored (`UpdatePackage`). The console's "Kosongkan = sama dengan harga jual" sends nothing for an emptied
  field and keeps the old cost.
* `deleteCustomer` says "vouchers cascade" (`owner.service.ts:578`); the schema sets their customer to null.
* `listCustomers` (`owner.service.ts:439`) with a search replaces the scope condition instead of narrowing
  it, and without one shows the newest 100 customers only.
* Dropping the last link of an agent, or assigning an empty set, makes him unrestricted: no
  links means all outlets (`ordering.service.ts:124`). A move to another brand may take the last link
  (`owner-agents.service.ts:199`), and a new agent is unrestricted until his outlets are linked, for good if the
  request stops in between. `ReachGrowsOnRequest` names the first two; the third concerns no agent that was there.
* The operator's `assignOutlets` leaves the brand of an outlet, which is its former owner's. Two
  overlapping requests can link an outlet of a brand the agent has just left, because the brand
  is read before.
* A cycle of the detection stores the traded token by the account's id: an account that was disconnected or
  connected anew meanwhile gets the old session back. If GoID ever returned no new token,
  `?? refreshToken` would keep the old one, and overlapping cycles could store a dead token; the model has a new
  one with every trade.
* Web apps, all reachable in `WebApps` and accounted for by `doubt` or by the told outcomes:
  the late answer of an unguarded load is shown under another selection; a handler reloads the selection it
  was started with; a sheet closed on its backdrop is closed or changed again by the late answer
  (`BuySheet` may show the QRIS of another package); a pane that is replaced after its payment
  was paid never reports it; a list loaded on PAID may still hold the old balance (`TopupSheet.tsx:117`); `runTest` of the router sheet saves without loading again; the
  outlet form may save its first half only; most loads never clear an old error; history
  pages show "empty" on a failure; web-internal stays on the page on a 401; optimistic
  toggles are overtaken by a load. After a lost answer an error is shown
  though the change may be stored; a top-up that is repeated then is credited twice, as its reference is
  new (`owner.service.ts:466`). Not in the model: a second browser, whose whole-row edits are overwritten,
  and tabs that share a token.
* The outlet picked by hand is "stored persistently and never auto-changed" (`useOutletSelection.ts:11`) only
  if the browser stores it and the next visit offers it: `writePref` (`:39`) swallows a refusal of the storage, so that a
  later location may take the page elsewhere, and a pick that is not listed gives way to the
  first outlet (`:101`). `ManualChoiceStays` has both conditions.
* A batch of sales stops at the first one that throws (`ordering.service.ts:809`): those before it stand, and the
  caller is shown only the error. To the model they are separate purchases.

## 5. Proofs

The theorems hold for any sets of orders, payments, accounts, workers and so on, any
amounts, prices and times that the assumptions allow, and runs of any length.

| Module | Theorem | States |
| --- | --- | --- |
| `WalletAndScreenProofs` | `TypeCorrect`, `LedgerIsAuthoritative`, `NothingAppliedTwice`, `ChargesMatchHolds`, `ReserveIsIdempotent` | `[]` of the five invariants of `Wallet` |
| | `SettledHoldsAreFinal` | the action property `SettledIsFinal` |
| | `WalletImplementsAccount` | the refinement of `Account` |
| | `PagesShowTheStore`, `FormsTellTheTruth` | `ShownIsStored`, `ToldIsTrue` |
| | `OutletPickIsKept` | the action property `ManualChoiceStays` |
| `ProvisioningProofs` | `OneVoucher`, `VoucherOpens`, `CreatedHasVoucher` | `OneVoucherPerOrder`, `VoucherOpensRouter`, `CreatedMeansVoucher` |
| `PurchaseSagaProofs` | `HeldMoneyIsThere`, `NoChargeWithoutVoucher`, `RefundIsFinal` | `HoldsAreCovered`, `ChargeHasVoucher`, `RefundedMeansVoid` |
| | `VouchersAreSecured` | of every voucher, the money was paid or is on hold |
| | `SagaIsACallerOfWallet` | the saga's wallet behaves as `Wallet!Spec` |
| | `SagaImplementsPromise` | the refinement of `PurchasePromise` |
| `PaymentMatchingProofs` | `OpenTotalsAreUnique`, `NothingPaidWithoutMoney`, `ForeignMoneyNeedsReuse` | `OpenTotalsDiffer`, `PaidHasSettlement`, `ForeignMoneyOnlyByReuse` |
| | `PaidStaysPaid` | the action property `PaidOrderStaysPaid` |
| `FulfilmentProofs` | `EachOnce`, `PaidFirst`, `MarkedMeansTold` | `FulfilledOnce`, `NothingForFree`, `SentMeansTold` |
| | `FulfilmentIsACallerOfWallet` | the wallet of the top-ups behaves as `Wallet!Spec` until its owner is deleted |
| `QrisAccountProofs` | `OneQris`, `MoneyRoutedInBrand`, `PaymentsStay` | the action properties `OneQrisPerBrand`, `RoutedInBrand`, `PaymentStaysInBrand` |
| | `CaptureNeedsEligible` | the action property `CapturedByEligible` |
| | `TokenStaysAlive`, `TokenKeepsMerchant` | `SessionStaysAlive`, `OneMerchantPerSession` |
| | `UnsavedTokensAreSafe` | `TypeOK` of `GobizSession` and the part of the invariant both rest on |
| `AgentScopeProofs` | `LinksStay`, `OutletsStay` | the action properties `LinksStayInBrand`, `OutletStaysWithOwner` |
| | `ReachGrows` | the action property `ReachGrowsOnRequest` |
| `ShopProofs` | `RestartsOnlyByRaces` | the action property `RestartsAreRaces` |
| | `SellPriceCoversCost`, `HistoryIsKept` | the action properties `SellCoversCost`, `HistoryKeepsPackage` |

Assumptions, each in the module that declares the constants, and evaluated by TLC on the runs:
`AmountAssumption` (amounts are positive, as `credit` and `reserve` demand),
`NamesAssumption`, `TotalAssumption` (`Total` is what SUM computes: nothing for no rows, and one
amount more for one more row; the theorems about `Wallet` do not depend on it, `SagaAssumption`
and `FulfilmentAssumption` repeat it for their references), `OrderNamesAssumption`,
`MatchingAssumption`, `RoutingAssumption` (`None` is no row), `ScopeAssumption`, `ShopAssumption`,
`SessionAssumption`, `HomeAssumption`, and `FormAssumption`: a form of `WebPages` has two parts at
most, a QRIS is one payment, and a list that is changed ahead of the answer is loaded again after an error.

No theorem has a hypothesis about how requests are scheduled; only `AgentScope` takes them one after the other.

The arguments. No invariant above is inductive as it stands; each proof module begins with the
strengthening `IInv` (for `Wallet` the invariants strengthen each other; `RoutingIInv` and
`ScreenIInv` where a proof module is about two modules).

*Wallet.* All changes of the ledger go through `ApplyEntry`, so three lemmas
carry the weight: `ApplyEntryEffect` (the ledger is unchanged, or one entry longer),
`ApplyEntryType`, and `ApplyEntryHas` (what `HasEntry` says afterwards).
`LedgerChain` and `AppliedOnce` are inductive with `TypeOK`: only the last entry
is new, and its absence was checked under the lock. `ChargedIffSettled` needs
more, since `SettleCommit` acts on a hold it read earlier: `txn` only holds rows
that exist, a row never changes its reference once it exists (a `Reserve` takes a
`"NONE"` row only), and hence a hold in `txn` may have become RELEASED or
SETTLED, never another order's. A second settle finds the entry and changes nothing. The
refinement uses the same lemmas: an entry that exists is a stutter, a new one is
`PayIn` or `Charge`.

*Provisioning.* Two calls for one order overlap between any two awaits. What a call relies on
never changes back: the code of an order once it is written, that it is paid, the users of a
router, the vouchers. So what one call has established for its own position stays sound while
another one moves (`OthersStaySound`), and the only voucher of an order is the one with its code.

*PurchaseSaga.* What is true of a purchase depends on the step its request is about to take
(`HoldFits`, `VoucherFits`, `JobFits`), and a request writes the rows of its own order only
(`Untouched`), so that the others stay sound; the routers are shared, but a foreign user of a router
does no more than refuse. The balance is shared too. The money on hold is the `Total` of
the orders with an ACTIVE hold (`HeldAreActive`); `reserve` adds an order that is covered, `settle`
takes the same amount from both sides, a top-up adds to one, hence `HoldsAreCovered`, and
hence the debit of `settle` never fails after the voucher exists. A settle that read the hold
before the lock finds it ACTIVE still, because only its own request ends it. The abstract state is
computed from the concrete one: the phase of a purchase from its hold and its voucher,
the spendable money from balance and holds. Each step moves one phase (`PhaseMoves`) or none
(`PromiseStutters`).

*PaymentMatching.* A lock is kept for a TTL (`LockIsKept`), so two payments that ask for the same
total were made a TTL apart (`ReuseIsLater`), and only one of them can be inside its validity.
Whatever the reconciler or a webhook is about to confirm has money behind it
(`MoneyIsReal`), and money never goes away. Foreign money then needs a settlement later
than the reuse of its total, which is the case `ForeignMoneyOnlyByReuse` leaves open.

*Fulfilment.* Each position of a call has a fact of its own (`CallIsSound`, `JobIsSound`), no step of
another call takes back what such a fact says (`Grows`), and the balance is the `Total` of what has been
credited, so that a second credit of the same reference would show in it. Of a payment only that it is
no longer PENDING is never taken back: the expiry by id turns PAID into EXPIRED at any moment.

Every change of the wallet, here and in the saga, is an operation of `Wallet`
(`FulfilmentIsACallerOfWallet`, `SagaIsACallerOfWallet`), so that what is proved of a wallet with free
callers holds of it; with its owner a wallet is deleted, and one made again starts from nothing.

*BrandRouting.* A request reads, and writes by what it read some statements later; any other request
may write in between. `JobSound` says for each next statement what was read: the brand an account is made
for or moves to is empty, the account has the brand the request knows, no outlet is
served by an account whose row is about to change its brand, a receiver is eligible and of the
outlet's brand. `RoutingIInv` claims this of the requests that were not overtaken: a statement that writes
puts every other running request among the overtaken, so that nothing is left to show of them, and
one that only reads disturbs nobody. The properties follow for the statements of an undisturbed request, whatever
state the tables were left in by the others. `OrderedBrandsArePaid` needs no more than the
tables: in a brand in order the default is its only account.

*GobizSession.* A token that was traded for but is not stored yet is live and held by one worker
only (`UnsavedIsFresh`), although cycles overlap: GoID takes an old token once. A crash in
between loses it, which `SessionStaysAlive` allows for and nothing else does. Tokens and
merchants are written together and copied together (`MerchantsMatch`).

*AgentScope.* A request checks outlets against a brand and writes the links later. Requests follow each
other, so what was checked stays true until it is used (`CheckedStays`), and a link is only ever
made to an outlet that exists (`LinksExist`). The reach of an agent is changed by the two writes of
links only, `ReplaceLinks` and `DropLinks`, and the latter makes it larger only by taking the last one.

*Shop.* Two requests overlap. An order that refers to a deleted package was made after the count
(`OrdersCameLater`); a stored selling price was compared with the cost read by the same request
(`PriceWasChecked`); a login that is to start a voucher which runs already was under way when it was
started first, since it found no date, and is still among those remembered then (`LoginsRace`).

*WebApps.* Of each submission the invariant says which of its parts are stored, by where the
server is with it, and what the user may have been told (`PartsSound`, `ToldSound`), which gives `ToldIsTrue`.
A list that is displayed, and the answer of a load that is on its way, agree with what is stored
except for the submissions that are `Excused`: their answer is still awaited, or the pane has not yet seen
their delivered payment, and it will make the page load again or change its list. That holds while there is no `doubt`, and then there
is one load at most and it is for the selection displayed (`ListSound`). At rest nobody is excused, and
what is shown is what is stored. An outlet that was picked, is remembered and is offered by this visit is the
one the storefront shows (`OutletSound`).

Only model-checked: the four liveness properties (`ResolvedUnlessCut`,
`MoneyInTimeIsRecognised`, `ConfirmedIsHandled`, `MoneyIsHandled`), since liveness under fairness and
ENABLED are out of reach of the prover, and what the runs say against the code: the finding of section 4 and the
nine configurations of its remarks. No module uses a RECURSIVE operator, and no theorem needs induction
over data: `Total` is assumed to be a sum, not defined as one.

## 6. Not modelled, and why

* Cryptography and wording: signatures, JWT, password hashes, AES of secrets, the texts of
  messages, QR images and the EMV payload.
* HTTP clients of BRI, GoBiz and WhatsApp: parsing of answers; what an answer does to the
  platform is in `PaymentMatching`, `GobizSession` and `Fulfilment`.
* Layout, fields and validation of the web apps; static pages; the service worker.
* CRUD over single rows (assistants, contacts, notifications, most of the administration) and reports:
  no sequence of steps that could go wrong.
* Pure conversions: the RouterOS word codec, `addDuration`, `normalizeWhatsapp`, `generateCode`.
* The login throttle, and deletions under a running saga of the wallet: in the plan.
* Scripts and deployment.

## 7. Plan

The runs are kept few: a module that is added brings one passing run, and questions that one
instance can answer share it.

Done: `Wallet` with `Account`; `Provisioning`; `PurchaseSaga` with `PurchasePromise`;
`PaymentMatching`; `Fulfilment`; `BrandRouting`; `AgentScope`; `Shop`; `GobizSession`;
`WebPages` and `WebApps`; the proofs of section 5.

Left, in order of importance:

1. Deletions (`deleteTransactions`, `deleteCustomer`) against a running saga: holds and orders
   that disappear between reserve and settle. `Shop` has the deletions, without the wallet.
2. Overlapping requests in `AgentScope`, with the history of overtaken requests as in `BrandRouting`.
   Proofs: the callers of `Provisioning` (`PurchaseSaga`, `Fulfilment`) as users of the module, as it is
   done for `Wallet`.
3. `LoginThrottle`: attempts in parallel between `assertAllowed` and `recordFailure`.
4. Pure algorithms against reference definitions: the RouterOS word codec, the EMV/CRC
   builder, `agentPriceFor`, `addDuration`.
5. Two browsers or tabs on one account.
