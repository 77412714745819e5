# Paymob emulator: a TLA+ verification project

The repository emulates a payment provider for the tests of merchants. A merchant
creates an *intention*, a browser (or the control plane) *submits* it, a *scenario*
becomes a durable timeline of actions, and a scheduler plays that timeline:
it moves the transaction, sends webhooks with retries, and tells the open pages.
Afterwards the merchant may capture, refund or void the transaction.

The core is one Node process over SQLite (`src/apps/server/src`). A synchronous database
call is atomic and durable; between two `await`s JavaScript runs to completion. So a
step of these modules is one SQLite commit, other requests interleave where the
code awaits, and a crash may fall between any two commits.

## Inventory

| Component | State | Operations | What is hard | What makes it correct |
|---|---|---|---|---|
| Payment operations: `core/payment-operations.ts`, `core/transaction-service.ts`, `packages/contracts/src/states.ts`, `projection.ts` | `transactions`, `transaction_snapshots`, `payment_operations`, `callback_events` | capture, refund, void (each with an optional idempotency key), transition | retries after a lost answer, exact remaining amounts, the child's callback in a second commit | totals equal the children, one ending per payment, at most one child per key, the newest snapshot is current |
| Checkout: `core/checkout-service.ts`, `scenario-selection.ts`, `intention-service.ts`, `expectations-*.ts` | `intentions`, `scenario_expectations`, `transactions`, `scenario_runs` | create, update, expire, submit, complete headless; create, cancel and consume an expectation | two submitters, an update or an expiry beside a submission, an expectation consumed in its own commit | one charge per intention with the terms it shows; uses of an expectation add up |
| Scheduler and delivery: `core/scheduler.ts`, `scheduler-runner.ts`, `webhook-delivery.ts`, delivery and clock routes | `scheduled_actions`, `webhook_deliveries`, `webhook_attempts`, the clock, the running batch | claim, execute by type, attempt, retry, mark; replay, cancel, advance | slow merchants, leases, crashes between four commits, operations beside a batch, manual time | order, at most one repetition per crash, bounded attempts, every retry backed by a row, everything finished |
| Browser events: `core/browser-events.ts`, `checkout-sessions-repository.ts`, `checkout/checkout-routes.ts` | `checkout_sessions`, `browser_events`, open SSE streams | open, connect with a cursor, heartbeat, ack, publish | reconnection, restart, two tabs, real and manual time | ids are positions, a stream loses and repeats nothing, a live page is not called absent |
| Intention API and its faults: `compatibility/modern`, `core/api-fault.ts`, `expectations-service.ts` | `intentions`, `scenario_expectations`, requests asleep | create, update; create, match, consume and apply a fault | the fault is consumed before a real-time sleep, and the request goes on after it | a use per request, closed intentions keep their terms, only successes leave a row |
| Request validation: `core/intention-validation.ts`, `packages/contracts/src/intention.ts` | none | validate in three modes, fill in defaults | absent, null and malformed; a sum that overflows | modes ordered, totals exact, what is stored is accepted again |
| Scenario compiler: `packages/scenario-engine` | none | compile, seeded draw; 16 built-in scenarios | the order of delays, references between actions | a shared draw, the authored order, built-ins play to their end |
| Test cards: `packages/contracts/src/cards.ts`, `core/card-aliases.ts` | none | select by number, by name | names kept in several files | a typo selects nothing, what is selected exists |
| Outbound policy: `security/*` | the pinned address | parse an allowlist, check a URL, resolve, connect | spellings, block boundaries, several answers | only addresses that are listed or not blocked, deterministic choice |
| Redirects: `core/redirect-builder.ts`, `packages/contracts/src/hmac.ts` | none | build a signed address | parameters the address already has | an independent reader verifies it |
| Demo merchant: `demo-merchant/`; legacy API: `compatibility/legacy` | `orders.json`, a cached token; `legacy_auth_tokens` | receive a callback, receive the browser, reconcile by inquiry | messages lost, repeated, reordered; two clocks; restarts; ids of other transactions | an order ends once, and as succeeded only on the success of the transaction it names |
| Checkout page: `apps/web/src/checkout` | the page's status, its session, its stream | load, submit, follow events, reload | answers lost or late, the log replayed, two keys | the page never shows an outcome the payment does not have, and comes to show the one it has |
| Control-plane access: `control-plane/auth.ts`, `security/admin-auth.ts`, `core/bootstrap.ts`, `core/readiness.ts`, `apps/web/src/admin` | `bootstrap_tokens`, `admin_sessions`, cookie, pages | exchange, recover, look, write, log out | an await in the exchange, two tabs with one cookie, restarts | both expiries by the clock, CSRF token of the very session, a token spent exactly when it bought a session |
| Start-up: `index.ts`, `core/id-allocator.ts`, `core/credentials.ts`, `database/integrations-repository.ts`, `core/scenario-registry.ts` | the rows a start writes | seed, synchronize, allocate | killed halfway, another image or configuration next | what listens is complete, identifiers and secrets are not reused |
| Configuration: `config/`, `control-plane/settings-routes.ts` | `settings`, file, environment | merge, validate, list | which layer decides a leaf, which locks it | a row and a variable touch their leaf, the file its sections; a lock means what it says |
| Migrations, lists, logging, design components | see `PROJECT.json` | | | not modelled, reasons below |

Interactions: a submission compiles its scenario and writes the transaction, its run and
every scheduled action in one SQLite transaction (`CheckoutActivation` -> `Scenarios` ->
`Scheduler`). The scheduler calls `transitionTransaction` (the same table of legal transitions
as the payment operations, module `PaymentStates`) and `createBrowserEvent` (`BrowserEvents`,
read by `CheckoutPage`); its webhooks pass the outbound policy (`OutboundRequest`) and reach
the merchant (`DemoMerchant`). A payment operation runs beside the scheduler's batch and
sends its callback itself. The control plane (`AdminAccess`) replays and cancels deliveries
and advances the clock.

## Modules

| Module | Models |
|---|---|
| `PaymentStates` | `INTERNAL_STATES`, `NORMAL_TRANSITIONS`, `projectPaymobFlags`: constants and pure operators, shared |
| `PaymentOperations` | rows of payments and children. `Capture`, `Refund`, `Void` are whole handlers up to their commit: state check, amount check, key lookup, child row, patched totals, transition with its snapshot, idempotency row. `MaterializeChildCallback` is the second commit and `Crash` falls between the two. `Settle` is a timeline's transition. `Answer` is what a request would be told |
| `PaymentLedger` | abstract: a payment is opened, paid, refunded in parts up to its amount, or ended once by a void or capture. `PaymentOperations` implements it (`ImplementsLedger`), the ledger being read off the child rows only |
| `CheckoutActivation` | intentions, expectations and the submission with its two commits (consume, activate), which no other request separates but a crash or an unknown scenario does; a restart of a manual clock |
| `OneShotCheckout` | abstract: an intention is open with terms, then charged once with the terms it has at that moment. `CheckoutActivation` implements it |
| `Scheduler` | tables plus `procs`, the memory of each process: program counter, rest of the batch, delivery in hand. `Claim`, `Transition`, `Snapshot`, `NothingToSend`, `MaterializeEvent`, `RepeatEvent`, `CreateDelivery`, `Retry`, `Respond`, `RecordStatus`, `Reschedule`, `Mark` are its commits in the code's order; `VoidPayment`, `Replay`, `Cancel`, `Tick` are requests and time beside it; `Crash` and `ThrowIllegal` lose memory |
| `BrowserEvents` | sessions, the event log and streams; real and manual clocks, the latter advanced or set, and at its initial time again after a restart |
| `AuthoredTimelines` | a timeline as the rows one submission inserts, and which timelines are `Lawful`; shared by `Scheduler` and the catalogue |
| `Scenarios` | the built-in definitions, the reading of delays, the draw, `CompileScenario` and the rows that come of it (`ScheduledRows`) |
| `ScenarioRun` | one definition from its submission to its last action, nothing going wrong: `Compile`, then one action per executor case |
| `OutboundPolicy`, `OutboundRequest` | allowlist entries, address ranges, URL check and pin as operators; one request through them, in the code's order of refusals. An exact literal is compared as its text, a range as numbers (`Spelt`, `AddressRead`) |
| `TestCards` | card numbers with the Luhn check, cardholder commands, and which scenario a submission selects |
| `IntentionValidation`, `RequestRules` | the validator as operators; one body under every mode |
| `Configuration` | schema leaves, the four layers, sources and locks, and what the settings page lists |
| `IntentionApi` | requests of the modern API with the faults in front of them: `Receive` matches and consumes, `Wake` goes on after the sleep, `Process` is the handler |
| `Redirects` | the signed address and the merchant's own check of it |
| `DemoMerchant` | one order, the simulator's transaction behind it, the child of its void, a transaction of another order, messages in the air (callbacks of states and of snapshots, forged bodies and redirects), the reconciliation's three awaits, two clocks, restarts of either side |
| `CheckoutPage` | the page's states, the request for its session, submissions and their answers under way, the event source, reloads |
| `AdminAccess` | start and stop of the process, bootstrap exchange in two steps, sessions, one cookie, several tabs |
| `StartUp` | each statement of a start as a commit; kills, other images, other configurations; identifiers and recorded versions while it is up |
| `*_proofs` | theorems and proofs about the module of that name; `Catalogue_proofs` is about `ScenarioRun`, `OutboundRequest`, `TestCards` and `Configuration`, `Services_proofs` about `StartUp`, `AdminAccess`, `DemoMerchant` and `CheckoutPage` |
| `MC*` | constants for TLC: tables of model values, built-in timelines, symmetry. `MCCatalogue` and `MCServices` put components that share no state side by side: `part` names the one a behaviour is about |

Correspondence worth knowing when reading `Scheduler`: `Quiet` and `CanRun` say when
the event loop is free (every process idle or waiting for a response). `runs` counts
how often an action took effect and is history only. A lease is kept as the time
left of it. The ids that break ties in `claimDueActions` are random, so rows with
the same due time and step come in either order. `VoidPayment` has the two commits of
a void in one step, because `PaymentOperations` has them apart.

Each component that `MCServices` puts in one run has a specification of its own
(`ApiSpec`, `MerchantSpec`, `PageSpec`, `AdminSpec`, `StartSpec`), and so has each part of
`MCCatalogue` (`RunSpec`, `OutboundSpec`, `CardSpec`, `RulesSpec`, `ConfigSpec`); the theorems are
about those. The runs' `ServicesSpec` and `CatalogueSpec` take steps of one of them at a time
and leave the others at rest.

Abstractions of the other modules: a field of a request is absent, null, malformed or
given (`IntentionValidation`); a leaf's value is a default, what an operator wrote, or
something its schema refuses (`Configuration`); a signature is the sequence of values it
is made of (`Redirects`); addresses are sequences of bytes (`OutboundPolicy`); a session
stands for its two random tokens (`AdminAccess`); the seeded generator is any draw of
the range, shared by a run (`Scenarios`). What a timeline's pages tell is the state
of the payment in `CheckoutPage`; that this is so for the built-in timelines is
`PagesTruthful` of `ScenarioRun`.

Definitions commented "Mutant of ..." are wrong variants of the definition they
name; no specification uses them, and each shows which property
notices that mistake.

## Runs

| Run | Instance | Result |
|---|---|---|
| `payment_operations` | 4 rows, amounts 2 and 3, requests 1 to 3, one key or none | passes; 35 thousand states |
| `operation_replay` | the same | `IdempotentReplay` violated |
| `checkout_activation` | 2 intentions, 2 expectations (2 uses), 1 reference, 1 key or none, intention lifetimes 1 and 2, expectations of 1, clock to 1, both clock modes with restarts; symmetric terms, rows | passes; 2.9 million states |
| `scheduler` | 1 payment, 4 timelines, a void beside it, batches of 2, lease and retry of 1 tick, 2 attempts, horizon 3, fairness | passes; 114 thousand states |
| `scheduler_deliveries` | the same timelines, 1 replay, cancels, horizon 2 | passes; 1.5 million states |
| `scheduler_crash` | the same timelines, 1 crash, a manual clock that starts over with it, horizon 3 | passes; 4.1 million states |
| `scheduler_survive` | `success-immediate`, 1 crash, fairness | `AllCallbacksSurvive` violated |
| `scheduler_clock` | manual clock, 1 crash | `ClockForward` violated |
| `scheduler_replay_now` | 1 replay, fairness | `AllReplaysAttempted` violated |
| `browser_events` | 2 sessions, 2 events, heartbeat interval and window of 1 tick, clock to 2, both clock modes with restarts | passes; 3.0 million states |
| `catalogue` | all built-in scenarios and authored ones of three steps; outbound requests over addresses at both ends of each range; every one-digit change of each card; bodies over all kinds of each field; set-ups of up to three leaves in each layer | passes; 0.3 million states |
| `services` | intention API: 2 requests, 1 fault of at most 2 uses, clock to 2. Merchant: token life 1, cache life 1, both clocks to 1, a snapshot of failure, one transaction of another order. Page: 2 loads, 2 submissions, 2 events a session. Access: 2 tabs, 2 sessions, idle 1, absolute 2, clock to 3. Start: 2 starts, 2 images, 2 kinds of credentials with 2 values, 2 identifiers. Fairness | passes; 1.4 million states |

Why the bounds are enough. *Payments*: an original and three children let two partial
refunds complete an amount of 2 or 3, one of them be retried with its key, and a third
operation be refused; a child can itself be refunded, which the code permits.
*Checkout*: two intentions share a reference and compete for an expectation of two uses;
the clock of one tick separates "expires now" from "expires later" in both tables.
*Scheduler*: the four timelines have every action type, every order of immediate and
delayed steps, and callbacks from all three sources; a batch of 2 is smaller than what
is due, so batches are split; 2 attempts are the least with a retry and an
exhaustion; instants past the horizon behave alike. *Browser*: one tick is 15 seconds,
so the 20-second window is one tick after the last heartbeat; two
sessions and two events tell global numbering from numbering per session.
*Catalogue*: these are rules of one input each, so the inputs carry the argument: three steps
are the least with a reference over a step in between; the addresses are
the first and last of each range and their neighbours outside it; `MaxSafeInteger` is 4, so
the sums reach, meet and pass it. *Intention API*: a create and an update of its
row, with a fault asleep in front of either, one use or two. *Merchant*: one tick
of the simulator's clock outruns a token the merchant still has in its cache, one of the merchant's
clock empties the cache of a token that still lives, and a restart of a manual clock revives an old
token; three transactions are an order's own, the child of its void, and somebody else's.
*Page*: a reload gives a second key, the second submission is then a conflict. *Access*: a
session can be kept alive by looks until its absolute end, and a
second one replaces its cookie while another tab holds the first. *Start*: the second start
finds every prefix of what the first wrote.

`CHECK_DEADLOCK FALSE` appears in every configuration because the bounded instances
do stop: tables fill up, the clock reaches its bound, all work is finished.

### Fairness

`Scheduler!FairSpec`: weak fairness of each worker's step, because the loop polls
every second and the operating system runs it; of each delivery step, because a request ends
by its total timeout and then its commits follow; of `Tick`: time passes. Nothing is
assumed of crashes, voids, replays, cancels or of what a merchant answers.
`PageFairness`: an event source reconnects until it has received what there is; no answer
to a submission need arrive.

### What the passing runs show

* `RefundsAddUp`, `StateTellsRefund`, `ChildrenMatchState`, `KeyedOnce`,
  `SnapshotIsCurrent`, `OnlyForward`: the tables stay consistent through
  retries and crashes. `ImplementsLedger` says the same as one abstract machine.
* `OneActivation`, `TermsFrozen`, `ExpectationsSound`, `ImplementsOneShot`: nobody is charged
  twice or with terms the row no longer shows, none of the expectations is used beyond its count,
  and which of the active ones a submission takes is determined, also when a manual clock has
  started over and an expired one is active again beside its successor.
* `TimelineOrder`, `TransitionsLegal`, `AllJobsComplete`: without crashes a timeline is
  played in order, the void that arrives during a slow request makes no authored
  transition illegal, and everything is finished, retries included.
* `DeliveriesSettled`: the three commits after a response (attempt, status, retry)
  agree when nobody is between them, a replay or a cancel notwithstanding, and the
  attempts are bounded.
* `CrashRepeatsOnce`, `OvertakenWhileLeased`: what a crash can cost: an action is repeated at most
  once per crash and no callback is dropped; later actions of the payment overtake those of the
  batch that was lost only while its lease runs, and afterwards come behind them again, even if
  a manual clock has started over and the lost ones lie in the future.
* `CursorIsPosition`, `StreamComplete`, `SteadyStreamActive`: the browser channel.
* `TimelineAsAuthored`, `CallbacksTruthful`: what the compiler and the executor make of any
  timeline: seeded delays shared and in range, the authored order, a body for every
  callback, repeats that repeat. `BuiltInsSound`: the shipped timelines are sound data: each plays
  to its end, legally, refers to what has happened, and its pages tell the truth.
* `ConnectionsExact`: what the outbound policy refuses and connects to is what the texts of the
  allowlist and the blocks, its ranges compared bit by bit, say: an address that is listed is
  connected to, any other only if no block has it; and one answer of the resolver is taken,
  whatever its order.
* `SelectionExact`: the test cards. `ValidatorCoherent`: stricter modes accept less,
  totals are exact, defaults are acceptable. `LayersApart`: taking a row, a variable,
  a line of the file or a section of it away changes nothing beside it, and what is locked does not
  depend on the settings table.
* `ApiTablesSound`, `ClosedKeepTerms`: the intention API through faults, sleeps and crashes.
* `OrderEndsOnce`, `OrderFollowsPayment`, `RedirectsVerify`: the merchant ends an order once, as
  succeeded only if the transaction it then names was a success or its timeline's snapshot said
  so, and without any callback if it must. That the transaction is the order's own is not among
  them: see below.
* `PageShowsPayment`, `PageCatchesUp`: the page is never ahead of the payment or wrong about
  its outcome, and what hides an outcome does so only until the log is replayed.
* `AccessSound`: what is served is within both limits of a session by the clock's reading, writes
  carry the token of their own session, and the bootstrap token is spent exactly when it bought
  a session, which is what readiness goes by. `StartsSound`: starts complete what earlier ones left.

A property that is a conjunction of named parts is stated so that a counterexample can be
read by its part; each part has a comment of its own.

### Where the code and its documents disagree

Each has a run whose counterexample shows it; quotations are in `PROJECT.json`.

* *Retry of an operation.* The state check precedes the key lookup
  (`payment-operations.ts:203`, `218`, `233` before `78`), so the retry of a void,
  a capture or a full refund is answered 409 and not with the original child.
* *Callbacks surviving a restart.* After a crash between a transition and its mark the
  action is executed again, is illegal, and throws out of every batch that contains it.
* *Manual clock.* Advancing changes memory only; a restart goes back.
* *Replay now.* The new delivery has no action and nothing attempts it.

Noticed while reading, without a run in this project ("spec" is
`paymob-simulator-build-spec.md`).

Payments and delivery: the callback of a child is materialized after the commit that creates
the child (`payment-operations.ts:174`; spec:1279 says atomically); refund of a captured payment
is accepted and then throws (`payment-operations.ts:218` against `states.ts:34`; no built-in
timeline authors `authorized`); a child can be refunded or voided (`payment-operations.ts:114`);
an expectation naming an unknown scenario is consumed by a submission that is then
refused (`scenario-selection.ts:45`, `checkout-service.ts:182`); a repeated submission is
answered 410 after the expiry (`checkout-service.ts:162`); attempt and job are not
finalized together (`webhook-delivery.ts:117`, `scheduler.ts:275`); drain reports idle
while a tick is in flight (`scheduler-runner.ts:32`); cancel is accepted during a
delivery's first request (`deliveries-routes.ts:108`); `nodeDnsResolver` looks up twice where
`dns-pin.ts:23-25` speaks of a single lookup; `AbortSignal.timeout` rejects with a `TimeoutError`,
so a timed-out request is never given the code for it.

After a restart under a manual clock (`clock-repository.ts:14-26`): an expired expectation is active
again beside a newer one of the same reference, and the newer is selected; a page opened afterwards
need not be the "latest" session, so the browser actions go to the older one; an admin session that had
ended is served again. An instance stays "ready" after its only session has ended, and without
`SIM_ADMIN_TOKEN` there is then no way in.

Browser: of two tabs only the latest session is sent a browser action (`scheduler.ts:239`
against spec:928 and `checkout-routes.ts:57`); a page that reconnects late is
inactive until its first heartbeat (`checkout-routes.ts:167`); of two sessions created at
one instant the first counts as the latest (`checkout-sessions-repository.ts:60`); a rejected
`openCheckoutSession` leaves the page loading and a rejected `getSession` leaves the dashboard
checking; the checkout's Cancel button has no handler.

Demo merchant: the redirect handler keeps the id of a redirect whose HMAC is wrong
(`server.mjs:257-261`), and the reconciliation applies the answer about any transaction without
comparing its order (`server.mjs:52-60`, `inquiry-routes.ts:79-86`), so an order can end on another
order's payment; a validly signed callback of a status the payment never had
(`scheduler.ts:169-172`, `builtins.ts:349-360`) is believed like any other.

Outbound: an allowlisted IP literal is connected to without the block check
(`safe-http-client.ts:46-47`), also a metadata or link-local address, which `ip-classify.ts:3-5` and
spec:2103, 2118 say stays blocked; an IPv6 entry matches only when it is
written in the canonical spelling (`allowlist.ts:59`, `63`, `139`), and the dotted tail of an IPv6 CIDR base is misread
(`allowlist.ts:94`).

Scenarios: `webhook.mutate_payload` is in the schema and has no case in the executor; the extensions
`childOperation` and `threeDsOutcome` of the built-ins are interpreted by nothing.

Configuration and access: a section of the mounted file locks leaves it does not mention,
because the schema's defaults are filled in first (`loader.ts:116-120` against spec:448); the
default notification URL is not checked when an intention is created with it and is
when it is updated; the settings page shows the configured secret while the seeded row is the one
in force (`credentials.ts:13-31` against spec:330); two exchanges of the bootstrap token that
overlap in their await are both admitted (`auth.ts:34` against spec:430); `SIM_ADMIN_TOKEN`
does not replace an unused hash (spec:434); provider routes are not gated by readiness (spec:446).

## Proofs

TLC checks the instances above; the theorems hold for every value of the constants
under the assumptions named in the modules. Every proof has the same form: an inductive
invariant, one lemma per action that the action preserves it, `Init` and `Next`
combined, and the property read off the invariant. The lemmas about an action first
say what it changes, then look only at the conjuncts that this can disturb.

| Module | Proved | Left to TLC |
|---|---|---|
| `PaymentOperations_proofs` | every property of the run, the refinement of `PaymentLedger` included | |
| `CheckoutActivation_proofs` | every property of the run, the refinement of `OneShotCheckout` included | |
| `Scheduler_proofs` | every safety property of the three passing runs | `AllJobsComplete` (liveness) |
| `BrowserEvents_proofs` | every property of the run | |
| `IntentionApi_proofs`, `Services_proofs` | every safety property of `services` | `PageCatchesUp` (liveness) |
| `Catalogue_proofs`, `RequestRules_proofs` | every property of `catalogue` | |

### Payments

`Inv` is the conjunction of the properties with `RowsSane` and facts about rows that do not
exist. None of the properties is inductive alone. `VoidOrCaptureOnce` needs
`ChildrenMatchState` (a second void is excluded because the first left the state voided),
that needs every child's parent to be an existing row other than itself, `KeyedOnce` needs
that a recorded child is never a free row, and `SnapshotIsCurrent` needs that a row's snapshot
is rewritten by every step that changes it. `MoneyMovesForward` is the action property, from
the same invariant.

A sum over a set of children is a fold over sets, about which the provers know nothing, so the total is
counted: a refund child of amount `n` has `n` cents of its own (`RefundCents`), and `RefundsAddUp`
says that the cents of a payment's children are as many as its `refunded`. `CentsMatch` carries
that through the steps with the cardinality theorems. `LedgerRefinement` maps each row that
is no child to an entry of the ledger; a capture, void or refund is the ledger's
step of that name, and callbacks, crashes and refused requests are stutters.

### Checkout

`RowsSane` says what a stored row holds. `UniqueMatch` says which expectations can compete
for a reference: under a real clock one at most; under any clock no two that are unconsumed
were created at the same time, so that the selection is determined also after a restart has set a
manual clock back and an expired expectation is active again beside its successor.
`PendingSound` is the interesting part: what a submission that
stands between its two commits still knows of the rows it read. The intention is open and
has not expired, and the use of its expectation is paid for and not yet spent. That is why
no update, expiry or second submission can fall in between. `OneShotRefinement` follows
because the activation is the only step that changes what the abstract checkout sees after the
intention was created.

### Scheduler

`SchedInv` is the type invariant made inductive: rows refer to rows that exist, a process
holds what its program point needs, what a batch holds was claimed and is held once. The step
lemma `Effects` then forgets which action it was: to jobs and workers every step is a claim, a
run, a finish, a loss of the batch, or nothing. The properties are proved from those five.

* `TypeCorrect`, `NoCallbackDropped` and `CrashesKeepOrder` hold for any number of workers and
  crashes. The last rests on `ClaimedInOrder`: nothing that precedes a row once claimed was never
  claimed itself. A claim takes the least rows by due time, and a row that precedes another in its
  timeline is due no later; after a manual clock has gone back, a leased row may be
  taken whose due time lies ahead, and the lemma covers that too.
* `CrashesRepeatOnce` assumes `OneWorker`: the code runs one loop per process and one process
  per database. With two loops a lease that expires under a slow merchant is claimed by the other,
  and an action runs again without any crash.
* `DeliveriesSettle` assumes `NoCrashes` (one worker, no crash). A crash between two of the commits
  attempt, status and retry row leaves them disagreeing, which is the finding of
  `scheduler_survive`. `SettleInv` says, for every point between the three commits, what the
  handler that stands there has yet to write; a delivery has one handler at most.
* `TimelinesInOrder` and `TransitionsStayLegal` assume `NoCrashes` and `LawfulTimelines`. They
  are proved together, because a transition that throws leaves the rest of its batch leased and
  later actions overtake it. `Lawful` is about a timeline as data: its transitions are authored
  in the order of their offsets, each is legal after the one before, the first is legal from
  `processing`, what is sent has a projection, and no transition follows `authorized` or `succeeded`
  if merchants may void beside it. That every built-in timeline is lawful, whatever is drawn, is the
  theorem `BuiltInsAreLawful`, so for the shipped scenarios the hypothesis is discharged; of the run's
  timelines TLC evaluates it (`ShapesLawful`). An authored scenario need
  not be: the compiler checks no legality, and such a timeline does get stuck.
  `PlayInv` has that leased rows are in a batch, that claims and finishes are in order,
  that a payment's rows are those of a timeline, and that its state is what its last transition
  left, or voided.

### The browser channel

`SeqsDense` (the ids of one session are `1 .. Count(s)`) makes a cursor a position, `StreamsFollow`
says that every stream has sent a run of ids after its cursor, and an open one has sent all;
`BeatsOnTime` bounds the age of the last heartbeat. That there always is a latest session
(`LatestSessionExists`) is a least element of a set of ages; it need not be the one opened last,
because a manual clock goes back at a restart.

### The services

* *Intention API.* `RowsAccepted` is what makes partial updates safe: a stored row, normalized
  and with the defaults filled in, is one the validator accepts again. That is true only if the
  configured default URLs pass the allowlists, which `config/schema.ts` does not check, so
  `TablesSound` has `DefaultsAllowed` as a hypothesis and not the model as an assumption.
  `UsesCounted` equates the uses of a fault with the calls that record it, and `RowsAnswered` says
  that the request which wrote a row has ended with success, so a fault leaves no row.
* *Merchant.* Whatever is under way to the merchant, a signed callback or the answer to an
  inquiry, says "succeeded" only of a transaction that has been there or, of a callback, one
  whose timeline signs a snapshot that says so (`AirTruthful`,
  `InquiryTruthful`). `RedirectsAlwaysVerify` is about the signed address for every mode and query.
* *Page.* `EventsTold` and `OpeningTold` say the same of every event in every log and of the
  answer to the request for a session: it tells a status the payment has or has passed.
* *Access.* The two expiries of a living session are its limits, counted from its creation and
  from its last look; the bootstrap row is spent exactly when a bootstrap session exists.
* *Start-up.* `StartsSound` says nothing of a start that is half done; `StepsDone` says what each
  step leaves behind, `CountersAhead` that a counter has passed every number it gave.

### The scenario compiler

The theorems hold for every definition the schema lets through (`InputsAssumption`) and every draw.
`Compiled` says that the plan is what `CompileScenario` makes of the definition, `InOrder` that
what was played is before what was not. Delays in range is arithmetic: `draw < Grain` keeps
`low + (draw * width) \div Grain` below `low + width` (`DrawnInRange`), for every range and grain.
`Originals` has, for each callback, the first callback of its event with the same body and
signature, which a repeat inherits from its source.

That the shipped scenarios are sound (`BuiltInsAlwaysSound`) has two halves. `Sound` is about a
definition as data: it compiles, its actions fall due in the order they are listed whatever
is drawn (`InTurn`), every reference is to an earlier action, and there is a course of states
along which every transition is legal and every page tells the state it finds. `BuiltInsAreSound`
goes through the sixteen definitions, one lemma for each shape of timeline. `BuiltRun` is the
inductive invariant: a sound definition is played in its listed order (`RowsInTurn`,
`PlaysTheNext`), and the transaction is where the course says. `BuiltInsAreLawful` is the bridge to
`Scheduler`: between two transitions the course stays (`CourseStays`), so each is legal from the one
before it, and no shipped timeline goes on after a state that a merchant can void.

### Sums, bits and orders

Recursive functions on `0 .. n` need induction. The library's induction theorems cannot be
instantiated (they take an operator), but `NatLessThanWellFounded` with `WFMin` can be cited: a set
of numbers that is not all of `0 .. n` misses a least one. `InductionTo` is that for sets, and
`StepsExist` gives a recursive definition its equation. What follows rests on the two.

* *Request validation.* `SumIsExact`: the checked running sum (`ItemTotals`) is the true total
  up to the first line that passes the largest safe integer, and an overflow from there on, because
  lines are not negative; so one verdict at the end says which it was. `StricterModesAcceptLess` and
  `NormalizedAcceptedAgain` are the other two parts of `ValidatorAlwaysCoherent`. Hypotheses:
  the amounts and quantities of items that parsed are natural numbers (`SubmittedAssumption`, the
  schema of `contracts/src/intention.ts`) and so is `MaxSafeInteger`.
* *Test cards.* `LuhnCatchesOneDigit`: the sums of two numbers that differ in one digit agree before
  it and differ by a constant after it, and weighing a digit is one to one on `0 .. 9` modulo ten,
  twice or once. `BuiltInLuhn` computes the sum of the built-in numbers from the
  three digits in which they differ. `SelectsAsMade` has the hypothesis that the shipped scenarios
  are loaded, which every start does (`syncBuiltInScenarios`; part of `StartsSound`); what is
  typed is digits and a name (`TypedAssumption`).
* *Outbound policy.* `MaskIsPrefix`: comparing bytes under a mask is comparing bits, by cases on where
  a byte lies against the prefix (`OneMoreBit`, `LeadingBits`). `EntryLetsThrough` and `Ranges` carry it to
  allowlist entries and to the ranges `ip-classify.ts` tests byte by byte. The order
  of addresses is total, asymmetric and transitive (`LessIsTotal`, `LessIsAsymmetric`, `LessIsTransitive`;
  a first difference exists by `WFMin`), and a finite set of usable answers has a least one by
  induction on the answers (`LeastOfAnswers`), so the choice of `PinnedAddress` is the least (`PinnedIsLeast`). `AskedAssumption` says
  that hosts and answers are well formed: four or sixteen bytes, a known spelling. An exact entry is
  compared as a text, so no arithmetic is involved there.
* *Configuration.* A leaf is decided by the last layer that supplies it (`Decides`), and where that
  layer and what it says are the same, so is the value (`DecidedAlike`). One lemma per layer says how far a change
  reaches: a settings row and a variable change their own leaf (`RowTaken`, `VariableTaken`), a
  line of the file its own leaf if its section is mentioned anyway (`LineTaken`), and the first line
  of a section all leaves of that section (`SectionTaken`). That a locked leaf is read the same with an empty settings table
  needs that emptying the table makes no configuration refused: what the schema refuses was
  written by the file or the environment, and those have not changed.

### What stays with TLC

Liveness (`AllJobsComplete`, `PageCatchesUp`), because the fairness it rests on is about `ENABLED`,
for which the installed provers have no rules, and the counterexamples of the violation runs. Every other property of a passing run has a theorem.
What the theorems do not say: they are about each component's own specification and not about the
composed `ServicesSpec` and `CatalogueSpec`; `CrashesRepeatOnce` assumes one worker, and
`DeliveriesSettle`, `TimelinesInOrder` and `TransitionsStayLegal` no crash besides (see above).


## Not modelled

SQLite itself (atomic, durable commits are taken as given) and the SQL of the migrations;
the wording and layout of bodies, headers and pages; lists, which are one query each; the
wiring of routes; logging; the dashboard's tables and the design components, which keep no state
the rest depends on; the seeded generator's arithmetic and the
digests, which stand for any draw and for the values they are made of; `rotateCredential`, which
nothing calls. Two things are known and left out: shutdown closes the database under a tick
in flight (`index.ts:119`), which for the tables is the crash at the same point; and a child's callback is signed with the active secret and not with the
recorded version (`payment-operations.ts:175`), which agree as long as nothing rotates it.

## Plan

1. `DeliveriesSettle` with crashes: what the three commits leave when the process stops between
   them, instead of assuming that it does not.
2. `ServicesSpec` and `CatalogueSpec` imply the specification of each of their components, so that the
   theorems speak of the composed runs.
