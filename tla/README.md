# A verification of orchestrator-fiat

TLA+ models of the fiat payment orchestrator, the TLC runs that check them on
small instances, and TLAPS proofs of the invariants that matter most. Paths are
relative to the repository (`internal/api/handlers.go` is
`src/internal/api/handlers.go` in `PROJECT.json`, whose `map` gives the lines
behind every definition).

- [The system](#the-system)
- [Modules](#modules)
- [Runs](#runs)
- [Where code and documents disagree](#where-code-and-documents-disagree)
- [Proofs](#proofs)
- [What is not modelled](#what-is-not-modelled)
- [Plan](#plan)

## The system

A client (the transaction orchestrator) creates a payment intent and then
captures, voids or refunds it; a rail (card, ACH, SEPA, PIX, UPI, all behind
gateway-fiat) moves the money and later reports settlements and chargebacks by
webhook. Every state change is audited.

| Component | State | Operations | Hard part | Correct when |
|---|---|---|---|---|
| domain (`internal/domain`) | none: the intent record and its status machine | `Transition`, `CanTransition`, `IsTerminal` | `settled` is terminal for `Transition` but has exits in `CanTransition` | statuses follow the lifecycle |
| handlers (`internal/api/handlers.go`) | none of their own | `CreateIntent`, `Capture`, `Void`, `Refund`, `ThreeDSChallenge`, `Webhook` | rail call, write and audit event are not atomic with one another; rows are inserted after the lock is released | books never exceed what the rail did; captures within the authorization; refunds within the capture; audit stream agrees with the history |
| stores (`internal/store`, `internal/store/postgres`) | intents, captures, refunds, settlements, chargebacks, webhooks | `UpdateIntent` with a callback, inserts | Postgres rolls an erring callback back, MemStore does not; Postgres inserts drop their errors; duplicates are reported by one store only | as above, for each store |
| rail adapters (`internal/rail`) | none; the gateway keeps the ledger | `Authorize`, `Capture`, `Refund`, `Submit`, `Void` | the answer may be lost after the rail acted | as above |
| idempotency (`internal/idempotency`, `replayOrContinueStore`) | a claim and a response per key, both expiring | lookup, claim, store | four separate requests; claims expire; replicas crash; clients go away | one handler at a time; no second run while a response is kept; no second run within a TTL |
| webhook ingestion (`Webhook`, `processWebhook`) | webhooks table | replay window, record, process, mark | repeated and concurrent deliveries, events that come before the capture or after the payment has moved on | MemStore processes an event once; a 200 leaves no captured payment waiting for its settlement |
| webhook worker (`internal/webhook/worker.go`) | channel, in-flight counter, stop channel | `Enqueue`, `run`, `Stop`, `Idle` | channel and counters are updated at different moments | nothing accepted is lost; `Stop` returns |
| migrations (`internal/store/migrations`) | tables, `schema_migrations` | `Up`, `Down` | every replica runs `Up` at start, without a lock; a stop between a script and its record | what is recorded was applied; a start can always be repeated |
| wiring (`cmd/orchestrator-fiat`, `internal/config`) | the environment, the service built from it | `newService` and the constructors it calls, `ApplyConfig` | real parts, stand-ins and refusals are decided one by one, after the database was migrated | no stand-in in production; no rail verified with another rail's secret |
| audit (`internal/audit`), fraud, MPI clients | none | `Emit`, `Score`, `Resume` | an event is emitted before the write it reports commits | see handlers |

`CreateIntent` calls fraud, then the rail, then the store, then audit. `Capture`,
`Void`, `Refund` and the challenge call the rail and emit the audit event inside
the callback of `UpdateIntent`, that is, under the row lock or the mutex, and
insert their row after it. A chargeback looks its case up, inserts or updates it
and moves the intent in three separate store calls. All hazards are listed, at
their lines, in `PROJECT.json`.

## Modules

| Module | Models | Uses |
|---|---|---|
| `PaymentDomain` | statuses, `Transition`, intent record, machine integers | |
| `PaymentService` | handlers, both stores, rail, audit | `PaymentDomain`, `PaymentLifecycle` |
| `PaymentLifecycle` | abstract: what the code lets a client see one payment do | |
| `PaymentServiceProofs`, `PaymentSafetyProofs`, `PaymentLedgerProofs`, `PaymentAuditProofs` | theorems, each module on top of the one before | `PaymentService` |
| `MCPaymentService`, `PaymentClaims` | instances for TLC; statements of the documents | `PaymentService` |
| `Idempotency`, `MCIdempotency` | idempotency keys | |
| `KeyedCapture`, `IdempotencyProofs` | composition: `Capture` behind its key; theorems about both | `Idempotency`, `PaymentService` |
| `WebhookDelivery`, `WebhookDeliveryProofs` | webhook ingestion | |
| `WebhookWorker`, `WebhookWorkerProofs` | the background worker | |
| `Migrations` | `migrations.Runner` | |
| `Startup`, `StartupProofs` | `main`, `config`, the constructors of the parts | `Migrations` |

### PaymentService

State: `intents` is the intents table (ids in `stored` have a row; ids in
`issued` have been drawn by `CreateIntent`); `rows` holds the sums of the
captures, refunds and settlements tables; `chargebacks` the dispute rows;
`audit` the to-states that were emitted; `gateway` what the rail did; `lapsed`
the intents whose 3DS window is over. `todo` is the rest of the handler each
thread is executing.

What a handler does inside `UpdateIntent` is one action because a lock is held
over it: `Capture`, `Void`, `Refund`, the `Challenge...` actions, `Settlement`,
`OpenDispute`, `CloseDispute`. `UpdateIntentStep` is the common part: the record
that is left, the audit events, the rest of the handler, and the fault that
strikes. What a handler does outside is put on `todo` and executed one call at a
time (`StoreIntent`, `AddRow`, `EmitTransition`, `AddChargeback`,
`UpdateChargeback`), so other handlers run in between. The two stores differ in
`MemUpdateIntent`/`PgUpdateIntent` and `MemAddChargeback`/`PgAddChargeback`, and
`StoreKind` says which one is configured. A request the code rejects without a
change has no action.

The lock does not stop the clock. A challenge compares the 3DS window once and
then calls the MPI and the rail, so `BegunInWindow` asks that the window is open
when the handler begins and lets it end before the handler does: a payment whose
window ends during those calls is authorized all the same. `WindowElapses` is the
end of a window between two requests. `LapsedMovesNoMoney` is therefore about
payments that are still pending, or failed, once the window is over: no later
step charges them or moves them on.

`PaymentLifecycle` is drawn from the code, not from the documents: the exits from
`settled` that the documents promise (a refund, a chargeback) are not among its
moves, since the code refuses them. `claim_refund` and `claim_dispute` show that
disagreement.

Data abstracted: an amount is a machine integer of width `MaxInt`; a history is
the set of its lifecycle events; the rows of a table are their sum; a case is a
reference and a stage; times exist only as "the window is over". `RailLimit` is
a bound of the model: the rail refuses beyond it, which keeps repeated lost
captures finite. `RailSubmit` takes a rail's `settle_amount` to be a non-negative
integer; see [What is not modelled](#what-is-not-modelled) for
other answers. A fault is `reply_lost` (the rail acted, the adapter reports an
error), `sql_error` (a statement or commit fails) or `crash`.

### Idempotency

A call is at `lookup`, `claim`, `run` or `store`, and each step is one request
to Redis. Time is relative: `claim[k]` and `response[k]` are what is left of
their lives, `call[c].age` how long a call has lasted, `ran[k]` what is left of
a TTL since the last run. A call at `run` may panic (the
registry has no adapter for its rail): `net/http` recovers, the claim stays.
Relative time keeps the state space finite without a
bound on the clock. In Redis claim and response expire separately; the in-memory
store has one entry, and at the very instant of expiry its `LookupResponse`
still finds it while its `Claim` already grants the key. When Redis refuses the
response (`AnswerUnstored`) the client gets its answer nevertheless, and the next
call with the key finds the claim alone; when the client is gone
(`ResponseLost`) neither happens.

The one assumption is `2 * MaxCall < TTL`: a call, from its lookup to its reply,
takes less than half the TTL. The code does not enforce it, but every request a
call makes times out after 5 to 15 seconds and the default TTL is 24 hours. It
is not idle: with `2 * MaxCall = TTL` TLC finds a call that looks up, waits for
the first claim to expire, and runs the handler although the response is kept.

### KeyedCapture

`KeyedCapture` extends `Idempotency` and instantiates `PaymentService` for one
authorized card payment on Postgres. The state of both is kept side by side.
`Idempotency!Handle`, which alone says only "the handler ran", is refined: a call
at `run` takes `PaymentService`'s own `Capture` step (`RunCapture`) or is refused
(`RefuseCapture`), inserts its row (`InsertCapture`) and only then returns the
status that `StoreResponse` keeps (`ReturnStatus`, `KeyedStoreResponse`), or that
reaches the client without being kept (`KeyedAnswerUnstored`).
`KeyedFault` ends a call at any of its points, `CrashInCapture` between the rail
and the commit. Both modules count their faults in one `faults`. Three variables
are there for the properties: `reply` is what the handler came to, `promised`
sums the amounts answered 200, `spent` counts the captures the rail made under a
key within a TTL.

### WebhookDelivery and WebhookWorker

`WebhookDelivery` takes settlement events, several of which may name one payment,
through `Webhook`: replay window, `RecordWebhook` (which reports a duplicate in
memory and does not on Postgres), `ProcessWebhook`, and the deferred mark.
`status` says how far a payment is: other handlers store it (`PaymentStored`),
capture it (`PaymentCaptured`) and take it out of `captured` by a refund or a
chargeback (`PaymentLeaves`) at any moment. As in the code a settlement takes
effect only while its payment is captured; for any other stored payment the event
is noted in the history and dropped, and both are answered 200, as is an event
for an unknown payment. `noted` counts the history entries an event has left, up
to 2, which is all the properties tell apart. `early` holds the events that were
dropped because they came before the capture: the one way in which an
acknowledged settlement leaves a payment that still waits for it.

`WebhookWorker` has one action per access to the channel or a counter. `main`
does not start the worker: it processes webhooks in the request. The module
covers the package as its tests use it.

### Migrations and Startup

`Migrations` has one action per statement of `Up` and `Down`, since each is a
request of its own and nothing excludes other runners in between. A script is
one step: it is one `Exec` without arguments, which Postgres runs as a
transaction. `Interrupt` is a statement that fails (two `CREATE TABLE IF NOT
EXISTS` may collide in Postgres) or a process that stops; what was done stays.

`Startup` extends it with the environment and the services. A replica that
`Boot`s migrates (`Migrate`), then builds everything else in one step (`Wire`),
in which nothing is visible to others, and serves or exits. A setting is `set`,
`unset`, or `blank` for the two that the code trims after it has found them not
empty. The pieces of a service keep the names of the functions that build them.
`StartFails` is a stop or failure before it serves, `Stop` an orderly
replacement, `RunDown` an operator. The environment does not change: a
deployment with another one is another behaviour.

## Runs

Passing runs:

| Run | Instance | Shows |
|---|---|---|
| `postgres_faults` | one payment (card or PIX, amount 3, requests of 1 and 2), two handlers, one dispute case, Postgres, one fault of any kind at any point | `BooksWithinRail`, `CaptureDriftNeedsFault`, `CaptureWithinAuthorization`, `RefundWithinCapture`, `BreakSurfaced`, `LapsedMovesNoMoney`, and that the intents table implements `PaymentLifecycle` |
| `mem_ledger` | the same payment and dispute on MemStore, no fault | `RowsMatchBooks`, `AuditSound`, `AuditComplete`, `DisputeRecorded`, `VoidIsFinalAtRail`, `MoneyRecorded` |
| `idempotency` | `KeyedCapture`: two calls with one key that capture 1 or the rest of an amount of 2, Redis and memory, TTL 5, calls of up to 2, two faults of any kind | `ExclusiveHandler`, `NoRunWhileAnswered`, `OneRunPerTTL`, `RetryAnswered`, `RailMovesOncePerTTL`, `AnsweredIsBooked` |
| `webhook_delivery` | one payment, two settlement events that name it, two concurrent requests, both stores, two faults | `MemProcessesOnce`, `AckedLeavesNoneWaiting`, `RepeatedMovesOn` |
| `webhook_worker` | three webhooks, two goroutines, a channel of one | `NoneLost`, `GaugeTracksQueue`, `AcceptedIsProcessed`, `StopReturns`, `IdleMissesOnlyTaken` |
| `startup` | two replicas, two versions of the schema, rails card and ACH, any environment with up to two settings missing or blank, one fault | `NoStandInsInProduction`, `NoForeignSecret`, `RecordedIsApplied`, `ServesOnSchema`, `StartedServes` |

Each run but `mem_ledger` also checks the `TypeOK` of its module. The longest,
`startup` and `postgres_faults`, take one to two minutes each with two workers.

Why the bounds are enough. Handlers of different payments share nothing but the
table of cases, so one payment shows their interplay; two threads are what a
race needs. Amount 3 with requests of 1 and 2 has partial captures in either
order, a last one that fits exactly and one that does not. `MaxInt = 9` leaves
room for the sums of one payment and wraps beyond; amounts whose double
overflows are excluded (`AmountsFit`). PIX settles on 3 or on a lesser amount.
One fault is enough to separate books from rail; the proofs cover any number. A
channel of one is full as soon as one webhook waits, and the third webhook is
then dropped. Two calls are what a stale lookup needs: one that ran, and one
that looked up before it; each may be repeated any number of times, and the
proofs cover any number of calls. An amount of 2 in halves lets a key's second
run, after the TTL, meet a payment that the first has captured in part, in full
or not at all, and `promised` and `spent` see the difference. Two events that
name one payment let a settlement meet a payment that is not there, not captured,
captured, settled by the other event, or refunded or charged back. Two replicas race on each
statement of a migration; two versions make order and "up to the last" matter;
with two settings missing, each pair of causes of a refusal or a stand-in
occurs.

Deadlock is not checked where nothing has to happen once the clients and rails
have nothing more to ask (`CHECK_DEADLOCK FALSE`), and in `startup`,
where nothing can run in production without a `DB_URL`; the idempotency run,
where time goes on, checks it.

Fairness. Weak fairness of what a started goroutine does next (`Continue`,
`Proceed`, `KeyedProceed`, `Run`, `IncWebhookBacklog`) and of a process that has
been started (`Migrate` or `Wire`) is the scheduler's; of `Tick` and `KeyedTick`,
that time passes. No request, webhook, start, stop or crash is fair. Where a
property needs a client, a rail or an operator to try again (`RetryAnswered`,
`RepeatedMovesOn`, `StartedServes`), the retries are the premise of the
property. `StopReturns` also depends on there being finitely
many webhooks to enqueue: with both cases of the `select` ready Go picks one at
random, so an endless stream delays `Stop` by chance only.

On MemStore `MoneyRecorded` holds and on Postgres it does not: a failing insert
or a crash loses the row. `AuditSound` fails on Postgres, where audited changes
are rolled back. These differences are why the properties are divided between
the runs as they are.

## Where code and documents disagree

Each of these runs checks one sentence of the repository's documents or comments,
and TLC gives a shortest behaviour that breaks it. None needs two requests at
once, and only `claim_replay` needs a fault.

| Run | Sentence | What the code does |
|---|---|---|
| `claim_refund` | "Partial refunds sum correctly and never exceed the captured amount." | On a settled intent the rail refunds, the row is inserted, the transition fails, Postgres rolls `refunded_amount` back, and the next refund passes the check again |
| `claim_challenge` | "transition to `failed` on expiry" | On Postgres the failure is audited, then rolled back |
| `claim_dispute` | "A chargeback opened on a settled intent moves it to `charged_back` and records the dispute." | `Transition` refuses to leave `settled`; the webhook ends in 500 with the case inserted, and the next delivery, which finds the case, is answered 200 with the intent still settled |
| `claim_void` | Void cancels an intent "that has not yet been captured" | A partially captured intent is still `authorized`, and is voided |
| `claim_replay` | "Replays within the key's TTL return the original response." | The response is stored under the request's context; once the client is gone it is not, and retries get 409 |
| `claim_dedup` | "Duplicate webhook with the same `external_event_id` is processed exactly once." | Postgres does not report the duplicate: each delivery is processed and leaves a history entry of its own (the settlement itself takes effect once) |

Seen while modelling, without a run of their own:

- `webhook/worker.go:112` says `Idle` waits until "all in-flight handlers have
  completed"; a webhook that a goroutine has received and not yet counted is in
  neither the channel nor the counter. `IdleMissesOnlyTaken` says that it misses
  no more than this.
- `README.md:97` calls the webhook endpoints "public but signature-gated"; the
  token check is in front of every path but the probes, theirs included.
- The comment at `main.go:67` restricts the in-memory idempotency store to
  `DEV_MODE`; a `REDIS_URL` of blanks yields it in production too
  (`idempotency.go:179`). `NoStandInsInProduction` states the exception.
- `README.md:229` lists the URLs of card, ACH and SEPA as required; any one is
  enough to start, and a payment on a rail without one panics after its key was
  claimed.
- `WEBHOOK_SECRET` is the fallback of a rail without a secret of its own
  (`config.WebhookSecret`), but once any rail has one, `ApplyConfig` leaves the
  others without.
- On Postgres a case reference is unique over all intents and the conflict is
  ignored, while the lookup is per intent: a second payment with the reference
  of a first is charged back without a row.
- Stages of a dispute are applied as they come: an `opened` after `evidence`
  finds the row and moves nothing.
- Refunding is entered and left without an audit event of its own, against
  `PROJECT_PLAN.md:205`.
- The Kafka writer does not partition by payment and its errors are dropped.
- The database is migrated before the rest of the environment is checked, and a
  `Down` that stops between script and record leaves a version recorded that has
  no tables, which every later `Up` skips.
- Nothing keeps `IDEMPOTENCY_KEY_TTL` above twice the length of a call.

## Proofs

Every invariant, every action property and the refinement that a run checks is
also a theorem, for any payments, threads, amounts, number of faults, calls,
keys, events, webhooks, goroutines, replicas, versions of the schema and
environments. The assumptions on the constants are `MaxIntAssumption`,
`ServiceAssumption`, `IdempotencyAssumption`, `KeyedAssumption`,
`DeliveryAssumption`, `WorkerAssumption`, `MigrationsAssumption` and
`StartupAssumption`, and what a theorem's own `ASSUME` adds:

- `AmountsFit` (`2 * a <= MaxInt` for the amount of an intent): all theorems
  about payments beyond `TypeCorrect`. Amounts are minor units in 64 bits.
- `RailFits` (`RailLimit <= MaxInt`: the rail refuses before its total for one
  payment overflows an amount): `RowsStayWithBooks` and
  `RefundsStayWithinCaptureOnBoth`. It is needed: with `RailLimit` above `MaxInt`
  TLC finds a settled payment on MemStore, refunded in part, whose next refund,
  of nearly `MaxInt`, makes the sum wrap and so passes the check, while the
  refunds table gets the full row.
- `StoreKind`: which store a theorem is about, where the stores differ.
- `Faults = {}`: `VoidStaysFinal` only. After a lost reply the rail may have
  captured or cancelled what the books know nothing of.
- `IsFiniteSet(Threads)`: `RowsStayWithBooks` only, whose statement is a sum over
  threads.

**Types and bounds of the books.** `TypeCorrect` (`PaymentServiceProofs`) shows
`Spec => []TypeOK`, action by action. The safety properties rest on `SafetyInv`,
proved inductive in `PaymentSafetyProofs`:

- `TypeOK`;
- `RailAmounts`: what the rail moved is never negative;
- `DraftsSound`: an intent that a handler has built and not yet stored is sound
  already, its id is not stored and no other thread has it;
- every stored intent is `Sound` with respect to the rail's ledger.

The properties are not inductive by themselves. An intent becomes stored from a
thread's `todo`, so what holds of stored intents must hold of drafts, and no
other action may touch the ledger of a draft's id in between. And the guards of
`Capture` and `Refund` compare a sum that may wrap: that it does not follows
from `AmountsFit`, from captures staying within the amount, and, for refunds,
from the fact that on Postgres an intent that is not `refunded` has nothing
refunded. From it follow `BooksStayWithinRail` and
`CapturesStayWithinAuthorization` for either store and `RefundsStayWithinCapture`
for Postgres. On MemStore repeated refunds of a settled intent accumulate, and
the sum stays within the capture because the rail's own limit keeps it from
wrapping (`RefundsStayWithinCaptureOnBoth`, in `PaymentLedgerProofs`).

**Books and rail.** `PaymentLedgerProofs` first classifies the steps (`Shaped`):
a step of a thread drafts an intent (`Creates`), stores a draft, updates one
stored intent and its ledger in one of seven ways (`Captures`, `Voids`,
`Refunds`, `FailsChallenge`, `PassesChallenge`, `Settles`, `Disputes`), or
touches neither. `StepShape` proves that this covers every action and fault, and
all later proofs go by shape. `LedgerInv` adds to `SafetyInv` what `Kept` says of
an intent and its ledger after n faults (without a fault the captured amounts
are equal; while the challenge is pending nothing is captured; whatever has
`settled` in its history is settled, with its break; the rail has cancelled only
what can move no more money), the same for drafts, and that the rail knows
nothing of an unused id. From it follow `DriftNeedsFault`, `BreaksSurface` and,
with no fault, `VoidStaysFinal`. `LapsedStaysUncharged` is an action property and
goes by shape as well (`LapsedStep`): each shape that reaches the rail asks for a
status that a pending or failed payment does not have, or for an open window.

**Refinement.** `LifecycleImplemented`: on Postgres each shape, seen through
`seen`, is a step of `PaymentLifecycle` or a stutter (`EffectMoves` for updates,
`FreshOpens` for a draft that is stored), and only one payment moves at a time.

**Audit and disputes, on MemStore.** `AuditInv` adds to `LedgerInv` that every
event on a thread's `todo` is backed by the history of a stored intent or of the
draft that the same thread stores first (`EmitsBacked`), that a status is audited
or on some `todo` (`StoredAudited`, `DraftsAudited`), and that a dispute is opened
only after its case is in the table (`CasesBacked`). From it follow
`AuditTellsTruth`, `AuditMissesNothing` and `DisputesAreRecorded`.

**Rows, on MemStore.** `RowsInv` says that for a stored intent, for a draft and
for an unused id, the sum of a table plus what all `todo`s have yet to insert is
what the intent books, that a program inserts at most one row, and that only a
settled intent has a settled amount, so that one settlement counts. What is in
flight is a `SumFunction` over threads. Induction over finite sets is not
available for operators, so the sum is characterised by a function on all
subsets (`Tallies`), whose existence and agreement with `SumFunction` follow from
a minimal counterexample (`MinimalSubset`, from the well-foundedness of strict
inclusion). From it follows `RowsStayWithBooks`.

**Idempotency.** `IdempotencyInv` adds to `TypeOK` and `ExclusiveHandler` that a
claim outlives the call that executes under it (`ClaimHeld`), that a response
that has appeared since a call's lookup is covered by a claim for as long as
that call lasts (`ClaimCovers`, where `2 * MaxCall < TTL` is needed), and that
for a TTL after a run a claim or response stands in the way (`RunGuarded`). From
it follow `OneCallExecutes`, `KeptResponseIsNotRerun`, `RunsAreTTLApart` and
`KeyTypes`.

**Capture behind its key.** `KeyedInv` adds that a call that executes claimed its
key less than its own age ago (`RunRecent`), that nothing is counted as spent
after the TTL of the last run, and that a handler without a result has had the
rail do nothing. From it follow `RailMovesOnce` and, for the composition,
`KeyedExclusive`, `KeyedNotRerun` and `KeyedTTLApart`. `AnswersAreBooked` needs
that what has been promised and what calls in progress are about to promise
together stay within the captured amount (`AnsweredInv`, again with a tally over
the callers).

**Webhook delivery.** `DeliveryInv`: a request past `RecordWebhook` has its event
in the table (`PastRecord`); on MemStore at most one request is between recording
an event and processing it, and the event has left no history entry yet
(`OneProcesses`); and what is about to be answered 200 has been dealt with, that
is, dropped before the capture or its payment is past `captured`, which no handler
undoes (`AnswersDealt`; on MemStore, where a duplicate is answered at once, every
recorded event has been dealt with or is being processed). From it follow
`DeliveryTypes`, `MemDeliversOnce` and `AnswersLeaveNoneWaiting`.

**Webhook worker.** `WorkerInv`: `NoneLost`, `GaugeTracksQueue`, the counter is
the number of goroutines between its two updates (`InflightCounts`, from which
its bounds follow), and what `Idle` was promised is not in the channel once `Idle` has
seen the channel empty (`IdleSees`). From it follow `WorkerTypes`,
`NoWebhookLost`, `GaugeIsBacklog` and `IdleIsAlmostRight`.

**Startup.** `StartupInv`, proved inductive in `StartupProofs` from
`MigrationsAssumption` and `StartupAssumption`, has two parts. `RunnerSound` is
the loop invariant of `Up`: the versions before the one a runner is at have had
their script run, by it or by another. `ServesOnSchema` is not inductive without
it, since a replica concludes from a record, which another replica wrote, that
it may skip a version; and the record is right because whoever is at `record`
has run the script (`RecordedIsApplied`). `ServicesSound` ties a service to the
environment that `Wire` read. From them follow `RecordsFollowScripts`,
`ServingHasSchema`, `ProductionIsReal`, `SecretsStayApart` and `StartupTypes`.

Only model-checked: the liveness properties `MoneyRecorded`, `RetryAnswered`,
`RepeatedMovesOn`, `AcceptedIsProcessed`, `StopReturns` and `StartedServes`
(fairness is beyond the proof system), and the counterexamples of the runs that
expect a violation.

## What is not modelled

- ACH and SEPA intents are authorized and then stay so: `Capture` takes cards
  only. The models allow those rails; the runs use card and PIX.
- The signature check of webhooks and of service tokens, logging, tracing, mTLS:
  stateless or pure I/O. Of the tokens only `SecretFromEnv` is modelled.
- The path of `replayOrContinue` without an idempotency store, which `main`
  never configures.
- Answers of a rail whose `settle_amount` is not a non-negative 64-bit integer:
  the adapter then reports the amount asked for, or the negative amount
  (`http.go:244-248`), and the books follow it. `RailSubmit` states the assumption.
- `mpi.Challenge`, which no handler calls; the Kafka writer behind the audit
  sink; latency quantiles.
- The encoding of a response from a record that MemStore shares with other
  handlers, a data race on the answer only.

## Plan

The order was: domain and payment handlers first, since money moves there; then
the idempotency keys that guard them; webhook delivery and the worker; then
startup and migrations, and keys and handlers together; then a proof of every
safety property. Left to do:

1. That on MemStore the refunds table itself stays within the captured amount,
   the contrast to `claim_refund`: from `RowsInv` and
   `RefundsStayWithinCaptureOnBoth` once rows in flight are shown not to be
   negative.
2. `AuditComplete` and `DisputeRecorded` on Postgres without a fault, where
   statements do not fail.
3. Two payments that share a case reference, if the repository comes to say what
   should happen to the second.
