# IdemPay in TLA+

This directory is the verification project of the billing engine in `src/`: TLA+
modules translated from the TypeScript sources, small instances that TLC checks,
and theorems that TLAPS proves for instances of any size. Paths below are
relative to the root of the repository.

The question behind everything here is the one of `docs/spec.md` INV-01: *can a
billing intent be charged twice?* The provider may answer late or not at all,
processes die, several executions and two background sweeps work on the same
rows, and administrators cancel and pause in the middle of it.

## 1. The system

| Part | State it keeps | Operations | Talks to |
|---|---|---|---|
| charge executor (`src/charge-executor/charge-executor.*`) | `billing_intents`, `payment_attempts`; an execution's local variables between awaits | `execute` = `startAttempt`, `charge`, `verify`, `settleAttempt` | gateway, store |
| recovery sweep (`charge-recovery.sweep.service.ts`, `interrupted-execution.repository.ts`) | a timer | declare an expired `IN_FLIGHT` attempt `UNKNOWN` | store |
| verification sweep (`charge-verification.*`) | the list of candidates it read | ask the provider about `UNKNOWN` intents; resolve, back off or escalate them | gateway, store |
| gateway (`src/gateway`) | outcome per provider operation | `charge`, `verify` | provider |
| retry policy (`src/retry`) | none | `decideRetry`, back-off | – |
| subscription lifecycle (`subscriptions.lifecycle.service.ts`, `subscription-cancellation.repository.ts`) | `subscriptions`, outbox; what a request loaded | `cancel`, `pause`, `resume` | store |
| billing cycle charge (`src/billing-cycles`) | the subscription a request found | `findSubscription`, `getOrCreateIntent`, then `execute` | store, executor |
| scheduler, calendar (`src/scheduler`, `src/calendar`) | the intents of a subscription a sweep read, and where its loop is | `sweep`: create or omit the intents of due cycles | store |
| reprocess (`src/reprocess`) | manual attempts | reopen an `UNKNOWN` or `FAILED_FINAL` intent | gateway, store |
| idempotency (`src/idempotency`) | `idempotency_operations`; what the guard and the interceptor of a request remember | register, lease, retake, settle, replay | every mutation's handler, PostgreSQL, Redis |
| dispatcher (`src/dispatcher`) | the batch it picked, a queue in Redis | pick due intents, enqueue them, run jobs (`DispatcherModule` is not imported by `AppModule`) | store, Redis, executor |
| notifications, queries, charges stub, health, common | outbox rows (append-only) | reads, health checks | – |

Components never call each other through messages of their own: they interact
through rows in PostgreSQL, each transaction holding the row locks of the intent
(and, in a settlement or a start, of its subscription). What is hard:

- an execution awaits three times between `startAttempt` and `settleAttempt`, and
  anything may happen in between, including its own death;
- a timeout says nothing about the money: the operation may be accepted later;
- both sweeps decide from what they read earlier, and so do lifecycle requests;
- the queue is a transport without memory of its own: jobs are lost, repeated or late;
- transactions lock the same rows in different orders, and update rows by id alone;
- only unique indexes, CHECK constraints and triggers stop some of the races, and
  they do it by rejecting a whole transaction.

What makes each part correct: at most one accepted operation per intent; an
intent reopened or closed as unpaid only after the provider rejected every
operation of it; the two tables agreeing on what is in flight; an interrupted
execution that ends; an `UNKNOWN` intent that is resolved or escalated; a
cancellation told to the outbox, and none undone; no due cycle without a row, and
none omitted for nothing; one recorded answer per window
of an Idempotency-Key, and the effect of the handler with it; a due intent that is
attempted although jobs get lost; cycles whose dates neither coincide nor drift; no
outcome of a charge lost to a deadlock.

## 2. The modules

| Module | Models |
|---|---|
| `BillingStore` | the rows and the constraints of `src/database/migrations`; the effects shared by several components (`CancelWith`, `ScheduleIntent`) |
| `PaymentProvider` | what the provider did with each operation; `charge` and `verify` |
| `ChargeExecutor` | executions, recovery sweep, verification sweep, time; `Spec` and `FairSpec`; the properties of a charge |
| `BillingCycles` | a request that finds a subscription and later inserts the intent of a cycle |
| `SubscriptionLifecycle` | cancel, pause and resume requests |
| `Reprocess` | reprocess requests and manual attempts, next to `ChargeExecutor` |
| `BillingEngine` | the composition of `Reprocess` (and with it `ChargeExecutor`), `BillingCycles` and `SubscriptionLifecycle`; of the scheduler what it may do to a row |
| `CyclePayments` | what the engine promises about the money of an intent: the abstract specification `BillingEngine` implements |
| `Dispatcher` | the dispatcher, the queue and its worker, next to `ChargeExecutor`; fairness of everything that has a timer |
| `RowLocks` | the transactions statement by statement: row locks, stale reads, COMMIT, rollback, deadlocks |
| `Idempotency` | the guard, the interceptor and the registration of keyed requests |
| `KeyedOperations` | what the owner of a key is promised: the abstract specification of `Idempotency` |
| `Scheduler` | `sweep()`, one cycle at a time, with what it read before; the business-day rules on day numbers |
| `Calendar` | the dates of cycles, business days and the two searches for the cycle of a day, on calendar dates |
| `IntentMoves` | creation and lifecycle requests next to attempts reduced to what they do to the status of an intent: an abstract specification `BillingEngine` implements |
| `BillingPlan` | the composition of `Scheduler` and `IntentMoves`: who decides that a cycle is billed |
| `BillingSystem` | the composition of `BillingEngine` and `Scheduler`: all of it, with the scheduler's own sweeps |
| `ChargeExecutorProofs` | type correctness of `ChargeExecutor`; cancellations told once and confirmed successes, stalled executions included; the inductive invariant and INV-01 |
| `BillingEngineProofs` | the same results with manual attempts, and for the composition |
| `BillingSystemProofs` | that `BillingSystem` implements `BillingEngine` and `BillingPlan`, and what follows for it |
| `DispatcherProofs` | that jobs are executions, and that an intent has one job at most |
| `BillingPlanProofs` | the inductive invariant of the sweeps, and quiet after a cancellation |
| `IdempotencyProofs` | the safety of `Idempotency` and its refinement of `KeyedOperations` |
| `RowLocksProofs` | that decisions stand and who can deadlock, for any number of transactions |
| `CalendarProofs` | that the calendar's loops compute its closed form, for any anchor, cadence and holidays |
| `MCChargeExecutor`, `MCBillingEngine`, `MCDispatcher`, `MCBillingPlan`, `MCIdempotency`, `MCCalendar`, `MCRowLocks` | definitions the TLC configurations need |

`PaymentProvider` extends `BillingStore`, `ChargeExecutor` extends
`PaymentProvider`, `Reprocess` and `Dispatcher` extend `ChargeExecutor`, and
`BillingEngine` extends `Reprocess`, `BillingCycles` and `SubscriptionLifecycle`.
`Scheduler` extends `BillingStore`, `IntentMoves` extends `BillingCycles` and
`SubscriptionLifecycle`, `BillingPlan` extends `Scheduler` and `IntentMoves`, and
`BillingSystem` extends `BillingEngine` and `Scheduler`. `Idempotency`, `Calendar` and `RowLocks`
stand alone: the first sees a handler as one step with an effect, the second backs the
constants of `Scheduler`, the third backs the atomic transactions of all the others.

**State.** `intent[i]` is a row of `billing_intents`, `attempt[i][n]` the n-th row
of `payment_attempts` inserted for intent `i`, `subscription[s]` a status,
`outbox[s]` the number of CancellationEvents. A provider operation id is derived
from one attempt row, so `provider[i][n]` is indexed by that row. `worker[w]` is
an execution: which await it is at and what it remembers. `seen` is the list the
verification sweep read, `verdict` the answer about its first entry. `request[a]`
is a lifecycle request, `creating` the intents some request is about to insert.
`reprocess[p]` is a reprocess request: the intent and the attempt it loaded, and
whether it is about to verify, to close or to start.

**Steps.** One action is what runs between two awaits. A transaction is one
action: each begins by locking the rows it decides on and holds the locks to its
COMMIT, and a rejected transaction changes nothing (`RowLocks` takes them apart). A query outside a transaction
is an action of its own (`FindUnknown`, `LoadSubscription`, `LoadLiveIntents`,
`FindSubscription`, `LoadCandidate`), so what it returned can be stale when it is used.
`startAttempt` outcomes that roll back are disabled steps.

**Time** is reduced to what conditions compare: `due` (`next_attempt_at <= now`),
`verifyDue` (`next_verify_at <= now`), `since` (`unknown_since` null, younger or
older than the 24 h window), `overdue` (`deadline_at < now`). Each may change at
any moment, so any relative speed of clocks and processes is covered.
`started_at` orders attempts as they were inserted.

**Provider.** A new operation gets any outcome of `ChargeOutcome`. A `TIMEOUT` or
an `AMBIGUOUS` one is `PENDING` and may later be charged or rejected
(`ProviderResolves`). A `FAILED` verification is definitive (`docs/spec.md`
RF-17) and the provider may give it for an operation it never received, which is
more than `MockPaymentAdapter` does.

**Stalls.** `StallBeyondDeadline` says whether the deadline of an attempt may pass
while its execution is alive. Nothing in the code aborts a slow `charge`,
`verify` or query, so `TRUE` is what the code allows; `FALSE` is the assumption
under which the engine keeps INV-01. The passing runs about double charges and
the theorems assume `FALSE`; the run `StalledSettlement` shows why they must.
`ExecutionsMayDie` says whether executions may end at any await (a crash, a
rejected call).

**Reprocess.** `reprocess()` loads a candidate (`LoadCandidate`), asks the provider
about its last attempt (`VerifyLatest`) and then closes the intent
(`CloseVerification`) or starts a manual attempt (`StartManualAttempt`), each in a
transaction of its own; `probe()` is a request that ends (`ReprocessEnds`) before
the last step. From there on it runs as an execution whose `seq` is 0:
`settleManualAttempt` issues the statements of `settleAttempt`, so `Settlement`
(`SettleAttempt` or `SettlementRolledBack`) stands for both, and the recovery sweep treats both kinds
alike; only the decision differs (`ManualVerify`). Two constants state what a manual
attempt needs and the code does not ensure. `StaleProbes = FALSE`: the attempt the
request verified is still the last one when the manual attempt starts.
`StartsDuringSweep = FALSE`: the verification sweep does not have the intent on
its list then. `TRUE` is what the code allows.

**Scheduler.** `sweep[x]` is a call of `sweep()`: the day it read, the subscriptions
still to do, the cycles of the one the loop is at, those `left`, and what
`LIST_EXISTING_INTENTS` returned of them (`existing`, `live`). The query is one action
(`ListExistingIntents`); after it each iteration of the loop is one: the row exists
(`SkipExisting`), its business day has not come (`StopAtFutureDay`), it is omitted
(`OmitOverlapIntent`, `OmitEngineDownIntent`), inserted (`ScheduleCycle`), rejected by
the live index (`ScheduleRejected`, which ends the sweep) or neither (`PassOver`).
Dates are day numbers; `NominalDay`, the date of each cycle, and `BusinessDays` are
constants, so the theorems hold for any calendar with a business day after each cycle,
as `nextBusinessDay` demands. An external cron calls `sweep()`: calls start at any time
and may overlap. In `BillingPlan` the executor and reprocess are reduced to what they
do to a status (`IntentMoves`: `AttemptMoves`, `GivesUp`, `Reopens`, `FailsFinally`), which
is what `BillingEngine`, where the attempts are, is shown to implement.
`BillingEngine` has the sweeps reduced to what they do to a row (`SweptCycle`): any cycle
without one may be inserted or omitted, at any time. `BillingSystem` has them as they are,
next to the attempts, requests and other sweeps of `BillingEngine`. It has too many states
for a run; the two models that share it between them have one each, and the step from
them to the whole is proved (section 4).

**Idempotency.** A mutation goes through four awaits: the registration of its key
(`Register`, `Retake`, or an answer: `Replay`, `RefuseMismatch`, `RefuseInFlight`),
the interceptor's `connect` and `BEGIN` (`Begin`), the handler (`RunHandler`), and the
settlement with its COMMIT (`Settle`). It may throw (`Fail`) or die (`Die`) on the way.
`rows[k]` is the sequence of generations of key `k`; `request[r]` holds the
context and the `now` that `registerOrGet` read before it had a client. Here
expiries are compared with each other, so time is a clock. The recorded answer is
the request whose handler produced it. `committed` holds the requests whose effect
is in the database: for an operation of `JoinsTransaction` (the insertion of a
subscription, which asks the unit of work for its client) at the interceptor's
COMMIT, for any other as soon as its handler has run. `PayloadHash` is what the
guard hashes: the body, so operations that differ in their route or in the
subscription they name may share it. A request that is at `RunHandler` or `Settle`
holds a client of the pool. `OutlivesLease` says whether a request may still be
running when its lease has passed; nothing in the code stops it, so `TRUE` is what
the code allows. `KeyedOperations` is the promise: per window one recorded answer,
the joining effect in the same step, and every other request of the key given that
answer or none.

**Engine.** `BillingEngine` composes executor, sweeps, manual attempts, creation and
lifecycle requests (`ServiceNext`) and the scheduler's `SweptCycle`. `CyclePayments` is what all of it is for: per intent, `charges`
(how often the money moved) and `record` (pending, paid, dropped). The refinement maps
`charges` to the number of CHARGED operations and `record` to the status: SUCCEEDED is
paid, FAILED_FINAL and OMITTED are dropped, the others are pending. `ProviderResolves`
and `Charge` may be `Pay`, settlements `RecordPaid` or `Drop`, a manual attempt on a
FAILED_FINAL intent is `Reopen`, and every other step stutters. The second refinement,
`AttemptsOnlyMove`, keeps of each row its status (`StatusOnly`) and forgets the attempts:
starts, settlements, recoveries, verifications and manual attempts become steps of
`IntentMoves`, and the requests are the same on both sides. What is shown of `BillingPlan`
therefore does not rest on a simplification of the attempts.

**Dispatcher.** `dispatch()` reads the due intents in the order of `next_attempt_at`
(`line`, of which `PicksDue` takes the first that are due), commits, and adds one job for each (`Enqueue`); `queue` holds the waiting jobs,
`active` the one the worker runs as execution `QueueWorker`. The job id is the intent's
id, so an addition is ignored while the job is waiting or active. `JobLost` is Redis
without its memory, `EnqueueFails` a rejected addition or a dispatcher that dies after
its COMMIT, `DispatchSkips` rows that SKIP LOCKED left out although they stay due;
`MaxLosses` bounds the three together. A job of a worker that died is lost or put back.
The other executions are requests that come over HTTP and need no job. One dispatcher
process runs (`running` keeps it to one batch).

**Calendar.** A date is a record; `DateOf` and `DayNumber` are what `Date` does between
`Date.UTC` and `toISOString`. The loops of `nextBusinessDay`, `nextCycleDate` and
`currentCycleDate` are recursive functions of their variables; the exception at the end of
the first is `NoDate`. `CycleDateAt` is the closed form the other two are checked against.
`FirstYear` and `LastYear` lie in 100 .. 9999, where a year is what `Date.UTC` takes it for
and has four digits at most. The one action is a day that passes, from two days before the
anchor to the last cycle of the bound. `CyclesAdvance` is what
`Scheduler` assumes of its constant `NominalDay`, and `NextBusinessDay` what it assumes of
`BusinessDays`.

**Row locks.** `tx[t]` is a transaction at its next statement: what it read under lock,
what it will write, and, in an omission, the rows left to update. `holder[r]` is the
transaction that has locked row `r`. Locks are taken one row at a time, in the order of
the statements: intent and then subscription in a start or a settlement (`LOCK_INTENT`
joins the two), subscription and then intents in a cancellation or a pause. An
`UPDATE ... WHERE status IN` sees the rows committed as it begins (`OmitStatement`) and
looks again at each when it has its lock (READ COMMITTED). `SettlementOpen` keeps an
execution within its deadline, the assumption the other modules name
`StallBeyondDeadline = FALSE`. Waits on unique indexes are left out: the statements
that enter `billing_intents_live_unique` are insertions, which hold no other lock somebody
waits for, and manual attempts, which hold only their own intent.

## 3. The runs

Passing runs:

| Run | Instance | Question |
|---|---|---|
| `ChargeOnce` | 2 intents of one subscription, 2 executions, 3 automatic attempts, crashes | INV-01, RF-17, INV-03, INV-07, RF-22 and the transition table, under every interleaving of executions, crashes and sweeps |
| `EngineCharges` | 1 intent, 2 executions, 1 lifecycle, 1 reprocess and any number of creation requests and insertions of the scheduler, 2 automatic and 1 manual attempt, crashes; no stale probes, no start during a sweep | the refinements of `CyclePayments` and of `IntentMoves`; the inductive invariant with manual attempts, the two transition tables, INV-10, confirmed successes; no silent cancellation, and a repeated one only by a late request, although a FAILED_FINAL intent is reopened and fails again |
| `Dispatching` | 1 intent, the queue's worker and 1 other execution, 2 attempts, 2 losses, crashes and stalls, fairness | RF-30: a due intent is attempted; RF-16: what is in flight ends; RF-17: what is UNKNOWN since a known time is resolved or escalated; a late settlement never calls an intent paid that was not; an intent never has two jobs |
| `PlanRaces` | 3 daily cycles, 1 sweep at a time, 1 lifecycle request, requests that charge a cycle, 3 days of which the first is a holiday | RF-14, RF-31, and INV-08 as far as the code keeps it: no due cycle without a row, none omitted as OVERLAP for nothing, no cycle of a cancelled subscription once its readers have ended |
| `KeyedRequests` | 3 requests of 1 key, 3 operations, lease 1, window 2, 4 ticks; no request outlives its lease | INV-05 and INV-06: one execution of a generation at a time, effect and answer together, windows in a row, settled rows final, and the refinement of `KeyedOperations` |
| `Calendar` | 4 anchors at ends of months and years and on a leap day, 4 cadences, 15 months, 4 years or 20 days and weeks, weekends, 7 holidays | RF-24, RF-25, RF-09: cycles distinct and on the anchor's day, the searches equal to the closed form, every cycle charged on its first business day |
| `RowLocks` | 3 transactions of any kind, 2 intents of one subscription, deaths | what was read under lock stands at the COMMIT; which transactions can deadlock; the inductive invariant of the proof |

Runs that TLC must find violated, each against a sentence of the documentation
(PROJECT.json quotes them under "findings"):

| Run | Sentence | What happens |
|---|---|---|
| `StalledSettlement` | INV-01, at most one effective charge | an execution slower than its deadline settles after the sweeps reopened the intent: `SETTLE_INTENT` has no condition on the status it overwrites |
| `RecoveredUnknown` | RF-17, escalation after 24 h or 10 verifications | the recovery sweep leaves `unknown_since` NULL, on which the verification sweep throws, in every run |
| `KeyReused` | `docs/spec.md:120`, a key is not reused for another operation | pause and cancel have no body, so their payload hashes are equal, and nothing else of the operation is compared: a cancellation gets the recorded answer of a pause |
| `PoolExhausted` | `docs/engine-guide.md:132`, the operation runs with the client of its settlement | every handler but one takes a second client, so as many requests as the pool has clients wait for ever for each other |
| `DispatchStarved` | `docs/engine-guide.md:157`, the dispatcher picks an intent up when it is due | an intent whose last automatic attempt the sweep made RETRY_PENDING stays due for ever and is picked first by every dispatch; as many of them as the LIMIT keep every other due intent out |

More disagreements with the documentation came up while the models were written. The
models contain the behaviour, except the last one, which the code alone shows; no run
of the project is spent on them:

- `CreateIntent` inserts from the status `FindSubscription` read, although a
  cancellation or a pause has come in between (`billing-cycle.repository.ts:89`), and
  so does `ScheduleCycle`, against INV-08 and INV-09 (`docs/spec.md:1130`, `:1136`).
  `QuietOnceCancelled` says what is left of INV-08.
- The scheduler inserts only the current cycle and only on its own business day
  (`billing-scheduler.service.ts:97`), while `docs/engine-guide.md:72` gives a
  SCHEDULED intent to every cycle whose date has passed. When several daily cycles
  shift to one business day, all but the last are passed over that day and omitted as
  ENGINE_DOWN the next, although the engine was up (RF-31).
- `ScheduleRejected`: the HTTP request takes any cycle date, so another cycle may be
  live that the sweep did not see; the rejected insertion throws out of `sweep()`
  (`billing-scheduler.service.ts:98`) and the subscriptions behind it wait for the
  next one.
- `StartManualAttempt` does not check that the attempt its request verified is still
  the last one (`reprocess.repository.ts:237`), and the verification sweep writes
  its verdict on an older attempt over an intent that a manual attempt made UNKNOWN
  again (`charge-verification.repository.ts:35`). With `StaleProbes` or
  `StartsDuringSweep` set to TRUE in `EngineCharges.cfg`, TLC finds
  `ReprocessInvariant` violated and, without it, `PaysOnce`: INV-01.
- A request slower than its lease is not stopped, and the interceptor ignores
  whether `settle` found its row (`idempotency.interceptor.ts:56-65`): a request that
  retook the lease and the slow one both commit. With `OutlivesLease` set to TRUE in
  `KeyedRequests.cfg`, TLC finds `OneExecution`, `EffectIffSettled` and
  `KeepsThePromise` violated, against INV-05 (`docs/spec.md:1112`).
- A pause, a resume and a cancellation commit before the settlement of their key, so
  a crash in between leaves the effect without its answer, against
  `docs/spec.md:184`. This is why `EffectIffSettled` speaks of joining operations.
- `SweepSettles` turns a FAILED verification of the last automatic attempt into
  RETRY_PENDING without looking at MAX_ATTEMPTS
  (`charge-verification.sweep.service.ts:131`); `startAttempt` then refuses the retry
  for ever. RF-22 (`docs/spec.md:844-846`) asks for FAILED_FINAL.
- `SweepSettles` schedules a retry for a MANUAL attempt as well (its `auto_seq` is
  null, so the back-off index is -1), against D13 (`docs/spec.md:1013`).
- Two cancellations that both loaded the subscription before either applied append
  two CancellationEvents (`ApplyCancellation`; `APPLY_CANCELLATION` at
  `subscription-cancellation.repository.ts:25` has no condition on the status),
  against `docs/spec.md:988`.
- `StartAttempt` does not look at the status of the subscription, so a retry that
  becomes RETRY_PENDING after the cancellation is made
  (`charge-executor.repository.ts:140`), against `docs/spec.md:602`.
- An execution that settles late overwrites the status of its intent while a later
  attempt runs, and the execution of that one may then die: the attempt stays IN_FLIGHT
  for ever under an intent that is not (`FIND_EXPIRED` asks for both,
  `interrupted-execution.repository.ts:18-19`) and, by the in-flight index, no attempt of
  the intent can start any more. Two attempts and `Die` are not enough to meet it;
  `InFlightEnds` speaks of the intent, which does leave IN_FLIGHT, and `DueIsAttempted`
  of intents that can be started.
- A cycle of a daily subscription that falls on a weekend is charged on the Monday only
  if it is still the current cycle then, and it is not: it ends as ENGINE_DOWN although
  the engine ran. With a tolerance of a day or more a late cycle is neither charged nor
  omitted until it is beyond the tolerance (`docs/spec.md:769`). `ChargedOnItsDay`
  excepts the daily cadence for this.
- A start and a cancellation (or a pause) that omits its intent lock the two rows in
  opposite orders and PostgreSQL aborts one of them (`OnlyStartsDeadlock`): the request
  answers 500, or the execution has not begun. A verification that commits RETRY_PENDING
  after `OMIT_INTENTS` ran and before its COMMIT leaves an intent that nobody omits.
- `POST /charges` settles its key with the stub's id `chg_N` as `billing_intent_id`
  (`charges.controller.ts:30`), which is not a uuid
  (`004-create-idempotency-operations.migration.ts:23`), so the settlement fails.

**Bounds.** `MaxAttempts` is 5 in the code; 2 to 4 give a first attempt, a middle
one and a last one, and the code compares the number with nothing but the limit.
`ManualReviewThreshold` is 10 in the code; 1 and 2 give the count below and at
the threshold. Two intents of one subscription make them compete for the live
index, for the cancellation of their subscription and for the place in the
sweep's list; two executions are the fewest that race. `MaxManual` bounds
the manual attempts of an intent, which the code does not limit: one is enough to
come between automatic ones, two to follow each other, and in the runs without
`Reprocess` it only leaves a row free. In `KeyedRequests` three requests make a
holder that dies, one that retakes its lease and one that finds a settled row or a
new generation; with lease 1, window 2 and `MaxTime` 4 the clock passes a lease, a
renewed lease and a window. In `PlanRaces` the cycles of days 0 and 1 share the
business day 1, cycle 2 is due on day 2, and a day late is more than
`ToleranceMinutes` (15 in the code): each reason to omit, to pass over and to stop
occurs. One sweep at a time and one lifecycle request keep the run small; the
theorems of `BillingPlanProofs` and `BillingEngineProofs` are for any number of
requests. In `EngineCharges` one request of each kind is enough to be late to everybody
else: to a settlement, to the sweep and to each other; two automatic attempts make a
first and a last one with a manual one before, between or after them, and `ChargeOnce` has
the three that make a middle one. `Dispatching` has one intent, so
the LIMIT never binds there; with two, `DispatchStarved` shows what it does. Two
attempts give a first one and a last one; the run with three and a threshold of 1 takes
longer and passes too. Three transactions in `RowLocks` allow a deadlock of two with a
third in its way, and would allow a cycle of three, which never happens; that there is
no longer one either is proved. The years of `Calendar`
hold a leap day, and its anchors fall on the 29th, 30th and 31st. `PoolSize` 4 keeps the pool out of that run; in
`PoolExhausted` it equals the two requests. The only counters, `verifyCount` and
`outbox`, are bounded by the threshold and by the requests that can be in flight.
Symmetry is used over executions, requests and transactions only, in safety runs only.

**Fairness.** `DispatcherFairSpec` assumes weak fairness of `dispatch()` and of each
addition to the queue, of the worker that takes a job and starts or refuses it, of an
execution's next step (the event loop resumes it unless it died), of time, of
`FindUnknown` and the steps of a sweep (`setInterval` in `onApplicationBootstrap`), and
of the recovery of an expired attempt. Strong fairness is assumed of one step,
`SweepEscalates`: a sweep reaches an intent again and again and may throw at another
each time, but the process does not die in every run just before it escalates.
`FairSpec`, of the run `RecoveredUnknown`, is the same without the dispatcher, weak
throughout. Nothing makes anybody ask for an execution, makes the provider resolve an
operation, or makes an execution die. `IdempotencyFairSpec` assumes that the event loop
resumes a request whose query or client has come; nobody has to send a request, and
nothing makes a handler fail, a process die or time pass.

**Deadlock** is not checked: a system whose intents are all settled has nothing
left to do.

Every property of a passing run comes with a mutant of the code (PROJECT.json):
a plausible bug that makes TLC find that property violated under the same
configuration. The mutated forms stand next to what they replace.

## 4. The theorems

`ChargeExecutorProofs` proves `TypeCorrect`: `Spec => []TypeOK` for all constants
that satisfy the assumptions of the modules. Two results need no assumption about
time either, although an execution that stalled may overwrite what the sweeps wrote:

- `ToldOnce` (RF-22): `CancellationIsToldOnce` is inductive, because whoever makes an
  intent FAILED_FINAL cancels its subscription in the same transaction, and only if it
  is not cancelled yet;
- `SuccessNeedsConfirmation` (RF-15): `ConfirmedInvariant` adds that an execution or a
  sweep about to write SUCCEEDED was told so of the operation it writes it for
  (`WorkersConfirm`, `SweepConfirms`), and the provider does not go back on a charge
  (`ChargedStays`).

Assuming that executions do not stall, it proves
`OneEffectiveCharge` (INV-01), `NeverReopenedInDoubt` (RF-17), `TablesAgree` and
`OwnershipHolds` (INV-03, INV-07) for any number of intents, attempts and executions.
`AtMostOneEffectiveCharge` is not inductive. `ChargeInvariant` is, with these
conjuncts:

- `OperationsAreRecorded`: write-ahead, no operation without its row;
- `RowsInOrder`: the attempts of an intent are numbered without gaps;
- `OpenIsLast`: only the last operation may still be, or have been, accepted.
  INV-01 follows from it alone;
- `ReopenedOnlyAfterRejection`: this is what keeps `OpenIsLast` when a new row is
  inserted, because a start requires SCHEDULED or RETRY_PENDING;
- `InFlightAgrees`, `ExecutionOwnsAttempt`: a settlement finds the row it started,
  and the recovery sweep does not touch it;
- `ExecutionKnowsOutcome`: an execution about to settle decided from a verdict
  that still holds, because CHARGED and REJECTED are final;
- `UnknownIsLast`, `SweepIsCurrent`: the attempt the sweep asks about is the last
  one, and its list is not stale: nobody but the sweep moves an UNKNOWN intent,
  except to SUCCEEDED, which the conditions of the sweep's updates respect.

The proof has one lemma per group of actions and, in it, one step per conjunct
the group can disturb. TLC checks `ChargeInvariant` in `ChargeOnce`.

`BillingEngineProofs` begins with the reprocess requests (`ReprocessSpec`), assuming that
no execution stalls, no probe is stale and no manual attempt starts under the sweep's hands.
`ReprocessInvariant` adds `ProbeIsSound`: a request about to start a manual attempt
asked about an operation that is rejected, one about to close asked about one that
is charged. Both are final, so no step of anybody else takes them away
(`VerdictsPersist`). With the probe about the last attempt, `OpenIsLast` gives that
nothing of the intent is in doubt, and the manual attempt is a new attempt like an
automatic one (`NewAttemptInvariant`). `ReprocessOneEffectiveCharge` is INV-01 with
manual attempts. Neither assumption about requests can be dropped (section 3).

It then carries the results over to `EngineSpec` under the same
assumptions: lifecycle steps write only `OMITTED`, only over SCHEDULED or RETRY_PENDING
rows, and creation and the scheduler write only ABSENT rows (`SweptWrites`), so each keeps
`ReprocessInvariant` (`EngineChargeInvariant`), and with it INV-01 and RF-17. On top of it:

- `SuccessIsConfirmed`: by `ExecutionKnowsOutcome` and `ProbeIsSound`, who writes
  SUCCEEDED knows of a charged operation, and CHARGED is final;
- `IntentsFollowTheTable`: every step of an intent is one `transitions.constants.ts`
  lists; the settlement needs `ExecutionOwnsAttempt`, since it looks at no status;
- `EnginePaysOnce`: the engine implements `CyclePayments`. The step proof goes by what
  a step does to the set of charged operations (`EngineStepPayments`): money
  moves only while the record is pending, because an operation that may still be
  accepted is the last one of an intent that is not settled (`OpenIsLast`,
  `ReopenedOnlyAfterRejection`);
- `EngineOnlyMoves`: the engine implements `IntentMoves`. Reduced to their status, the rows
  commute with what omits them (`OmissionSeen`, `RequestOmissionSeen`), so a request is the
  same step on both sides (`CyclesSeen`, `LifecycleSeen`, `SweptSeen`); every other step writes
  the status of one intent (`OneRowSeen`), but for a final failure, which cancels (`SettlementSeen`).
  That a settlement finds its intent IN_FLIGHT is `ExecutionOwnsAttempt` again.

Four need none of the three assumptions, so they hold of stalled executions and stale
probes too: `CancellationsAreTold`, `SubscriptionsFollowTheTable` and
`OnlyLateRequestsTellAgain`, whose invariant `CancellationInvariant` relates what a
request loaded to the status of the subscription, and `AutomaticAttemptsAreNumbered`
(INV-10), where a new number is one more than the largest.

`DispatcherProofs` shows that a behaviour of the dispatcher, its queue and its worker is one
of `ChargeExecutor` (`JobsAreExecutions`), for any numbers of intents, executions and losses
and any batch size: the steps of the queue stutter and a job's are those of an execution.
INV-01 and RF-15 for jobs follow (`DispatchedOneEffectiveCharge`,
`DispatchedSuccessIsConfirmed`). `QueueHoldsOneJob` needs all three conjuncts of
`OneJobPerIntent` together: a job that is put back after a crash is not waiting, because it
was active. `DueAreInLine` is about the order of `next_attempt_at`: a step makes at most one
intent due (`OneIntentChanges`), and that one goes to the end of the line.

`BillingPlanProofs` proves, for any number of overlapping sweeps, lifecycle requests,
subscriptions and cycles and any calendar, `NoCycleLeftBehind` (RF-31),
`OverlapsFollowLiveCycles` (RF-14) and `CancelledFallsQuiet`. What a sweep read may be
stale in every other respect, but rows are never deleted and an OMITTED one stays so
(`RowsStay`), and that is enough: `SweepInvariant` says that a row seen is still there,
that one seen live was not inserted as omitted (`ReadingsHold`), and that a blocked loop
has a cycle behind it that was live (`BlockedByLive`). A cycle that is due today is the
last of its loop (`CurrentIsLast`), so it does not matter whether its insertion found
the row of somebody else. `StopAtFutureDay` rests on the business days of later cycles
not being earlier (`BusinessDayFacts`).

`BillingSystemProofs` puts the two halves together, for any number of sweeps, executions,
requests, subscriptions and cycles. A step of `BillingSystem` is a step of `BillingEngine`,
since a sweep that reaches a cycle without a row inserts it, omits it or leaves it alone
(`SchedulerIsReduced`). Seen by status only, it is a step of `BillingPlan` too: a sweep reads
of an attempt nothing but what it did to the status (`SchedulerSeen`), and what an attempt
does is a step of `IntentMoves` (`ServiceSeen` of `BillingEngineProofs`, `MovesOfThePlan`).
So the system implements both (`SystemKeepsBothViews`), under the three assumptions of
`BillingEngineProofs`, and what is proved of either holds of the whole: RF-31 and RF-14 with
attempts in full (`SystemSweepsWell`), INV-08 as far as the code keeps it
(`SystemFallsQuiet`) and the promise of `CyclePayments` with real sweeps (`SystemPaysOnce`).

`IdempotencyProofs` proves, for any number of keys and requests and any lease, window
and pool, `IdempotencyTypeCorrect`, `WindowsNeverOverlap` and `SettledRowsAreFinal`
without an assumption about time, so also for requests that outlive their lease.
`WindowsDoNotOverlap` holds although `now` is read before the row is locked, because
the comparison that opens a window and the expiry it writes use the same `now`.
Assuming that no request outlives its lease it proves `IdempotencyInvariant`, and
from it `OneExecutionAtATime`, `EffectsAreSettled` and the refinement
`KeyedRequestsKeepThePromise`. `OneExecution` is not inductive: what keeps a retake away
from a running holder is that the holder's row still carries the lease its own `now` gave
it (`HolderOwnsRow`) and that the clock has not passed it (`AwaitsWithinLease`). In
the refinement `Arrive` asks, `Register` opens a window, `Settle` performs, `Replay`
repeats and every other step stutters.

`RowLocksProofs` proves, for any number of transactions, intents and subscriptions,
`DecisionsAlwaysStand`, which is what lets every other module take a transaction for one
step, and `DeadlocksAreStarts`. Neither is inductive. `LocksInvariant` adds what a
transaction holds at each of its statements (`LocksInOrder`), that it writes only rows
it holds, from the statuses its kind allows (`WritesAreLocked`), that the one that
settles an intent finds it IN_FLIGHT and is alone (`SettlesAlone`), and that the rows an
omission has matched but not locked yet stay as it found them (`OmissionsStand`): who
writes such a row either had to find it in another status or holds the subscription,
which the omission holds. In a cycle (`CycleMember`) everybody holds something, so each
member is at a subscription with its intent or at an omission with its subscription.
The intent the omission waits for is then a start's, not a settlement's, because it is
not IN_FLIGHT, and the start waits for that very subscription (`OmissionInCycle`). So
no cycle has a third member, and the outcome of a charge is never the victim.

`CalendarProofs` proves the five invariants of the `Calendar` run for any anchors, numbers
of cycles, weekdays and holidays, and any years that hold the cycles:
`CyclesAdvanceAlways` (RF-25), `CurrentCycleAlways`, `NextCycleAlways` (RF-09),
`CalendarTypes` and `ChargedOnItsDayAlways` (RF-24). The last two assume something of the
holidays, as `BusinessDayWithin(span)`: that no date is further than `span` days from a
business day. `CalendarTypes` takes the lookahead of `nextBusinessDay`, 3660 days, beyond
which the code throws; `ChargedOnItsDayAlways` takes 6 days, because a weekly cycle that is
shifted by seven lands on its successor. The holidays of the run satisfy both
(`MCCalendar`). The walk itself needs little of an invariant (`CalendarIInv`: its days are
dates up to the last cycle); the work is in what the functions compute:

- induction: the library's theorems take the property as an operator, which no prover here
  can instantiate. `LeastElement` and `Induction` are about sets of numbers instead, from
  the well-foundedness of `<`;
- loops: `LoopIsUnique` says that a loop whose rank decreases computes one function. A
  closed form that satisfies the loop's equation is therefore what the recursive function
  computes (`NextBusinessDayFacts`, `SearchFacts`);
- dates: the strings are ordered like the days (`BeforeIsEarlier`), `DateOf` is the inverse
  of `DayNumber` (`DateOfDay`, `DayOfDate`), cycles that count months are at least four
  weeks apart (`MonthsApart`).

Only model-checked: liveness under fairness (`DueIsAttempted`, `InFlightEnds`,
`TimedUnknownIsResolved`; ENABLED is out of reach of the prover).

## 5. What is not modelled, and the plan

Left out for good: HTTP, validation, formatting, hashing, ISO 4217 tables, health
checks, read-only queries, the charges stub, the migration runner: pure
functions or I/O without state that these properties could tell apart. Left out of
`Idempotency` is the Redis lock, on which no decision depends; of `RowLocks`, waits on
unique indexes and executions that outlive their deadline, which may be the victim of
a deadlock; of `Dispatcher`, a second dispatcher process, which SKIP LOCKED
allows and whose picks the queue merges by job id.
