# A TLA+ model of webhook-notifier

The system accepts subscriber events over HTTP, stores one row per event and
webhook URL in PostgreSQL, and delivers the rows to customers' endpoints with
retries, fairly among customers. This directory models it in TLA+, checks the
models with TLC, and proves the central results with TLAPS. `PROJECT.json` lists
the components, runs, mutated definitions, findings, hazards and theorems, and
maps every definition to the source lines it stands for.

## The system and its models

```
POST /events ──> Ingest ──> rows in PostgreSQL (WorkQueue)
      └──────── Pipeline ───────┤ claim, FOR UPDATE SKIP LOCKED
                 ┌──────────────▼─────────────── one process (Notifier) ───┐
                 │ poller ─> RoundRobinScheduler ─> channel ─> workers     │
                 │            (seen as JobPool)          │  Deliver, retry │
                 └───────────────────────────────────────┼─────────────────┘
        outcome UPDATE (DeliveryLifecycle) <─────────────┘ (Delivery, Config)
   startup, failure and shutdown of a process: Runtime (seen as ProcessLife)
   tools: MockGenerator, MockReceiver, FairnessRun (benchmark runs)
```

| Module | Source | What it models |
|---|---|---|
| `RoundRobinScheduler` | `internal/scheduler/round_robin.go` | queues per customer, rotation, dispatcher goroutine, condition variable, output channel |
| `JobPool` | (abstract) | what the scheduler promises its users: jobs move from *scheduled* to *dispatched* to a worker, in one place at a time, within capacity |
| `WorkQueue` | `internal/workqueue/postgres.go` | the table and its statements |
| `Notifier` | `poller.go`, `worker*.go`, `runtime.go` in `internal/notifier` | several processes over one table, with crashes, restarts, shutdown and database errors |
| `DeliveryLifecycle` | (abstract) | the documented life of a row |
| `ProcessLife` | (abstract) | the life of one process: running, stopping, closed, down; jobs dispatched only while it runs, within capacity |
| `Runtime` | `cmd/notifier`, `app.go`, `runtime.go` | `main` and `NewApplication` step by step, goroutines of one process, `select` of `Run`, `shutdown`, the WaitGroup |
| `Ingest` | `handlers.go`, `internal/registration` | `POST /events` and `/events/batch` against a registry that changes |
| `Pipeline` | both sides of the table | `Notifier` with an instance of `Ingest`: from the request to the settled rows |
| `Config` | `internal/config/config.go` | environment variables to a configuration or an error |
| `Delivery` | `internal/delivery`, `internal/retry`, `worker*.go`, `metrics.go`, `GET /stats` | classification of answers and errors, backoff with the width of `time.Duration`, metrics, statistics and the list of dead letters under concurrent workers and reports |
| `MockReceiver` | `internal/mockreceiver` | webhook, config, reset and stats handlers |
| `MockGenerator` | `internal/mockgenerator` | generation handlers, `newEvent`, `publishEvents`, start and stop of the server |
| `FairnessRun` | `internal/notifier/benchmark_*.go`, `cmd/scheduler-benchmark` | the three benchmark runs over the real scheduler, and the verdict of the fairness report |
| `*Proofs` | | theorems: `SchedulerProofs` (scheduler, and fairness of the benchmark runs), `ReportProofs` (what the runs report), `NotifierProofs` (with `Pipeline`), `IngestProofs`, `RuntimeProofs`, `DeliveryProofs`, `ReceiverProofs`, `GeneratorProofs` |
| `MC*` | | small instances for TLC |

### Correspondence

- **RoundRobinScheduler.** A section under `scheduler.mutex` is one action, with
  one exception: `waitForNextJob` finds no job (`FindNothing`) and only then
  waits (`ConditionWait`). The mutex is held in between, but the goroutine of
  line 32 broadcasts without it, so its `WatcherBroadcast` can fall in between.
- **Notifier.** `jobs[n][p]` is the set of jobs of process `n` at place `p`
  (batch, scheduled, dispatched, requesting, answering). A claim is two steps:
  `BeginClaim` locks rows, `CommitClaim` updates them and returns the batch.
  Workers are counted. Outcome updates compare neither owner nor status, as in
  the code. The scheduler is represented by `JobPool`'s moves, which
  `RoundRobinScheduler` is shown to implement.
- **Runtime.** Every call of `main` and `NewApplication` that can fail is a step
  of `main`; a failure exits with what was opened left open. The `WaitGroup`
  passed to `shutdown` by value is a second variable, `waitedGroup`, copied at
  the call. `Runtime` and each process of `Notifier` implement `ProcessLife`, so
  the coarse process of `Notifier` is not an invention.
- **Ingest.** One action per statement of `enqueueEvents`: resolve, count,
  insert. Events of a batch are stored one by one.
- **Pipeline.** `EnqueueDeliveries` of `Ingest` and of `WorkQueue` are one step;
  `origin` remembers which request, event and URL a row is for. A claim may find
  the rows of the first event while the handler is at the second. A handler does
  not end with a process, so `Pipeline` is for faults that end none.
- **Config, Delivery.** An environment is a function from the variables that are
  set to raw values: blank, number, duration or other text. A worker's attempt is
  cut at every shared counter: the metrics of `recordDeliveryMetrics`, the
  statistics, the dead-letter counter, its metric, and the list with the UPDATE.
  `GET /stats` loads its counters one by one. Every transport error reaches
  `isRetryableTransportError` wrapped in `*url.Error`, which satisfies
  `net.Error`; the model keeps that.
- **MockReceiver, MockGenerator.** Every access to a shared counter, map, mutex
  or random source is a step. Overlapping unsynchronised draws may return
  numbers or panic.
- **FairnessRun.** EXTENDS `RoundRobinScheduler` and supplies its users in three
  modes: *app* (real poller and workers, in-memory queue), *scheduler* (the
  command's own workers) and *throughput* (main enqueues and receives). A poll
  that claims nothing changes nothing and is not a step. Batches and scenarios are
  sorted by job ID, so `claimed`, the jobs a loop has still to enqueue, is a set
  whose least member goes next.

Identifiers, payloads, messages, metrics labels and logs are abstracted. Variables
commented as *history* record the past for a property and influence no step.

## Runs

| Run | Shows | Instance |
|---|---|---|
| `scheduler` | rotation, depth counter, round-robin bound, refinement of `JobPool`, no starvation, `Close` ends the dispatcher | 4 jobs, 3 customers, channel of 1 |
| `scheduler_cancel` (violation) | cancellation alone may leave the channel open: the broadcast is lost | same |
| `notifier_safety` | claim exclusivity, no stale job, bounded receipts, completed rows were received, refinement of `DeliveryLifecycle` and of `ProcessLife` | 2 processes, 2 rows, 1 retry, any 2 faults; 84,034 states |
| `pipeline` | every request is answered and the rows of an accepted one settle, dead letters are earned, claimed rows have a job, the scheduled queue passes its limit by less than a batch | 1 process, 1 request of 3 events, 1 retry, 1 database error; 330,788 states |
| `notifier_crash` (violation) | one crash leaves a claimed row that is never delivered | 2 processes, 2 rows, 1 crash |
| `runtime` | a nil return is a complete shutdown, handlers keep the database unless the drain timed out, failures end `Run`, refinement of `ProcessLife` | 3 workers, 2 requests, all failures, startup included; 82,461 states |
| `runtime_hang` (violation) | a signal need not end the process: `Wait` is on a copy | 2 workers, no requests, no failures |
| `ingest` | 202 means all stored, rows are as resolved, the counter covers what is stored | 2 requests, 2 registry changes, 2 database errors; 216,288 states |
| `delivery` | transient failures are retried, delays double until they wrap, an error's text never decides, metrics and statistics agree, reports account for failures | 2 deliveries, 7 environments, 7 status codes, 13-bit durations; 1,907,769 states |
| `receiver` | every webhook counted once, in the totals and in its customer's record, apart from overlaps with a reset; a report covers what was answered before it | 2 webhooks of one customer, a second customer without any, 1 reset, 1 report |
| `generator` | sequence numbers dealt once, 202 means the ordered batch is stored, waiting for ever needs a race in a mixed scenario, a signal ends the server even then | 2 requests, every kind of order; 68,540 states |
| `benchmark` | every mode returns, its summary is final, the verdict is sound, a job's start is delayed by a fixed bound however large the whale | 5 jobs (most of a whale), 2 workers, 3 modes; 199,565 states |

**Why the bounds are enough to be interesting.** Two processes are what a claim
race needs; two rows let them hold different rows and contend for one; two
faults allow a crash during the recovery from another. Three rows against a
scheduled limit of one and a batch of two overrun the limit, and three events
let rows be claimed, settled and stored at the same time. Three customers let
one join while another is being scanned; the whale's jobs outnumber channel plus
dispatcher, so a scheduler that is not fair breaks `StartIsFair`. Durations of
13 bits wrap within the retries that are explored. Two deliveries overlap at
every pair of counter updates, with a report between them. `MaxFaults`,
`MaxUrlsPerEvent`, `MaxRequests`, `MaxRegistryChanges` and `MaxDatabaseErrors`
are bounds of the model, not of the code. Symmetry (of the processes, of the
deliveries) is used only in `notifier_safety` and `delivery`, which have no
liveness property.

Deadlock is checked in `delivery`, where a report can always be asked for. The
other systems may come to rest, when all rows or requests are settled or the
process has ended; that nothing rests too early is what the liveness properties
say.

**Fairness.** Weak fairness for each goroutine: the Go runtime runs what is
runnable. A worker in `Deliver` gets a result at the latest at the client
timeout. Ended processes are restarted (assumed of the operator). Go mutexes
hand over to a long waiter, hence strong fairness of `LockGenerationState`.
Nothing is assumed of events, signals, endpoints or faults.

## What the code does differently from what is said of it

Each is a run marked *violation*, with the quoted line in `PROJECT.json`:

1. A lost wake-up in `Start`: cancelling the context need not close the output
   channel. `Run` also calls `Close`, which always does (`CloseClosesOutput`).
2. Rows claimed by a process that ends are never claimed again, so delivery is
   not at-least-once across crashes.
3. `shutdown` waits on a copy of the WaitGroup and may never return.

Further behaviours the models contain, which a reader should know of:

- With `FaultKinds = {"stop"}`, `DeadLettersAreEarned` fails: a shutdown
  dead-letters requests in flight with retries left.
- With `FaultKinds = {"update"}`, `ClaimedHasJob` fails: an outcome that could
  not be written is only logged.
- After a signal the `select` of `Run` may take the poller's context error
  before `Done`, and `Run` returns an error without `shutdown`.
- A refused connection is permanent: the substring tests of
  `isRetryableTransportError` are not reached for errors of `Do`
  (`TextNeverDecides`).
- The received-events counter moves before the insert, so it covers the stored
  events (`CounterCoversStored`) but can be ahead of them.
- A benchmark customer's finish time can be older than other completions of that
  customer; its first-finish time is off by fewer than the number of workers. The
  verdict of a report in app mode inherits that, so `VerdictIsSound` is stated for
  scheduler mode, which reads the clock under its mutex.
- A panic in an overlapping draw leaves the mutex of the mock generator locked.
- `LoadNotifierConfig` checks no range. A zero poll or report interval panics in
  `NewTicker`; with no workers nothing is ever delivered.

## What is proved

Every theorem is for all values of the constants that satisfy the named
assumption of the module that declares them. The assumptions are types, sizes
(what is counted is finite: rows, webhooks, requests) and facts about the
literals the code uses. Each theorem rests on an inductive invariant `IInv`, one
lemma per kind of step. Leaves go to Zenon by default, and to the SMT solver where
they need arithmetic, records or sequences. All safety properties of the passing
runs, invariants, action properties and refinements, are theorems.

**SchedulerProofs** (`RotationIsSound`, `DepthIsTrue`, `RoundRobinFairness`,
`PoolRefinement`). `BoundedBypass` is not inductive: it does not say where the
pointer is. `BypassIsPaid` does: the times a waiting customer was passed
over, plus its distance from the pointer, stay below the length of the rotation.
A dispatch that passes it over shortens the distance by at least one, and a new
customer lengthens both sides by at most one. `OnePlace` keeps a job in one queue, hand or
channel slot, which gives the refinement; `DepthIsExact` relates the counter to
the queues.

Its second part is about the benchmark runs (`RunsUseScheduler`,
`StartFairness`). A run is a behaviour of the scheduler, so the above holds in it.
`RunInv` says where every job is: pending, still to be enqueued, in the scheduler,
with one worker, or done, in step with the WaitGroup and with where `main` is.
`StartIsFair` counts the jobs of others that start while a job waits; `FairInv`
bounds that count, plus the jobs of others already between the queues and the
workers, at every place of the way. In its customer's queue, a job at position `p`
may have been overtaken by what the channel and the dispatcher held when it came,
by one job of every other customer for each of its customer's jobs that has been
served, and by the `bypassed` of the current round. When the dispatcher serves the
customer, `BoundedBypass` says that the round cost at most one job per other
customer, and every job of the queue moves up one position, which pays for it.

**ReportProofs** (`ReportIsFinal`, `FirstFinishBound`, `VerdictIsRight`).
`SummaryCounts` says that the counts are those of the jobs whose worker has called
`onCompletion`, and that the early completions are the first of them, up to the
window; when the run returns, `RunInv` makes that all jobs. The sum of the early
counts is the size of a disjoint union (`CountedOut`), which needs no induction.
`SummaryTimes` relates the times to the clock readings of the customer: until its
first completion is recorded all its readings are held by workers between the
clock and the mutex, so fewer than all workers can hold an earlier one. In
scheduler mode there is no such worker, every recorded finish is the latest
reading of its customer, and the comparison of finish times is the comparison of
all completions.

**NotifierProofs** (`TypeCorrect`, `ClaimExclusivity`, `JobsStayCurrent`,
`CompletionIsReal`, `DeliveryBounds`, `LifecycleRefinement`). `JobsAreCurrent` (a job's row is
claimed by the job's process, at the job's attempt) gives exclusivity *across*
processes, because `claim_owner` is one value, but it is not inductive: a second
job for the row in the same process, or another process's lock on it, would let
the row change under its holder. `IInv` adds `OnePlace` (a process has a row's
job at one place only), `LocksAreExclusive` (a lock is on a pending row and held
by one process), and `ReceiptsFollowRetries` (receipts never exceed
`retry_count`, plus one while an answer is awaited). The refinement follows
because a live job's row is claimed, which is the guard the UPDATE statements
lack.

Its second part (`ProcessesLive`, `EarnedDeadLetters`, `ClaimsAreHeld`,
`BackPressure`) is about the life of a process. The first maps each process to `ProcessLife`; claim exclusivity is what makes the
counts of its jobs move by one. The next two need an assumption on the faults,
without which the properties fail (above): no shutdown (`"stop" \notin FaultKinds`)
for dead letters, no fault at all for claims. `BackPressure` bounds the scheduled
queue: its invariant follows the limit from the comparison of the poller, over
the two steps of the claim, to the last `Enqueue` of the batch, and rests on
`LIMIT` selecting at most that many of any finite set of rows.

Its third part is about the composition (`PipelineHandlers`, `PipelineProcesses`,
`PipelineIsSafe`). The handlers of `Pipeline` implement `Ingest`. Its processes
implement `Notifier` if no fault ends one (`FaultKinds` at most `{"update"}`) and there
is one: to them a handler's transaction is `Accept`, because an event that is
stored has at least one URL, and no more than `MaxUrlsPerEvent`
(`HandlersTypeOK`). So the invariants the `pipeline` run checks hold for any
number of requests, events, URLs and processes.

**IngestProofs** (`AcceptanceIsTruthful`, `StorageIsAtomic`, `CounterIsAhead`).
A handler writes only rows of its own request, so `IInv` is one predicate per
request, `Progress`: what is stored, counted and answered at each point of
`enqueueEvents`. `CountIsExact` relates the shared counter to all requests.

**RuntimeProofs** (`ShutdownIsComplete`, `HandlersAreServed`, `LifeRefinement`).
`Unstarted` says what is open during startup, `Order` what is closed, cancelled
and drained at each point of `Run` and `shutdown`, and `Group` that the live counter of the
WaitGroup is the number of workers left and that a copy of zero was made when none
was. So `Wait` on the copy, if it returns, returns rightly.

**DeliveryProofs** (`MetricsMatchStats`, `ReportsAreComplete`,
`RetriesAreExhausted`, `MethodsDecide`, `BackoffIsExponential`). `Sums` says by how many deliveries, in
which state, each pair of counters differs; `Read` says the same of a report that
has loaded some of its counters, whose later loads can only be larger. `Earned`
adds that the configured number of retries is the loaded one and that a delivery
on its way to the dead letters may not be retried. `NextDelay` is a loop, so the
last theorem needs induction: every delay before one that fits a `time.Duration`
fits too, so the multiplications up to it are exact.

**ReceiverProofs** (`WebhooksAreCountedOnce`, `ReportsCoverAnswered`). Between
resets `CountedOnce` says enough; during one it says nothing, and several resets
may be under way. `Counting` therefore relates each counter to the webhooks as
soon as no reset that has begun has still to clear it, which is a different moment
for each counter. `Covered` says of a report what its numbers owe after each read:
an outcome is counted in one of two counters that are read at different times, so
until the second is read it is the sum of a number read and a live one.

**GeneratorProofs** (`NumbersAreShared`, `AcceptedBatches`,
`OnlyMixedOrdersRace`). `Planned` is one predicate per request: what was made
followed by what is still to be made is the plan of the order, or, for a mixed
order, the events of the customers whose count was drawn. The plan is the
flattening of one list per customer, so `AcceptedBatches` needs what appending a
list does to it, by induction. `Exclusion` (who is in `newEvent` holds the mutex)
gives the third: of two overlapping draws one is outside the mutex.

**Induction.** The library's induction theorems take an operator, which the
provers cannot instantiate. `SetInduction`, in `DeliveryProofs` and in
`GeneratorProofs`, states induction for a *set* of numbers and derives it from the
well-foundedness of `<`; the powers of two come from counting subsets.

**Only model-checked.** Liveness (`NoJobStarves`, `CloseClosesOutput`,
`EveryRequestSettles`, `FailureEndsRun`, `ShutdownWithoutWorkersReturns`,
`StuckOnlyAfterRace`, `SignalEndsServer`, `ScenarioReturns`): fairness and ENABLED
are outside the prover. That includes the one liveness property of the
composition: `PipelineHandlers` and `PipelineProcesses` are about its steps, not
about its fairness.

## Not modelled

- The text, HTML and console output, the options, scenario tables and averages of
  `cmd/scheduler-benchmark`: sequential formatting without state.
- The periodic metrics reporter: it sets gauges from reads, and nothing in the
  system reads a gauge. Its ticker's panic is `StartsUp` of `Config`.
- `GET /health`, `/registrations`, `/dlq` and the receiver's
  `/stats/customer/{customerId}`: each returns one read.
- `Run` of the mock receiver: the same code as that of the mock generator, which
  is modelled. Configurations of the two mock servers.
- `EnsureSchema`: its result is the initial table; its failure is in `Runtime`.
- `internal/testsupport` (starts a container for tests) and logging.
- `syntheticDeliverySink`, which the benchmark's workers write without
  synchronisation and nothing reads.
