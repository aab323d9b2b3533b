# A verification project for eks-financial-orchestrator

TLA+ modules that model the EKS financial orchestrator, its control plane, its
cost collection, forecasts, alerts, instance management, database, audit log and
REST API; TLC configurations that check them on small instances; and TLAPS
proofs of nearly all safety properties for every instance. `PROJECT.json` lists components,
runs, mutants, the line-by-line map to the source, findings, hazards and
theorems; this file explains them.

    tlc -config versions.cfg MCControlPlane      # and so on, see "Runs"
    tlapm ControlPlaneProofs.tla                 # and so on, see "Proofs"

## 1. Inventory of the system

One Go process (`main.go`) runs two controllers on the same custom resource,
`FinancialPolicy`. Around them are packages that collect cost, forecast, send
alerts, optimise the instance mix, write an audit log and serve a REST API.

| Component | State it keeps | Operations | Talks to |
|---|---|---|---|
| `api/v1alpha1` | the CRs: spec with a version, version-history annotation, status | - | API server |
| `policy/validate.go` | none | `ValidateFinancialPolicy` | - |
| `policy/manager.go` (PolicyManager) | none; all in the CRs | `ApplyPolicy`, `RollbackPolicy`, reads | API server through the cached client |
| `policy/controller.go` (PolicyReconciler) | status.phase and the condition Valid | `Reconcile` | work queue, API server |
| `orchestrator/controller.go` (OrchestratorReconciler) | status.currentCost, budgetUsagePercent, lastEvaluated | `Reconcile` | cost store, alert manager, instance manager, audit writer, API server |
| `instance/manager.go` | none | analyse, recommend, apply (simulated), handle Spot interruption | Kubernetes nodes and pods |
| `alerting` | channels, silence windows | `SendAlert`, `ConfigureChannel`, `SetSilenceWindows`, `CheckAnomalies` | senders |
| `collector` | table `cost_records`, cost cache | scheduler cycle, fetch with retries, correlate, allocate, store, query | Kubernetes, AWS, TimescaleDB |
| `forecast` | the stored forecast | `GenerateForecast`, `DetectSeasonality`, `CheckThresholds`, scheduler | daily costs, forecast store |
| `db`, `migrations` | the schema | `NewDB`, `RunMigrations` | TimescaleDB |
| `audit` | table `audit_log`, structured log | `WriteEntry`, `QueryEntries` | TimescaleDB |
| `api` | none | REST handlers with roles | cost store, policy manager, audit writer |
| `metrics` | gauges | export | Prometheus |

Interaction is through the CRs: the PolicyManager and the users change specs;
both reconcilers are woken by every change, of the status too, read from the
informer cache, and send the *whole* status back. The orchestrator calls the
alert manager, the instance manager and the audit writer synchronously from its
only worker. Collector, orchestrator, forecaster and REST API meet in the table
`cost_records`, which exists once the migrations have run. `main.go` wires the two
reconcilers only: nothing in the repository calls `RunMigrations`, `NewServer`,
`NewForecastScheduler` or `HandleSpotInterruption`, so those packages are modelled
from their own code and interfaces.

What is hard:

* **concurrency**: three writers of one status, several PolicyManager callers
  and users, all working on copies that the cache may have outdated;
* **failure**: conflicts, requests lost before or after they took effect, a
  rollback in two writes, crashes that empty the queues and the cost cache;
* **ordering**: alerts and audit entries come before the status update, which
  may have to be repeated;
* **progress**: a policy in phase Error is dropped by the orchestrator and must
  come back; a retrying alert blocks the worker; a failed collection cycle must
  be followed by the next, and so must a failed forecast; a node must be drained
  although evictions are refused;
* **two reads that belong together**: usage and labels of pods, a time range and
  the rows in it, a list of pods and their eviction by name;
* **limits**: the history at ten entries, percentages at 0 and 100, the last
  retry, usage of zero, the end of a season, the limit of an audit query.

What makes each component correct: the version line of a policy is unbroken and
no publish is lost; a verdict is about the stored spec; neither reconciler
undoes the other; status becomes true and stays so; a recommendation respects
every policy; an alert reaches every channel it can; stored cost that is not
fresh is marked; a cycle neither loses nor doubles cost; a forecast is replaced
only by a valid one; an interrupted node is drained and nothing else; a migration
is applied as a whole or not at all; answers are of stored rows.

`PROJECT.json` lists these hazards at the lines where they bite.

## 2. Modules

| Module | Models | Lines of code |
|---|---|---|
| `PolicyValidation` | the nine validation rules | `policy/validate.go` |
| `PolicyStore` | API server, informer cache, work queues (external), the CR | `financialpolicy_types.go`, `main.go` |
| `PolicyManager` | `ApplyPolicy`, `RollbackPolicy` | `policy/manager.go` |
| `PolicyReconciler` | `Reconcile` | `policy/controller.go` |
| `Orchestrator` | `Reconcile` and the functions it calls | `orchestrator/controller.go` |
| `ControlPlane` | the composition of the four, users, cost, restart; the properties | |
| `VersionedPolicy` | abstract specification of the PolicyManager | |
| `InstanceMix` | `AnalyzeInstanceMix`, `GenerateRecommendation` | `instance/manager.go` |
| `Alerting` | `SendAlert`, `sendWithRetry`, configuration | `alerting/manager.go`, `retry.go` |
| `CostPipeline` | scheduler, fetch with retries, cache, store, query | `collector/scheduler.go`, `collector.go`, `aws.go`, `backoff.go`, `cache.go`, `store.go` |
| `CostAllocation` | lists of pods, correlation, shared cost, rows | `collector/collector.go`, `correlate.go`, `shared_costs.go`, `store.go` |
| `Forecasting` | forecast scheduler, Holt-Winters, thresholds, seasonality | `forecast/scheduler.go`, `holtwinters.go`, `forecaster.go` |
| `SpotInterruption` | `HandleSpotInterruption` | `instance/manager.go` |
| `Database` | `NewDB`, `RunMigrations`, the SQL files | `db/db.go`, `migrations/` |
| `AuditLog` | `WriteEntry`, `QueryEntries`, on top of `Database` | `audit/writer.go` |
| `ApiServer` | routes, roles, handlers; composes `Database` and `AuditLog` | `api/server.go`, `middleware.go`, `collector/store.go` |
| `MCControlPlane`, `MCInstanceManager`, `MCCostPipeline`, `MCCostAllocation`, `MCForecasting`, `MCApiServer` | values of constants for TLC | |
| `ControlPlaneProofs`, `AlertingProofs`, `CostPipelineProofs`, `CostAllocationProofs`, `ForecastingProofs`, `ApiServerProofs` | theorems and proofs about the module of that name and those it is made of | |
| `InstanceManagerProofs` | theorems and proofs about `InstanceMix` and `SpotInterruption` | |
| `SumTheorems` | lemmas about sums and products over finite sets, for the last three of the first row | |

Operators marked "Faulty variant" are not part of the models: each is what a
plausible bug would make of the definition that follows it, and shows that the
property listed for it in `PROJECT.json` notices.

### The control plane

`store` holds one object per namespace (all policies have one name, so that
`findPolicyByName`, which searches all namespaces, can meet several), `cache`
the informer's copy, `queue` the namespaces each controller still has to
reconcile, `pc` and `copy` where each client is in its handler and the object it
holds. A resource version is only compared with the stored one, so each copy
carries one bit, `cur`; a commit clears it everywhere else.

* An update is accepted only from a current copy. `Update` leaves the status as
  stored and `Status().Update` leaves the rest (the CRD has the status
  subresource). A status update that changes nothing is no write and no event;
  timestamps have one-second precision, so whether they change (`moved`) is a
  free choice.
* `ApplyPolicy` is `ApplyStart` (validate, read) and `ApplyCommit` or
  `CallFails`. `RollbackPolicy` is `RollbackStart`, `RollbackCommit`,
  `RollbackStatus` or `CallFails`. After the first write the response is decoded
  over the object in memory (`DecodedPhase`): this is why the phase RolledBack
  is lost.
* A write whose answer is lost takes effect and ends the call with an error.
* `PolicyReconciler` is a read and a write. The orchestrator is a read, a cost
  query, the breach action, the optimisation and a write; `effects` records what
  the running reconcile has done (an audit effect is an attempted entry).
  Collaborators may be nil (`Wired`) and fail.
* `Restart` empties everything in memory; the successor lists all policies.

Users create, edit and delete; they are assumed not to write spec.version or the
history annotation themselves. The cache jumps to the newest object, which only
removes intermediate reads. `GetActivePolicy`, `ListPolicies` and
`GetPolicyHistory` change nothing and have no action.

### The instance mix

The loop over the policies is one step per policy, then one for the
recommendation. Shares are exact: percentages times the number of nodes, so that
no rounding enters (floating-point error is not modelled). The orchestrator
passes one policy; the interface takes a list, and so does the model.

### Alerting

One `SendAlert` at a time (one worker, no lock in the code), a `Send` that may
fail before or after the notification got through, a context that may be
cancelled. The senders in the repository are stubs that never fail; the model
follows the interface `NotificationSender` instead.

### The cost pipeline

The clock counts five-minute intervals and may tick at any step, also while a
cycle is waiting; the ticker's channel holds one tick. The rows of a cycle are
one record with the day whose cost they hold, and the cycle that fetched it.
That the pods' rows add up to the fetched cost is what `CostAllocation` shows
(`StoredAddsUp`).

### Cost allocation

One cycle between the fetch and the store. The usage of the pods is listed first
and their labels second, so a pod that ends in between (`PodGone`) has usage and
no labels. Every amount is an integer number of units and `costs.unit` of them
make one dollar; the allocation rescales all amounts, so division is exact. A
namespace list that fails leaves only the well-known names as shared
(`AllocateSharedCosts(FALSE)`). The node metrics are read by nothing afterwards;
only their failure is modelled.

### Forecasting

The scheduler is modelled step by step: read, generate, smooth (one step per day of
data), store; each may fail, and a restart may come at any point. Level, trend and
seasonal components are integer numerators over a common denominator that each
smoothing step multiplies by 100, so Holt-Winters with its parameters 0.3, 0.1, 0.3
is exact. Records are in the order of their days, so the last `HistoryDays` days are
an end of the sequence. A coefficient of variation is compared with 0.05 by
squaring. The season has the length `defaultSeasonLength`, 7 in the code.

### Spot interruption

Pods have a name and a UID; the eviction names only the former. Two calls may
handle notices for the same node or for two nodes, while pods end, a StatefulSet
creates the same name again, on either node, and evictions fail.

### Database, audit log and REST API

`Database` executes the four SQL files statement by statement; a file is one
transaction, because a batch without parameters is sent as one simple query.
`CREATE TABLE IF NOT EXISTS` may be repeated, everything else fails when its
object exists. A process may fail or crash between any two statements.
`AuditLog` adds callers of `WriteEntry`: an entry is logged first and inserted later,
possibly out of order or not at all. An entry without a time is logged without one,
and its row gets the time in a step after that (`TakeTime`). A caller calls once, so
a row's actor tells whose it is. `ApiServer` adds requests, in two steps (routing, role and
parameters; query and answer), and cost rows that arrive between the two.

## 3. Runs

| Run | Instance | Shows |
|---|---|---|
| `versions` | 1 namespace, 2 symmetric callers, policy reconciler, history of 2, 3 specs, edits | `HistoryContiguous`, `VersionCountsPublishes`, and that the control plane implements `VersionedPolicy` |
| `control_plane` | 1 namespace, 1 caller, both reconcilers, all collaborators, 3 specs | `TypeOK`, `PhaseAgreesWithCondition`, `VerdictIsOfStoredSpec`, `NoStatusLost`, `ReportedBreachWasActedOn`, `ErrorIsNotEvaluated` |
| `liveness` | both reconcilers, 2 edits, 1 crash | `EventuallyJudged`, `EventuallyEvaluated` |
| `instance_manager` | `InstanceMix` with 0..2 nodes of four kinds, up to 2 policies, limits 0, 30, 70, 100; `SpotInterruption` with 2 nodes, 2 calls, one pod name of each kind, each name used up to twice | `RespectsEveryPolicy`, `MaximizesSpot`, `NodeIsDrained`, `DisruptionIsBounded`, `HandlerReturns` |
| `alerting` | 2 channels, 3 retries, cancellation at any time | `EveryChannelTried`, `GivesUpLast`, `WaitIsBounded`, `CallReturns` |
| `cost_pipeline` | 3 intervals, days of 2, ttl 2, 1 retry, 1 restart | `ApproximateIsMarked`, `FallbackIsNewest`, `KeepsCollecting` |
| `cost_allocation` | clusters of up to 3 pods in 4 namespaces (system, shared by label, 2 others), 1 pod that goes between the lists, cost 0 and 1 | `CostIsConserved`, `TeamsAddUp`, `SharesFollowDirect`, `StoredAddsUp` |
| `forecasts` | season 2, month 3, history of 5 of up to 6 days with gaps, costs 0..2, horizons 2, 4, 5 | `PeriodicIsContinued`, `BreachesAreUpwardClosed`, `PatternsAreReal`, `OnlyValidOverwrites`, `KeepsForecasting` |
| `api_server` | 2 migrating processes, 2 audit entries, with a time or without, and a limit of 1, up to 2 cost rows in 2 namespaces, days of 2 ticks, 1 request of 13 | `MigrationIsAtomic`, `MigratedMeansComplete`, `AuditTrailIsTrue`, `CostAnswersAreTrue` |

Why the bounds are enough to be interesting: a policy a user created (version 0) and
three publishes overflow the history of two in `versions`, two callers race, and an
edit by a user falls between a read and a write. The specs differ in limit, mode,
thresholds and breach action, and one is invalid though the CRD schema admits it:
its limit is zero, and the orchestrator may evaluate it before the verdict. One
namespace is enough for everything but `findPolicyByName`; the theorems hold for any
number. In `instance_manager` the limits hit both ends and sums below, at and above
100, both calls meet on one node, and a listed pod is replaced on either node before
its eviction. The manager has no state of its own, so neither part changes anything
for the other: the behaviours of the run are those of `InstanceMix`, the other's
variables at rest, and those of `SpotInterruption`. In `cost_pipeline` a day ends
and a cache entry expires within the horizon. In `cost_allocation` each of the
totals of CPU and memory is zero or not, and so are recipients, their direct cost
and shared cost. In `forecasts` a history has two complete seasons and more, costs
fall fast enough for negative days, and old records leave the window. In
`api_server` one process starts while the other is at any statement, or after it
crashed, so it stands for a restart as well. An answer is from one table at most,
and the steps on one table are not changed by the other, so `OwnTable` leaves out
the audit steps unless the request asks for the audit log, and the cost rows unless
it asks for cost: an action constraint, which the theorems do not have. Processes,
actors and namespaces are symmetric; the requests name each actor and namespace in
turn. `CHECK_DEADLOCK FALSE` is set because every model stops when its budget of
edits, alerts, intervals or starts is used up, or, in `cost_allocation`, when its
one cycle is over.

**Fairness.** `liveness` assumes: the watch delivers (WF), a queued namespace
is not passed over for ever (SF: the work queue is first in first out with
delays), handlers go on (WF), a request repeated for ever succeeds at some time
(SF), and, of the reads of a reconcile that is retried for ever, some find the
cache up to date. The last is what the growing delays of the rate limiter give:
without it two reconcilers could conflict for ever. It also assumes that of
infinitely many status writes some fall into the second of the one before, so
that they change nothing; without it the two reconcilers wake each other for
ever (each write has a new timestamp), which is harmless to the truth of the
status. `alerting`, `cost_pipeline`, `forecasts` and `instance_manager` assume
only that calls return, with or without an error, and timers fire.

Runs that end in a counterexample, each about a sentence of the repository:

| Run | The repository says | The code does |
|---|---|---|
| `rollback_phase` | RollbackPolicy "sets the status phase to RolledBack" (`policy/manager.go:224`) | stores the old phase again, unless there was none |
| `month_to_date` | "current month-to-date cost" (`orchestrator/controller.go:76`) | yesterday's cost is counted once per cycle |
| `unallocated_team` | the team without a name has a direct cost of "100.0 from orphan-ns + 50.0 from kube-system (also no team)" (`collector/shared_costs_test.go:345`) | 100: the rebuilt teams are those of the namespaces that take shared cost |

The last has the test's two namespaces. Were the test right, the team would pay
150 directly and 50 indirectly of a cluster that costs 150, so `TeamsAddUp`, which
the code satisfies, contradicts the test. `correlateAndAggregate` calls the team of a
pod without a label "unknown"; the test builds its costs by hand and leaves the team
empty, which `allocateSharedCosts` turns into "unallocated". That branch is not
reached from the collector and not modelled.

Observed while reading, without a run:

* Orchestrator: a failed optimisation is said to switch "the policy to advisory
  mode" (`orchestrator/controller.go:313`), and the mode never changes; an unknown
  breach action is said to be "defaulting to alert" (`:212`), and no alert is sent;
  the breach action runs at any alert threshold, not only when the budget is
  exceeded (`financialpolicy_types.go:49`, `orchestrator/controller.go:98`).
* Alerting: "a silence window for the namespace" (`alerting/manager.go:59`) silences
  every namespace; channels and windows are configured by nobody.
* Instance mix: a `MaxSpotPercent` of zero means no maximum
  (`financialpolicy_types.go:63`, `instance/manager.go:185`); a cluster that violates
  a policy is corrected only if that saves money; node labels are read in
  different orders by `classifyNode` and `detectPurchaseOption`. The Spot handler
  does not cordon the node and names no UID, so it may evict a replacement that
  already runs elsewhere; `DisruptionIsBounded` says how far that goes.
* Collector: "the team with the most cost wins (resolved below)"
  (`collector/correlate.go:75`), but the first pod's team stays; a cluster without
  pods drops the whole cost; the summary row for a namespace without pods is
  never reached; stored rows do not contain shared cost.
* Forecast: records are counted as days, so records of several namespaces, one per
  day and namespace, are taken for consecutive days; a weekday without records
  counts as a day without cost; a forecast breaches strictly above a threshold,
  the orchestrator at it.
* Audit log: an entry without a time has the zero time in the structured log and the
  time of its insert in the table (`audit/writer.go:38` and `:56`), so the two cannot be
  joined by time; `AuditTrailIsTrue` says what still holds.
* Database: every file creates something unconditionally, so a second run of
  `RunMigrations` fails at its first file, and a migration that was interrupted
  between two files is never completed.
* REST API: "requests without a valid role header are treated as viewer"
  (`api/middleware.go:33`), but an unknown role is denied; `/costs/teams/{team}`
  returns every team's cost; the range of a GET may be reversed and is then empty.
* `main.go` registers two controllers of the same default name and leaves
  `CostStore` nil. The metrics exporter resets its gauges before it sets them.

## 4. Proofs

The proof modules prove safety for every value of the constants. The assumptions
are named in the modules and are what the code gives: the sets of namespaces,
specs, costs and nodes are not empty, lengths, limits and bounds are natural
numbers, names of different kinds differ, percentages are in 0..100 (validation).
TLC evaluates them in the runs. A charge of AWS may be any integer
(`AmountsAreInt`): credits make it negative. The run `cost_allocation` has 0 and
1 only; the theorems cover the rest. Two assumptions are about forecasts only: the
season has more than one day (`SeasonHasDays`; it has 7), since a season of one day
has no weekly pattern, and a day's cost is not negative (`AmountsAreNat`), since
`GenerateForecast` counts a negative day as zero and a negative season is not
continued.

Every inductive invariant was checked with TLC, on the instance of the run named
after the component, before it was proved.

| Module | Theorem | Property |
|---|---|---|
| `ControlPlaneProofs` | `TypeCorrect`, `HistoryIsContiguous`, `NoPublishLost`, `StatusIsConsistent` | `TypeOK`, `HistoryContiguous`, `VersionCountsPublishes`, `PhaseAgreesWithCondition` |
| | `VerdictsAreOfStoredSpec`, `StatusPartsAreKept` | `VerdictIsOfStoredSpec`, `NoStatusLost` (action properties) |
| | `HandlersRemember` | the invariant `Memory`, for the next three |
| | `ErrorsAreNotEvaluated`, `BreachesAreActedOn` | `ErrorIsNotEvaluated`, `ReportedBreachWasActedOn` (action properties) |
| | `VersionsAreImplemented` | `ImplementsVersionedPolicy` (refinement) |
| `InstanceManagerProofs` | `MixTypeCorrect`, `EveryPolicyRespected`, `SpotIsMaximal` | `TypeOK`, `RespectsEveryPolicy`, `MaximizesSpot` |
| | `SpotTypeCorrect`, `DrainIsComplete`, `DisruptionBound` | `SpotTypeOK`, `NodeIsDrained`, `DisruptionIsBounded` |
| `AlertingProofs` | `TypeCorrect`, `EveryChannelIsTried`, `GivesUpOnlyLast`, `WaitBound` | `TypeOK`, `EveryChannelTried`, `GivesUpLast`, `WaitIsBounded` |
| `CostPipelineProofs` | `TypeCorrect`, `MarksAreTrue`, `CostNeverGoesBack` | `TypeOK`, `ApproximateIsMarked`, `FallbackIsNewest` |
| `CostAllocationProofs` | `CostConserved`, `TeamsConserved`, `SharesAreFair`, `RowsConserved` | `CostIsConserved`, `TeamsAddUp`, `SharesFollowDirect`, `StoredAddsUp` |
| `ForecastingProofs` | `SeasonIsContinued`, `BreachesGoUp`, `PatternsAreFound` | `PeriodicIsContinued`, `BreachesAreUpwardClosed`, `PatternsAreReal` |
| | `ValidOverwrites` | `OnlyValidOverwrites` (action property) |
| `ApiServerProofs` | `MigrationsAreAtomic`, `MigratedIsComplete`, `AuditIsTrue`, `CostAnswersTrue` | `MigrationIsAtomic`, `MigratedMeansComplete`, `AuditTrailIsTrue`, `CostAnswersAreTrue` |

### The control plane

The stored objects alone are not inductive: a write stores what its client
computed from a copy, so the proof must know what copies are worth. The
inductive invariant is

    IInv == TypeOK /\ Fresh /\ ObjectsGood

`ObjectsGood` is the three properties of each stored object: unbroken history,
version equal to the publishes counted, phase in agreement with the condition.
`Fresh` says that whoever holds a copy marked current holds exactly what is
stored: the cache (`CacheFresh`), a client between read and write (`CopyFresh`),
and the caller between the two writes of a rollback, whose copy differs in the
phase that was decoded (also in `CopyFresh`); and that a client inside a handler
that needs an object has one (`CopyHeld`). A commit makes every other copy
outdated, so `Fresh` is kept, and an accepted write is a function of the stored
object, so `ObjectsGood` is. The first two action properties follow: an accepted
status write changes the stored object in a way that depends on that object only.

For the next two a handler's own past is needed. `Memory` says that the guards of
its earlier steps still hold of its copy: the orchestrator's object was not in
phase Error when read and is not now, past the breach step a breach has been acted
on, `ApplyPolicy` holds a valid spec and `RollbackPolicy` one of the history. Others
can outdate a copy and not change it, so `Memory` is inductive relative to `IInv`;
and since an accepted copy is the stored object, what it says holds of the stored
object at the write.

The refinement maps each stored object to the window of its specs and its
version. The initial states map to initial states. Every step
that changes a stored object is one of: an accepted publish (a valid spec:
`Publish`; an element of the history: `Restore`, where its place in the window is
the witness), a user's creation, edit or deletion, or a status write, which leaves
the window alone.

### The instance mix

The strengthening says what the loop knows after each policy: the minimum is at
least and the maximum at most that of every policy passed (`LoopInv`), each is
attained by one of them or is the initial value (`Attained`, needed for
maximality), and a recommendation exists only after the last policy
(`MadeAtTheEnd`).

### Spot interruption

The properties speak of calls that are over; the invariant says what holds of the
pods a call's loop has passed: each is skipped, failed, or not running there any
more (`PassedIsSettled`), and every eviction was of a name the loop has passed
(`EvictedWasPassed`). A list names a pod once (`ListedOnce`), so no name is passed
twice, and UIDs of a name only grow (`ListedIsOld`).

### Alerting

`Passed` says what became of every channel before the one the loop is at,
`Counted` ties the tries of the current one to the attempt, and `WaitSum` has the
seconds waited: those of the channels passed and the doubling delays of this one.
The prover has no theory of exponentials; the laws of 2^n that are needed (1, doubling,
growth) are proved from the cardinality of the subsets of 1..n (`SubsetsArePowers`).

### The cost pipeline

A row's data comes from the cycle's costs, and these from a fetch or the cache, so
the invariant says of each what the next needs: the cache has at most one entry, not
from the future and not older than any row (`CacheGood`); the cycle's costs are
marked if and only if they are of an earlier cycle, and not older than any row
(`CostsGood`); and the rows are as the properties say (`RowsGood`). A crash
empties the cache, and then nothing older can come back.

### Cost allocation

`Cycle` says that the costs of a cycle are what its steps make of the cluster and
the charge; the rest is about the operators. Weights of the pods add up to the
unit (`PodsAddUp`), so pods' costs add up to the charge; namespaces, services and
teams are classes of pods, so their costs do (`Ledger`), within each namespace as well;
once rebuilt, the teams are classes of namespaces, and a shared one, in none of them,
has a total of zero. The allocation multiplies
direct costs by a common factor and gives shares that add up to the shared cost
(`SharesAddUp`). All direct costs have the sign of the charge (`SignsAgree`): a
total of zero means that every part is zero, so the case without a division is
right as well.

Sums are folds over sets, that is, applications of a recursive function.
`SumTheorems` proves their laws, union, partition into classes, image,
monotonicity, sum of sums, by induction over the subsets of a finite set, stated
with a *set* of subsets (`SubsetInduction`) from the library's well-founded
ordering, because the induction rules that take a predicate cannot be used.

### Forecasting

The properties are about forecasts in the store; the invariant follows them from the
history on. `InOrder`: a recalculation's history ends with the newest record or an
older one, and no stored forecast is of a later one, since the scheduler makes one
forecast at a time and a restart drops what was under way. So an overwrite never goes
back. `RunGood` says what the data of each step is worth.

* `FitGood`, for the smoothing: level, trend and seasonal components are integers,
  and if the costs repeat themselves with the season, level and seasonal component
  of every day add up to its cost and the trend is zero (`Exact`). The initial
  components are exact (`InitialIsGood`), and a step keeps that whatever the
  parameters do to the single components (`SmoothedIsGood`). The argument needs
  that the next day's place in the season is that of the day a season before
  (`RemainderShifts`, from the division of integers). This is the invariant over the
  smoothing steps, one action each, so no induction over data is needed.
* `ForecastGood`, for forecasts: the sum over a horizon grows with the horizon,
  because no day counts less than zero (`ForecastGrows`), and continues the season
  (`DayIsContinued`).

What `DetectSeasonality` finds does not depend on a state but on the records. Where
each slot has records and costs always the same, its factor is this cost times the
product of all numbers of records (`FactorIsCost`). Equal factors have a variance of
zero (`EqualDoNotVary`). Factors that each are at most half of the next add up to at
most twice the greatest (`HalvesAddUp`), so the distance of the greatest from the
mean alone makes a coefficient of variation above 0.05 (`HalvesVary`): with three
weekdays or more the sum is at most twice the greatest, with two at most one and a
half times. `SumTheorems` has the laws of products for this, proved as those of sums.

### Database, audit log and REST API

`DatabaseInv`: an open transaction is a beginning of its file, two processes are
never inside the same file (the second one's first statement waits for the
transaction that has created the same object), the first n files are applied, and nobody is
further than the next. `AuditInv`: every row in the
table is that of a logged entry (`IsRowOf`), every row under way will be, because its
time is still to come or not later than now, and a caller has one row in both
together (`RowsAreDistinct`); an answer has the newest of the matching rows of its
time. The clock only goes forward, so `IsRowOf` stays true. `CostInv`: rows are only
added, so those of a request's arrival are still there at its answer; a bigger set
of rows costs no less (`SumTheorems`).

### Only model-checked

Every invariant and action property and the refinement that a passing run checks is
stated by a theorem. What remains with TLC:

* Liveness: `EventuallyJudged`, `EventuallyEvaluated`, `CallReturns`,
  `KeepsCollecting`, `KeepsForecasting`, `HandlerReturns`. Fairness and ENABLED are out
  of the prover's reach.
* The three counterexamples, of course: they are violations.

## 5. Not modelled

* Confidence intervals of forecasts (`GetConfidenceInterval` and the bounds of a
  period): square roots and normal quantiles, which TLC cannot compute.
* Savings plans (`instance/savings.go`) and `CheckAnomalies`: stateless
  floating-point formulas without a state or an order of steps.
* `FetchCUR` and `FetchCURData`: nothing calls them, and what they return is used nowhere.
* The metrics exporter: gauges nothing in the program reads.
* `CostReport` and `OptimizationAction`: kinds no controller reads or writes; the
  generated deep-copy functions.
* Leader election and several controller processes: one process runs.
* Floating-point rounding: arithmetic is exact everywhere.

## 6. Plan

A composition of `CostPipeline` and `Orchestrator` in place of the free
`CostMoves`, and of `Alerting` in place of the free outcome of an alert, if the
state space allows.
