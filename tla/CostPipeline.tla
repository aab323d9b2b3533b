----------------------------- MODULE CostPipeline -----------------------------
(***************************************************************************)
(* pkg/collector: CostCollectionScheduler runs a collection cycle at once  *)
(* and then every five minutes.  A cycle reads the cluster's metrics,      *)
(* fetches the AWS cost with retries, falls back to the cached cost when   *)
(* the fetch fails, spreads the cost over the pods and stores it.          *)
(*                                                                         *)
(* The clock counts collection intervals; Day of them make a day.  Costs   *)
(* are kept as the data they come from: which day's cost, fetched when and *)
(* by which cycle.  The rows of one batch are one record here: their costs *)
(* add up to the cost fetched, and the batch is one implicit transaction.  *)
(* The length of a backoff is left out: time may pass at any step.         *)
(***************************************************************************)
EXTENDS Integers, FiniteSetsExt

CONSTANTS DayLength,   \* intervals in a day; 288 in the code
          ttl,         \* intervals a cached cost may be used; 6 in the code
          maxRetries,  \* 5 in the code
          DayCost(_),  \* what AWS charges for a day
          MaxTime,     \* bound: intervals that pass
          MaxCrashes   \* bound: restarts of the process

ASSUME LengthsArePositive == DayLength \in Nat \ {0} /\ ttl \in Nat /\ maxRetries \in Nat
ASSUME BoundsAreNat == MaxTime \in Nat /\ MaxCrashes \in Nat

VARIABLES now,        \* the clock
          ticking,    \* the ticker exists: the initial cycle is over
          due,        \* the ticker's channel holds a tick
          pc,         \* where the scheduler is
          cycle,      \* history: cycles begun
          pods,       \* the cycle found pods to charge
          day,        \* the day whose cost the cycle asks for
          attempt,    \* retries made of the fetch
          costs,      \* the cost data of the cycle: none or one
          cache,      \* CostCache: none or one cost data, and when it was stored
          cancelled,  \* the context
          rows,       \* table cost_records
          crashes

cycleVars == <<pods, day, attempt, costs>>
vars == <<now, ticking, due, pc, cycle, cycleVars, cache, cancelled, rows, crashes>>

\* AWSCostData, with the cycle that fetched it (history).
AWSCostData == [day : Nat, cycle : Nat, isApproximate : BOOLEAN]

Row == [cycle : Nat, time : Nat, age : Nat, costs : AWSCostData]

TypeOK ==
    /\ now \in 0..MaxTime
    /\ ticking \in BOOLEAN
    /\ due \in BOOLEAN
    /\ pc \in {"idle", "collect", "fetch", "backoff", "fallback", "store", "stopped"}
    /\ cycle \in Nat
    /\ pods \in BOOLEAN
    /\ day \in Nat
    /\ attempt \in 0..maxRetries
    /\ costs \subseteq [data : AWSCostData, age : Nat]
    /\ cache \subseteq [data : AWSCostData, storedAt : Nat]
    /\ cancelled \in BOOLEAN
    /\ rows \subseteq Row
    /\ crashes \in 0..MaxCrashes

\* Start runs the first cycle without waiting for a tick.
Init ==
    /\ now = 0 /\ ticking = FALSE /\ due = FALSE /\ pc = "collect" /\ cycle = 1
    /\ pods = FALSE /\ day = 0 /\ attempt = 0 /\ costs = {}
    /\ cache = {} /\ cancelled = FALSE /\ rows = {} /\ crashes = 0

----------------------------------------------------------------------------
\* Day 1 begins at time 0.
DayOf(t) == 1 + t \div DayLength

\* Five minutes pass.  A tick nobody waits for stays in the ticker's channel,
\* which holds one.
Tick ==
    /\ now < MaxTime
    /\ now' = now + 1
    /\ due' = (due \/ ticking)
    /\ UNCHANGED <<ticking, pc, cycle, cycleVars, cache, cancelled, rows, crashes>>

\* The next cycle begins.
Begin ==
    /\ pc = "idle"
    /\ due
    /\ due' = FALSE
    /\ pc' = "collect"
    /\ cycle' = cycle + 1
    /\ UNCHANGED <<now, ticking, cycleVars, cache, cancelled, rows, crashes>>

\* Faulty variant: the error of a cycle ends Start.
FatalReturn(failed) ==
    /\ pc' = IF failed THEN "stopped" ELSE "idle"
    /\ ticking' = TRUE
    /\ pods' = FALSE /\ day' = 0 /\ attempt' = 0 /\ costs' = {}

\* RunOnce returns.  Start logs an error and goes on; after the initial cycle
\* it creates the ticker.
CycleEnds(failed) ==
    /\ pc' = "idle"
    /\ ticking' = TRUE
    /\ pods' = FALSE /\ day' = 0 /\ attempt' = 0 /\ costs' = {}

\* Step 1, the metrics, and the time range of step 2: the last 24 hours, which
\* FetchCosts formats as dates, the end exclusive, so that it is yesterday.
CollectClusterMetrics(found) ==
    /\ pc = "collect"
    /\ pods' = found
    /\ day' = DayOf(now) - 1
    /\ pc' = "fetch"
    /\ UNCHANGED <<now, ticking, due, cycle, attempt, costs, cache, cancelled, rows, crashes>>

CollectFails ==
    /\ pc = "collect"
    /\ CycleEnds(TRUE)
    /\ UNCHANGED <<now, due, cycle, cache, cancelled, rows, crashes>>

\* Faulty variant: a cached entry that has not expired is not replaced.
FetchKeepsCache ==
    LET data == [day |-> day, cycle |-> cycle, isApproximate |-> FALSE]
        valid == {c \in cache : now - c.storedAt <= ttl}
    IN  /\ pc = "fetch"
        /\ costs' = {[data |-> data, age |-> 0]}
        /\ cache' = IF valid # {} THEN valid ELSE {[data |-> data, storedAt |-> now]}
        /\ pc' = "store"
        /\ UNCHANGED <<now, ticking, due, cycle, pods, day, attempt, cancelled, rows, crashes>>

\* GetCostAndUsage answers: the data goes to the cache and on.
FetchSucceeds ==
    LET data == [day |-> day, cycle |-> cycle, isApproximate |-> FALSE]
    IN  /\ pc = "fetch"
        /\ costs' = {[data |-> data, age |-> 0]}
        /\ cache' = {[data |-> data, storedAt |-> now]}
        /\ pc' = "store"
        /\ UNCHANGED <<now, ticking, due, cycle, pods, day, attempt, cancelled, rows, crashes>>

\* Faulty variant: one retry too many.
FetchFailsLate(retryable) ==
    /\ pc = "fetch"
    /\ \/ /\ retryable /\ attempt <= maxRetries
          /\ attempt' = attempt + 1
          /\ pc' = "backoff"
       \/ /\ ~retryable \/ attempt > maxRetries
          /\ pc' = "fallback"
          /\ UNCHANGED attempt
    /\ UNCHANGED <<now, ticking, due, cycle, pods, day, costs, cache, cancelled, rows, crashes>>

\* An error of GetCostAndUsage: a retryable one is retried at most maxRetries
\* times (retryWithBackoff, isRetryableError).
FetchFails(retryable) ==
    /\ pc = "fetch"
    /\ \/ /\ retryable /\ attempt < maxRetries
          /\ attempt' = attempt + 1
          /\ pc' = "backoff"
       \/ /\ ~retryable \/ attempt = maxRetries
          /\ pc' = "fallback"
          /\ UNCHANGED attempt
    /\ UNCHANGED <<now, ticking, due, cycle, pods, day, costs, cache, cancelled, rows, crashes>>

\* The delay is over, or the context is cancelled.
Backoff ==
    /\ pc = "backoff"
    /\ \/ pc' = "fetch"
       \/ cancelled /\ pc' = "fallback"
    /\ UNCHANGED <<now, ticking, due, cycle, cycleVars, cache, cancelled, rows, crashes>>

\* CostCache.Get
CacheGet == {c \in cache : now - c.storedAt <= ttl}

\* Faulty variant: the cached data is passed on as it is.
Unmarked(data) == data

\* The copy FetchAWSCosts makes of cached data.
Approximate(data) == [data EXCEPT !.isApproximate = TRUE]

\* FetchAWSCosts after a failed fetch.
Fallback ==
    /\ pc = "fallback"
    /\ \/ /\ CacheGet # {}
          /\ costs' = {[data |-> Approximate(c.data), age |-> now - c.storedAt] : c \in CacheGet}
          /\ pc' = "store"
          /\ UNCHANGED <<ticking, pods, day, attempt>>
       \/ /\ CacheGet = {}
          /\ CycleEnds(TRUE)
    /\ UNCHANGED <<now, due, cycle, cache, cancelled, rows, crashes>>

\* Steps 3 to 5: every pod's row carries the cycle's data; without pods there
\* is nothing to store.
StoreCostRecords ==
    /\ pc = "store"
    /\ rows' = IF pods THEN rows \cup {[cycle |-> cycle, time |-> now, age |-> c.age,
                                        costs |-> c.data] : c \in costs}
               ELSE rows
    /\ CycleEnds(FALSE)
    /\ UNCHANGED <<now, due, cycle, cache, cancelled, crashes>>

StoreFails ==
    /\ pc = "store"
    /\ pods
    /\ CycleEnds(TRUE)
    /\ UNCHANGED <<now, due, cycle, cache, cancelled, rows, crashes>>

----------------------------------------------------------------------------
Cancel ==
    /\ ~cancelled
    /\ cancelled' = TRUE
    /\ UNCHANGED <<now, ticking, due, pc, cycle, cycleVars, cache, rows, crashes>>

\* select takes ctx.Done, or a tick that is there as well.
Stop ==
    /\ pc = "idle"
    /\ cancelled
    /\ pc' = "stopped"
    /\ UNCHANGED <<now, ticking, due, cycle, cycleVars, cache, cancelled, rows, crashes>>

\* The process dies or was stopped, and another starts: the cache was in memory.
Restart ==
    /\ crashes < MaxCrashes
    /\ crashes' = crashes + 1
    /\ ticking' = FALSE /\ due' = FALSE /\ pc' = "collect" /\ cycle' = cycle + 1
    /\ pods' = FALSE /\ day' = 0 /\ attempt' = 0 /\ costs' = {}
    /\ cache' = {} /\ cancelled' = FALSE
    /\ UNCHANGED <<now, rows>>

Scheduler ==
    \/ Begin
    \/ \E found \in BOOLEAN : CollectClusterMetrics(found)
    \/ CollectFails
    \/ FetchSucceeds
    \/ \E retryable \in BOOLEAN : FetchFails(retryable)
    \/ Backoff
    \/ Fallback
    \/ StoreCostRecords
    \/ StoreFails

Next == Tick \/ Scheduler \/ Cancel \/ Stop \/ Restart

Spec == Init /\ [][Next]_vars

\* Calls return and timers fire, with or without an error.
FairSpec == Spec /\ WF_vars(Scheduler) /\ WF_vars(Stop)

----------------------------------------------------------------------------
\* A row that is not marked approximate holds the cost its own cycle fetched, of
\* the day that cycle asked for; a marked one holds what an earlier cycle of the
\* same process fetched: the flag survives cache, copy and fallback, and the
\* cached data itself is never marked (FetchAWSCosts).
ApproximateIsMarked ==
    /\ \A r \in rows : r.costs.isApproximate <=> r.costs.cycle # r.cycle
    /\ \A c \in cache : ~c.data.isApproximate

\* What the fallback stores was fetched at most ttl before it was taken from the
\* cache, and cost never goes back: a later cycle's rows come from the same fetch
\* as an earlier cycle's or from a later one, across failures and restarts.
FallbackIsNewest ==
    /\ \A r \in rows : r.age <= ttl
    /\ \A r, s \in rows : r.cycle <= s.cycle => r.costs.cycle <= s.costs.cycle

\* "Log and continue": while the context lives a tick is followed by a cycle,
\* whatever happened to the cycles before it.
KeepsCollecting == due ~> (~due \/ cancelled)

\* QueryCostRecords from the start of the month, which begins with day 1.
QueryCostRecords == MapThenSumSet(LAMBDA r : DayCost(r.costs.day), rows)

\* "Calculate current month-to-date cost": the sum of the month's records is at
\* most what AWS charges for the month so far.  Every cycle stores a whole day's
\* cost, under a time of its own.
MonthToDateIsTrue ==
    QueryCostRecords <= MapThenSumSet(DayCost, 0..DayOf(now))
=============================================================================
