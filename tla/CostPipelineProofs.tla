------------------------- MODULE CostPipelineProofs -------------------------
(***************************************************************************)
(* Proofs about CostPipeline for any length of a day, ttl, number of       *)
(* retries and number of restarts.                                         *)
(*                                                                         *)
(* The properties speak of the stored rows; a row gets its cost from the   *)
(* cycle's data, and that from a fetch or from the cache.  The inductive   *)
(* invariant says of each of the three what the next one needs: nothing    *)
(* stored is newer than what the cache or the cycle holds.                 *)
(***************************************************************************)
EXTENDS CostPipeline, TLAPS

\* Where a cycle is under way, and where it has not fetched its cost yet.
Running  == {"collect", "fetch", "backoff", "fallback", "store"}
Fetching == {"collect", "fetch", "backoff", "fallback"}

\* The cache holds at most one entry, not from the future, unmarked, no older
\* than any stored row and, until the fetch succeeds, of an earlier cycle.
CacheGood ==
    /\ \A c, d \in cache : c = d
    /\ \A c \in cache :
          /\ c.storedAt <= now
          /\ ~c.data.isApproximate
          /\ c.data.cycle <= cycle
          /\ pc \in Fetching => c.data.cycle < cycle
          /\ \A r \in rows : r.costs.cycle <= c.data.cycle

\* So is the data of the cycle; it is marked if it is not of this cycle, and
\* fresh enough.
CostsGood ==
    /\ pc # "store" => costs = {}
    /\ \A c, d \in costs : c = d
    /\ \A c \in costs :
          /\ c.age <= ttl
          /\ c.data.cycle <= cycle
          /\ c.data.isApproximate <=> c.data.cycle # cycle
          /\ \A r \in rows : r.costs.cycle <= c.data.cycle
          /\ \A d \in cache : c.data.cycle <= d.data.cycle

\* A row is of the past, and of an earlier cycle while one is under way.
RowsGood ==
    \A r \in rows : /\ r.cycle <= cycle
                    /\ pc \in Running => r.cycle < cycle
                    /\ r.costs.cycle <= r.cycle

IInv ==
    /\ TypeOK
    /\ CacheGood
    /\ CostsGood
    /\ RowsGood
    /\ ApproximateIsMarked
    /\ FallbackIsNewest

----------------------------------------------------------------------------
(* Types *)

\* The day a cycle asks for, the one before, is a natural number.
LEMMA DayType ==
    ASSUME NEW t \in Nat
    PROVE  DayOf(t) - 1 \in Nat
<1>1. t \div DayLength \in Nat
  BY LengthsArePositive
<1> QED
  BY <1>1 DEF DayOf

\* Marking cached data changes the mark and nothing else.
LEMMA ApproximateType ==
    ASSUME NEW data \in AWSCostData
    PROVE  /\ Approximate(data) \in AWSCostData
           /\ Approximate(data).isApproximate = TRUE
           /\ Approximate(data).cycle = data.cycle
BY DEF AWSCostData, Approximate

\* TypeOK in two halves: the provers take truth values and numbers apart.
FlagsOK == {ticking, due, pods, cancelled} \subseteq BOOLEAN

DataOK ==
    /\ now \in 0..MaxTime
    /\ pc \in {"idle", "collect", "fetch", "backoff", "fallback", "store", "stopped"}
    /\ cycle \in Nat
    /\ day \in Nat
    /\ attempt \in 0..maxRetries
    /\ costs \subseteq [data : AWSCostData, age : Nat]
    /\ cache \subseteq [data : AWSCostData, storedAt : Nat]
    /\ rows \subseteq Row
    /\ crashes \in 0..MaxCrashes

\* The two halves make up TypeOK.
LEMMA TypeHalves == TypeOK <=> FlagsOK /\ DataOK
BY DEF TypeOK, FlagsOK, DataOK

\* Every step keeps the truth values.
LEMMA FlagsStep ==
    ASSUME FlagsOK, Next
    PROVE  FlagsOK'
<1> USE DEF FlagsOK
<1>1. CASE Tick
  BY <1>1 DEF Tick, cycleVars
<1>2. CASE Begin
  BY <1>2 DEF Begin, cycleVars
<1>3. ASSUME NEW found \in BOOLEAN, CollectClusterMetrics(found) PROVE FlagsOK'
  BY <1>3 DEF CollectClusterMetrics
<1>4. CASE CollectFails
  BY <1>4 DEF CollectFails, CycleEnds
<1>5. CASE FetchSucceeds
  BY <1>5 DEF FetchSucceeds
<1>6. ASSUME NEW retryable \in BOOLEAN, FetchFails(retryable) PROVE FlagsOK'
  BY <1>6 DEF FetchFails
<1>7. CASE Backoff
  BY <1>7 DEF Backoff, cycleVars
<1>8. CASE Fallback
  BY <1>8 DEF Fallback, CycleEnds
<1>9. CASE StoreCostRecords
  BY <1>9 DEF StoreCostRecords, CycleEnds
<1>10. CASE StoreFails
  BY <1>10 DEF StoreFails, CycleEnds
<1>11. CASE Cancel
  BY <1>11 DEF Cancel, cycleVars
<1>12. CASE Stop
  BY <1>12 DEF Stop, cycleVars
<1>13. CASE Restart
  BY <1>13 DEF Restart
<1> QED
  BY <1>1, <1>2, <1>3, <1>4, <1>5, <1>6, <1>7, <1>8, <1>9, <1>10, <1>11, <1>12, <1>13
     DEF Next, Scheduler

\* A cycle that ends leaves no data behind.
LEMMA CycleEndsData ==
    ASSUME DataOK, NEW failed, CycleEnds(failed), UNCHANGED <<now, cycle, cache, crashes>>, rows' \subseteq Row
    PROVE  DataOK'
<1>1. pc' = "idle" /\ day' = 0 /\ attempt' = 0 /\ costs' = {}
  BY DEF CycleEnds
<1> QED
  BY <1>1, LengthsArePositive DEF DataOK

\* The age of a cached cost is a number: the cache is not from the future.
LEMMA DataStep ==
    ASSUME DataOK, CacheGood, Next
    PROVE  DataOK'
<1>1. CASE Tick
  BY <1>1, BoundsAreNat DEF DataOK, Tick, cycleVars
<1>2. CASE Begin
  <2>1. pc' = "collect" /\ cycle' = cycle + 1 /\ UNCHANGED <<now, day, attempt, costs, cache, rows, crashes>>
    BY <1>2 DEF Begin, cycleVars
  <2> QED
    BY <2>1 DEF DataOK
<1>3. ASSUME NEW found \in BOOLEAN, CollectClusterMetrics(found) PROVE DataOK'
  <2>1. now \in Nat
    BY BoundsAreNat DEF DataOK
  <2>2. day' \in Nat
    BY <1>3, <2>1, DayType DEF CollectClusterMetrics
  <2> QED
    BY <1>3, <2>2 DEF DataOK, CollectClusterMetrics
<1>4. CASE CollectFails
  BY <1>4, CycleEndsData DEF CollectFails, DataOK
<1>5. CASE FetchSucceeds
  <2>1. [day |-> day, cycle |-> cycle, isApproximate |-> FALSE] \in AWSCostData
    BY DEF AWSCostData, DataOK
  <2> QED
    BY <1>5, <2>1, BoundsAreNat DEF DataOK, FetchSucceeds
<1>6. ASSUME NEW retryable \in BOOLEAN, FetchFails(retryable) PROVE DataOK'
  BY <1>6, LengthsArePositive DEF DataOK, FetchFails
<1>7. CASE Backoff
  BY <1>7 DEF DataOK, Backoff, cycleVars
<1>8. CASE Fallback
  <2>1. ASSUME NEW c \in CacheGet
        PROVE  [data |-> Approximate(c.data), age |-> now - c.storedAt] \in [data : AWSCostData, age : Nat]
    <3>1. c \in cache /\ c.data \in AWSCostData /\ c.storedAt \in Nat
      BY DEF CacheGet, DataOK
    <3>2. now - c.storedAt \in Nat
      BY <3>1, BoundsAreNat DEF CacheGood, DataOK
    <3> QED
      BY <3>1, <3>2, ApproximateType
  <2>2. CASE CacheGet # {}
    BY <1>8, <2>1, <2>2 DEF DataOK, Fallback
  <2>3. CASE CacheGet = {}
    BY <1>8, <2>3, CycleEndsData DEF Fallback, DataOK
  <2> QED
    BY <2>2, <2>3
<1>9. CASE StoreCostRecords
  <2>1. \A c \in costs : [cycle |-> cycle, time |-> now, age |-> c.age, costs |-> c.data] \in Row
    BY BoundsAreNat DEF Row, DataOK
  <2>2. rows' \subseteq Row
    BY <1>9, <2>1 DEF StoreCostRecords, DataOK
  <2> QED
    BY <1>9, <2>2, CycleEndsData DEF StoreCostRecords
<1>10. CASE StoreFails
  BY <1>10, CycleEndsData DEF StoreFails, DataOK
<1>11. CASE Cancel
  BY <1>11 DEF DataOK, Cancel, cycleVars
<1>12. CASE Stop
  BY <1>12 DEF DataOK, Stop, cycleVars
<1>13. CASE Restart
  <2>1. /\ crashes < MaxCrashes /\ crashes' = crashes + 1
        /\ pc' = "collect" /\ cycle' = cycle + 1 /\ day' = 0 /\ attempt' = 0
        /\ costs' = {} /\ cache' = {}
        /\ UNCHANGED <<now, rows>>
    BY <1>13 DEF Restart
  <2> QED
    BY <2>1, LengthsArePositive, BoundsAreNat DEF DataOK
<1> QED
  BY <1>1, <1>2, <1>3, <1>4, <1>5, <1>6, <1>7, <1>8, <1>9, <1>10, <1>11, <1>12, <1>13
     DEF Next, Scheduler

\* The numbers the other lemmas compare.
NumbersOK ==
    /\ now \in Nat /\ cycle \in Nat
    /\ \A c \in cache : c.storedAt \in Nat /\ c.data \in AWSCostData /\ c.data.cycle \in Nat
    /\ \A c \in costs : c.age \in Nat /\ c.data \in AWSCostData /\ c.data.cycle \in Nat
    /\ \A r \in rows : r.cycle \in Nat /\ r.age \in Nat /\ r.costs.cycle \in Nat

\* A typed state has these numbers.
LEMMA Numbers == DataOK => NumbersOK
BY BoundsAreNat DEF DataOK, NumbersOK, Row, AWSCostData

----------------------------------------------------------------------------
(* The steps *)

\* The first cycle begins with an empty cache and no rows.
LEMMA InitHolds ==
    ASSUME Init
    PROVE  IInv
<1>1. FlagsOK
  BY DEF Init, FlagsOK
<1>2. /\ now = 0 /\ pc = "collect" /\ cycle = 1 /\ day = 0 /\ attempt = 0
      /\ costs = {} /\ cache = {} /\ rows = {} /\ crashes = 0
  BY DEF Init
<1>3. DataOK
  BY <1>2, LengthsArePositive, BoundsAreNat DEF DataOK
<1> QED
  BY <1>1, <1>2, <1>3, TypeHalves
     DEF IInv, CacheGood, CostsGood, RowsGood, ApproximateIsMarked, FallbackIsNewest

\* What the invariant says beyond the types, the facts of each step in hand.
Meaning ==
    /\ CacheGood
    /\ CostsGood
    /\ RowsGood
    /\ ApproximateIsMarked
    /\ FallbackIsNewest

\* A step that neither stores, fetches nor falls back keeps the cost data; it
\* may end the cycle, or begin another.
LEMMA QuietStep ==
    ASSUME Meaning, NumbersOK, NumbersOK', now <= now',
           UNCHANGED <<cache, rows>>,
           costs' = {} \/ (costs' = costs /\ cycle' = cycle /\ pc' = pc),
           \/ cycle' = cycle /\ (pc' \in Running => pc \in Running)
                             /\ (pc' \in Fetching => pc \in Fetching)
           \/ cycle' = cycle + 1
    PROVE  Meaning'
<1> USE DEF Meaning, NumbersOK
<1>1. CacheGood'
  <2>1. \A c, d \in cache' : c = d
    BY DEF CacheGood
  <2>2. ASSUME NEW c \in cache'
        PROVE  /\ c.storedAt <= now'
               /\ ~c.data.isApproximate
               /\ c.data.cycle <= cycle'
               /\ pc' \in Fetching => c.data.cycle < cycle'
               /\ \A r \in rows' : r.costs.cycle <= c.data.cycle
    <3>1. c \in cache /\ c.storedAt \in Nat /\ c.data.cycle \in Nat
      OBVIOUS
    <3>2. c.storedAt <= now /\ c.data.cycle <= cycle /\ (pc \in Fetching => c.data.cycle < cycle)
      BY <3>1 DEF CacheGood
    <3>3. ~c.data.isApproximate /\ \A r \in rows' : r.costs.cycle <= c.data.cycle
      BY <3>1 DEF CacheGood
    <3>4. c.storedAt <= now'
      BY <3>1, <3>2
    <3>5. c.data.cycle <= cycle' /\ (pc' \in Fetching => c.data.cycle < cycle')
      BY <3>1, <3>2
    <3> QED
      BY <3>3, <3>4, <3>5
  <2> QED
    BY <2>1, <2>2 DEF CacheGood
<1>2. CostsGood'
  BY DEF CostsGood
<1>3. RowsGood'
  BY DEF RowsGood
<1> QED
  BY <1>1, <1>2, <1>3 DEF ApproximateIsMarked, FallbackIsNewest

\* Fetched data is of this cycle, unmarked, and newer than every row; it replaces the
\* cache's.
LEMMA FetchSucceedsStep ==
    ASSUME Meaning, NumbersOK, FetchSucceeds
    PROVE  Meaning'
<1> USE DEF Meaning, NumbersOK
<1> DEFINE data == [day |-> day, cycle |-> cycle, isApproximate |-> FALSE]
<1>1. /\ costs' = {[data |-> data, age |-> 0]}
      /\ cache' = {[data |-> data, storedAt |-> now]}
      /\ pc' = "store" /\ pc = "fetch"
      /\ UNCHANGED <<now, cycle, rows>>
  BY DEF FetchSucceeds
<1>2. data.cycle = cycle /\ ~data.isApproximate
  OBVIOUS
<1>3. \A r \in rows : r.costs.cycle <= cycle /\ r.cycle < cycle
  BY <1>1 DEF RowsGood, Running
<1> HIDE DEF data
<1>4. CacheGood'
  BY <1>1, <1>2, <1>3 DEF CacheGood, Fetching
<1>5. CostsGood'
  BY <1>1, <1>2, <1>3, LengthsArePositive DEF CostsGood
<1>6. RowsGood'
  BY <1>1, <1>3 DEF RowsGood
<1>7. ApproximateIsMarked' /\ FallbackIsNewest'
  BY <1>1, <1>2 DEF ApproximateIsMarked, FallbackIsNewest
<1> QED
  BY <1>4, <1>5, <1>6, <1>7

\* The fallback hands on the cached data, marked, with its age.
LEMMA FallbackStep ==
    ASSUME Meaning, NumbersOK, Fallback, CacheGet # {}
    PROVE  Meaning'
<1> USE DEF Meaning, NumbersOK
<1>1. /\ costs' = {[data |-> Approximate(c.data), age |-> now - c.storedAt] : c \in CacheGet}
      /\ pc' = "store" /\ pc = "fallback"
      /\ UNCHANGED <<now, cycle, cache, rows>>
  BY DEF Fallback
<1>2. ASSUME NEW d \in costs'
      PROVE  \E c \in cache : /\ d = [data |-> Approximate(c.data), age |-> now - c.storedAt]
                              /\ d.age <= ttl
                              /\ d.data.isApproximate
                              /\ d.data.cycle = c.data.cycle
  <2>1. PICK c \in CacheGet : d = [data |-> Approximate(c.data), age |-> now - c.storedAt]
    BY <1>1
  <2>2. c \in cache /\ now - c.storedAt <= ttl
    BY DEF CacheGet
  <2>3. d.age <= ttl /\ d.data = Approximate(c.data)
    BY <2>1, <2>2
  <2>4. d.data.isApproximate = TRUE /\ d.data.cycle = c.data.cycle
    BY <2>2, <2>3, ApproximateType
  <2> QED
    BY <2>1, <2>2, <2>3, <2>4
<1>3. \A c \in cache : c.data.cycle < cycle
  BY <1>1 DEF CacheGood, Fetching
<1>4. CacheGood'
  BY <1>1 DEF CacheGood, Fetching
<1>5. CostsGood'
  <2>1. \A c, d \in costs' : c = d
    BY <1>2 DEF CacheGood
  <2>2. ASSUME NEW d \in costs'
        PROVE  /\ d.age <= ttl
               /\ d.data.cycle <= cycle
               /\ d.data.isApproximate <=> d.data.cycle # cycle
               /\ \A r \in rows : r.costs.cycle <= d.data.cycle
               /\ \A e \in cache : d.data.cycle <= e.data.cycle
    <3>1. PICK c \in cache : /\ d.age <= ttl
                             /\ d.data.isApproximate
                             /\ d.data.cycle = c.data.cycle
      BY <1>2
    <3>2. c.data.cycle < cycle /\ c.data.cycle \in Nat
      BY <1>3
    <3>3. d.data.cycle <= cycle /\ d.data.cycle # cycle
      BY <3>1, <3>2
    <3>4. \A r \in rows : r.costs.cycle <= d.data.cycle
      BY <3>1 DEF CacheGood
    <3>5. \A e \in cache : d.data.cycle <= e.data.cycle
      BY <3>1, <3>2 DEF CacheGood
    <3> QED
      BY <3>1, <3>3, <3>4, <3>5
  <2> QED
    BY <1>1, <2>1, <2>2 DEF CostsGood
<1>6. RowsGood'
  BY <1>1 DEF RowsGood, Running
<1> QED
  BY <1>1, <1>4, <1>5, <1>6 DEF ApproximateIsMarked, FallbackIsNewest

\* The rows of the cycle are the newest, and all from one fetch.
LEMMA StoreStep ==
    ASSUME Meaning, NumbersOK, StoreCostRecords, pods
    PROVE  Meaning'
<1> USE DEF Meaning, NumbersOK
<1> DEFINE new == {[cycle |-> cycle, time |-> now, age |-> c.age, costs |-> c.data] : c \in costs}
<1>1. /\ rows' = rows \cup new
      /\ costs' = {} /\ pc' = "idle" /\ pc = "store"
      /\ UNCHANGED <<now, cycle, cache>>
  BY DEF StoreCostRecords, CycleEnds
<1>2. \A r \in new : \E c \in costs : r.cycle = cycle /\ r.age = c.age /\ r.costs = c.data
  OBVIOUS
<1> HIDE DEF new
<1>3. ASSUME NEW r \in new
      PROVE  /\ r.cycle = cycle /\ r.age <= ttl
             /\ r.costs.cycle \in Nat /\ r.costs.cycle <= cycle
             /\ r.costs.isApproximate <=> r.costs.cycle # r.cycle
             /\ \A s \in rows : s.costs.cycle <= r.costs.cycle
             /\ \A s \in new : s.costs = r.costs
             /\ \A c \in cache : r.costs.cycle <= c.data.cycle
  BY <1>2 DEF CostsGood
<1>4. \A s \in rows : s.cycle < cycle
  BY <1>1 DEF RowsGood, Running
<1>5. CacheGood'
  BY <1>1, <1>3 DEF CacheGood, Fetching
<1>6. CostsGood'
  BY <1>1 DEF CostsGood
<1>7. RowsGood'
  BY <1>1, <1>3, <1>4 DEF RowsGood, Running
<1>8. ApproximateIsMarked'
  BY <1>1, <1>3 DEF ApproximateIsMarked
<1>9. FallbackIsNewest'
  <2>1. \A r \in rows' : r.age <= ttl
    BY <1>1, <1>3 DEF FallbackIsNewest
  <2>2. ASSUME NEW r \in rows', NEW s \in rows', r.cycle <= s.cycle
        PROVE  r.costs.cycle <= s.costs.cycle
    <3>1. CASE s \in new
      BY <1>1, <1>3, <3>1
    <3>2. CASE s \in rows /\ r \in rows
      BY <2>2, <3>2 DEF FallbackIsNewest
    <3>3. CASE s \in rows /\ r \in new
      BY <1>3, <1>4, <2>2, <3>3
    <3> QED
      BY <1>1, <3>1, <3>2, <3>3
  <2> QED
    BY <2>1, <2>2 DEF FallbackIsNewest
<1> QED
  BY <1>5, <1>6, <1>7, <1>8, <1>9

\* Every step keeps what cache, costs and rows mean.
LEMMA MeaningStep ==
    ASSUME Meaning, NumbersOK, NumbersOK', Next
    PROVE  Meaning'
<1>1. now <= now
  BY DEF NumbersOK
<1> USE DEF Running, Fetching
<1>2. CASE Tick
  <2>1. now <= now'
    BY <1>2 DEF Tick, NumbersOK
  <2> QED
    BY <1>2, <2>1, QuietStep DEF Tick, cycleVars
<1>3. CASE Begin
  BY <1>1, <1>3, QuietStep DEF Begin, cycleVars, Meaning, CostsGood
<1>4. ASSUME NEW found \in BOOLEAN, CollectClusterMetrics(found) PROVE Meaning'
  BY <1>1, <1>4, QuietStep DEF CollectClusterMetrics, Meaning, CostsGood
<1>5. CASE CollectFails
  BY <1>1, <1>5, QuietStep DEF CollectFails, CycleEnds
<1>6. CASE FetchSucceeds
  BY <1>6, FetchSucceedsStep
<1>7. ASSUME NEW retryable \in BOOLEAN, FetchFails(retryable) PROVE Meaning'
  BY <1>1, <1>7, QuietStep DEF FetchFails, Meaning, CostsGood
<1>8. CASE Backoff
  BY <1>1, <1>8, QuietStep DEF Backoff, cycleVars, Meaning, CostsGood
<1>9. CASE Fallback
  <2>1. CASE CacheGet # {}
    BY <1>9, <2>1, FallbackStep
  <2>2. CASE CacheGet = {}
    BY <1>1, <1>9, <2>2, QuietStep DEF Fallback, CycleEnds
  <2> QED
    BY <2>1, <2>2
<1>10. CASE StoreCostRecords
  <2>1. CASE pods
    BY <1>10, <2>1, StoreStep
  <2>2. CASE ~pods
    BY <1>1, <1>10, <2>2, QuietStep DEF StoreCostRecords, CycleEnds
  <2> QED
    BY <2>1, <2>2
<1>11. CASE StoreFails
  BY <1>1, <1>11, QuietStep DEF StoreFails, CycleEnds
<1>12. CASE Cancel
  BY <1>1, <1>12, QuietStep DEF Cancel, cycleVars
<1>13. CASE Stop
  BY <1>1, <1>13, QuietStep DEF Stop, cycleVars, Meaning, CostsGood
<1>14. CASE Restart
  <2>1. /\ costs' = {} /\ cache' = {} /\ rows' = rows /\ cycle' = cycle + 1
    BY <1>14 DEF Restart
  <2> QED
    BY <2>1 DEF Meaning, CacheGood, CostsGood, RowsGood, ApproximateIsMarked,
                FallbackIsNewest, NumbersOK
<1> QED
  BY <1>2, <1>3, <1>4, <1>5, <1>6, <1>7, <1>8, <1>9, <1>10, <1>11, <1>12, <1>13, <1>14
     DEF Next, Scheduler

\* Every step keeps the inductive invariant.
LEMMA StepHolds ==
    ASSUME IInv, Next
    PROVE  IInv'
<1>1. FlagsOK /\ DataOK /\ CacheGood /\ Meaning
  BY TypeHalves DEF IInv, Meaning
<1>2. FlagsOK'
  BY <1>1, FlagsStep
<1>3. DataOK'
  BY <1>1, DataStep
<1>4. TypeOK'
  BY <1>2, <1>3 DEF TypeOK, FlagsOK, DataOK
<1>5. NumbersOK /\ NumbersOK'
  BY <1>1, <1>3, Numbers, BoundsAreNat DEF DataOK, NumbersOK, Row, AWSCostData
<1>6. Meaning'
  BY <1>1, <1>5, MeaningStep
<1> QED
  BY <1>4, <1>6 DEF IInv, Meaning

\* The inductive invariant holds throughout.
LEMMA Invariance == Spec => []IInv
<1>1. IInv /\ UNCHANGED vars => IInv'
  BY DEF IInv, TypeOK, CacheGood, CostsGood, RowsGood, ApproximateIsMarked, FallbackIsNewest,
         vars, cycleVars
<1> QED
  BY <1>1, InitHolds, StepHolds, PTL DEF Spec

----------------------------------------------------------------------------
(* The properties *)

\* Every variable of CostPipeline keeps its type; among others the age of a
\* cached cost is never negative and a fetch is retried at most maxRetries times.
THEOREM TypeCorrect == Spec => []TypeOK
<1>1. IInv => TypeOK
  BY DEF IInv
<1> QED
  BY <1>1, Invariance, PTL

\* The mark isApproximate tells a stored cost of the cycle's own fetch from one
\* taken from the cache, for any ttl and number of retries and across any
\* restarts, and what is cached is never marked.
THEOREM MarksAreTrue == Spec => []ApproximateIsMarked
<1>1. IInv => ApproximateIsMarked
  BY DEF IInv
<1> QED
  BY <1>1, Invariance, PTL

\* A stored cost is never older than ttl, and the cost stored by a later cycle
\* never comes from an earlier fetch.
THEOREM CostNeverGoesBack == Spec => []FallbackIsNewest
<1>1. IInv => FallbackIsNewest
  BY DEF IInv
<1> QED
  BY <1>1, Invariance, PTL
=============================================================================
