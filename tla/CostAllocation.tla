--------------------------- MODULE CostAllocation ---------------------------
(***************************************************************************)
(* pkg/collector: what one collection cycle makes of a fetched AWS cost.   *)
(* The usage of the pods and their labels are read with two list calls,    *)
(* the cost is spread over the pods by usage, added up by namespace,       *)
(* service and team, the cost of the shared namespaces is passed on to the *)
(* others, and one row per pod is stored.                                  *)
(*                                                                         *)
(* Floating point is exact here: every amount is an integer number of      *)
(* units, and costs.unit of them make one dollar.                          *)
(***************************************************************************)
EXTENDS Integers, FiniteSets, FiniteSetsExt, Functions

CONSTANTS SystemNamespace,  \* kube-system, kube-public, kube-node-lease
          SharedNamespace,  \* namespaces labelled finops.eks.io/shared=true
          OtherNamespace,
          Usage,            \* pairs <<cpu, mem>> a pod may use
          Label,            \* label sets a pod may have, "" for a label it has not
          Charge,           \* what AWS may charge for the day, in dollars
          MaxPods,          \* bound: pods of the cluster
          MaxGone           \* bound: pods that go between the two lists

ASSUME NamesAreDisjoint ==
    /\ SystemNamespace \cap (SharedNamespace \cup OtherNamespace) = {}
    /\ SharedNamespace \cap OtherNamespace = {}

\* Usage is not negative; a charge is, on a day of credits.
ASSUME AmountsAreInt ==
    /\ Usage \subseteq Nat \X Nat
    /\ Charge \subseteq Int
    /\ MaxPods \in Nat

Namespace == SystemNamespace \cup SharedNamespace \cup OtherNamespace

VARIABLES cluster,  \* the pods, in the order the metrics API lists them
          present,  \* the pods that still exist
          seen,     \* podLookup: the pods whose labels were read
          charge,   \* TotalCost of the AWS cost data
          costs,    \* the aggregated costs: none or one
          rows,     \* the rows of the cycle in cost_records
          pc

vars == <<cluster, present, seen, charge, costs, rows, pc>>

Pod == [ns : Namespace, usage : Usage, labels : Label]

NoLabels == [app |-> "", service |-> "", team |-> ""]

Init ==
    /\ \E n \in 0..MaxPods : cluster \in [1..n -> Pod]
    /\ present = DOMAIN cluster
    /\ seen = {} /\ charge = 0 /\ costs = {} /\ rows = {}
    /\ pc = "usage"

----------------------------------------------------------------------------
(* CollectClusterMetrics and FetchAWSCosts *)

Fails(step) ==
    /\ pc = step
    /\ pc' = "failed"
    /\ UNCHANGED <<cluster, present, seen, charge, costs, rows>>

\* The first list of collectPodMetrics: the usage of every pod.
ListPodMetrics ==
    /\ pc = "usage"
    /\ pc' = "labels"
    /\ UNCHANGED <<cluster, present, seen, charge, costs, rows>>

\* A pod goes between the two lists.  (Earlier or later it makes no difference.)
PodGone(i) ==
    /\ pc = "labels"
    /\ i \in present
    /\ Cardinality(DOMAIN cluster \ present) < MaxGone
    /\ present' = present \ {i}
    /\ UNCHANGED <<cluster, seen, charge, costs, rows, pc>>

\* The second list: labels and node of the pods that exist now.
ListPods ==
    /\ pc = "labels"
    /\ seen' = present
    /\ pc' = "nodes"
    /\ UNCHANGED <<cluster, present, charge, costs, rows>>

\* The node metrics can fail the cycle; no step after this one reads them.
collectNodeMetrics ==
    /\ pc = "nodes"
    /\ pc' = "fetch"
    /\ UNCHANGED <<cluster, present, seen, charge, costs, rows>>

\* The cost comes from AWS or from the cache (see CostPipeline).
FetchAWSCosts(dollars) ==
    /\ pc = "fetch"
    /\ charge' = dollars
    /\ pc' = "correlate"
    /\ UNCHANGED <<cluster, present, seen, costs, rows>>

----------------------------------------------------------------------------
(* correlateAndAggregate *)

Pods == DOMAIN cluster
PodsOf(n) == {i \in Pods : cluster[i].ns = n}

totalCPU == MapThenSumSet(LAMBDA i : cluster[i].usage[1], Pods)
totalMem == MapThenSumSet(LAMBDA i : cluster[i].usage[2], Pods)

\* The denominator of the weights: they add up to it.
WeightUnit ==
    IF totalCPU = 0 /\ totalMem = 0 THEN Cardinality(Pods)
    ELSE IF totalCPU = 0 THEN totalMem
    ELSE IF totalMem = 0 THEN totalCPU
    ELSE 2 * totalCPU * totalMem

\* Faulty variant: half the weight is always the CPU's, half the memory's.
HalvesOnly(i) ==
    IF totalCPU = 0 /\ totalMem = 0 THEN 1
    ELSE cluster[i].usage[1] * totalMem + cluster[i].usage[2] * totalCPU

\* The weight of a pod: its share of CPU and memory, each one half, of the one
\* that is used if the other is not, or the same for all if neither is.
calculatePodWeight(i) ==
    LET cpu == cluster[i].usage[1]
        mem == cluster[i].usage[2]
    IN  IF totalCPU = 0 /\ totalMem = 0 THEN 1
        ELSE IF totalCPU = 0 THEN mem
        ELSE IF totalMem = 0 THEN cpu
        ELSE cpu * totalMem + mem * totalCPU

podCost(i) == charge * calculatePodWeight(i)

CostOf(S) == MapThenSumSet(podCost, S)

\* The labels of a pod that went between the lists are not known.
LabelsOf(i) == IF i \in seen THEN cluster[i].labels ELSE NoLabels

podLabelOrDefault(labels, keys) ==
    LET given == {k \in DOMAIN keys : labels[keys[k]] # ""}
    IN  IF given = {} THEN "unknown" ELSE labels[keys[Min(given)]]

ServiceOf(i) == podLabelOrDefault(LabelsOf(i), <<"app", "service">>)
TeamOf(i) == podLabelOrDefault(LabelsOf(i), <<"team">>)

\* NamespaceCost: the team is that of the first pod listed.
NamespaceCost(n) ==
    LET service(s) == {i \in PodsOf(n) : ServiceOf(i) = s}
    IN  [team      |-> TeamOf(Min(PodsOf(n))),
         direct    |-> CostOf(PodsOf(n)),
         shared    |-> 0,
         total     |-> CostOf(PodsOf(n)),
         byService |-> [s \in {ServiceOf(i) : i \in PodsOf(n)} |-> CostOf(service(s))],
         byPod     |-> [i \in PodsOf(n) |-> podCost(i)]]

\* TeamCost: what the pods of the team cost.
TeamCost(t) ==
    LET members == {i \in Pods : TeamOf(i) = t}
    IN  [direct     |-> CostOf(members),
         indirect   |-> 0,
         total      |-> CostOf(members),
         namespaces |-> [n \in {cluster[i].ns : i \in members} |->
                            CostOf(members \cap PodsOf(n))]]

correlateAndAggregate ==
    [unit        |-> WeightUnit,
     byNamespace |-> [n \in {cluster[i].ns : i \in Pods} |-> NamespaceCost(n)],
     byTeam      |-> [t \in {TeamOf(i) : i \in Pods} |-> TeamCost(t)],
     total       |-> CostOf(Pods)]

CorrelateAndAggregate ==
    /\ pc = "correlate"
    /\ costs' = {correlateAndAggregate}
    /\ pc' = "allocate"
    /\ UNCHANGED <<cluster, present, seen, charge, rows>>

----------------------------------------------------------------------------
(* allocateSharedCostsWithLabels *)

SumOver(byNamespace, S, amount(_)) == MapThenSumSet(LAMBDA n : amount(byNamespace[n]), S)

Direct(c) == c.direct
Shared(c) == c.shared
Total(c)  == c.total

\* Labels are known only if the namespaces could be listed.
isSystemNamespace(n, labelsKnown) == n \in SystemNamespace \/ (labelsKnown /\ n \in SharedNamespace)

\* Every amount in a k-th of the unit it was in.
Rescaled(c, k) ==
    [c EXCEPT !.direct = k * @, !.total = k * @,
              !.byService = [s \in DOMAIN @ |-> k * @[s]],
              !.byPod = [i \in DOMAIN @ |-> k * @[i]]]

\* Faulty variant: a shared namespace keeps its total.
CountedTwice(c, k, system, share) ==
    LET r == Rescaled(c, k)
    IN  IF system THEN r ELSE [r EXCEPT !.shared = share, !.total = r.direct + share]

\* A namespace after the allocation: a shared one keeps its direct cost, to be
\* seen, and its total becomes zero; another one gets its share.
Allocated(c, k, system, share) ==
    LET r == Rescaled(c, k)
    IN  IF system THEN [r EXCEPT !.total = 0]
        ELSE [r EXCEPT !.shared = share, !.total = r.direct + share]

\* Faulty variant: a team's direct cost is that of all its namespaces, the
\* shared ones too, whose cost is in the shares already.
SharedCountsAsDirect(byNamespace, members) ==
    LET teams == {byNamespace[n].team : n \in members}
        direct == SumOver(byNamespace, {n \in DOMAIN byNamespace : byNamespace[n].team \in teams}, Direct)
        indirect == SumOver(byNamespace, members, Shared)
    IN  [direct     |-> direct,
         indirect   |-> indirect,
         total      |-> direct + indirect,
         namespaces |-> [n \in members |-> byNamespace[n].total]]

\* A team rebuilt from the namespaces whose team it is and that are not shared.
\* (The team "unallocated" is for a namespace whose team is empty; out of the
\* aggregation none is, since a pod without the label has the team "unknown".)
RebuiltTeam(byNamespace, members) ==
    [direct     |-> SumOver(byNamespace, members, Direct),
     indirect   |-> SumOver(byNamespace, members, Shared),
     total      |-> SumOver(byNamespace, members, Direct) + SumOver(byNamespace, members, Shared),
     namespaces |-> [n \in members |-> byNamespace[n].total]]

\* Faulty variant: the shared cost is split evenly.
EvenShare(direct, sharedCost, totalDirect, recipients) ==
    IF totalDirect = 0 THEN sharedCost ELSE (sharedCost * totalDirect) \div recipients

\* The share of a namespace, in a totalDirect-th of the unit, or, when no
\* recipient has direct cost, in a recipients-th.
ShareOf(direct, sharedCost, totalDirect, recipients) ==
    IF totalDirect = 0 THEN sharedCost ELSE sharedCost * direct

allocateSharedCosts(c, labelsKnown) ==
    LET systemNS    == {n \in DOMAIN c.byNamespace : isSystemNamespace(n, labelsKnown)}
        nonSystemNS == DOMAIN c.byNamespace \ systemNS
        totalSharedCost      == SumOver(c.byNamespace, systemNS, Direct)
        totalNonSystemDirect == SumOver(c.byNamespace, nonSystemNS, Direct)
        k == IF totalNonSystemDirect = 0 THEN Cardinality(nonSystemNS) ELSE totalNonSystemDirect
        share(n) == ShareOf(c.byNamespace[n].direct, totalSharedCost,
                            totalNonSystemDirect, Cardinality(nonSystemNS))
        byNamespace == [n \in DOMAIN c.byNamespace |->
                           Allocated(c.byNamespace[n], k, n \in systemNS, share(n))]
        teams == {byNamespace[n].team : n \in nonSystemNS}
    IN  IF totalSharedCost = 0 \/ nonSystemNS = {} THEN c
        ELSE [unit        |-> k * c.unit,
              byNamespace |-> byNamespace,
              byTeam      |-> [t \in teams |->
                                  RebuiltTeam(byNamespace, {n \in nonSystemNS : byNamespace[n].team = t})],
              total       |-> SumOver(byNamespace, nonSystemNS, Total)]

AllocateSharedCosts(labelsKnown) ==
    /\ pc = "allocate"
    /\ costs' = {allocateSharedCosts(c, labelsKnown) : c \in costs}
    /\ pc' = "store"
    /\ UNCHANGED <<cluster, present, seen, charge, rows>>

----------------------------------------------------------------------------
(* StoreCostRecords *)

\* Faulty variant: every pod's row carries an equal part of its namespace's total.
RowsOfTotal(c) ==
    UNION {{[ns |-> n, pod |-> i, team |-> c.byNamespace[n].team,
             cost |-> c.byNamespace[n].total \div Cardinality(DOMAIN c.byNamespace[n].byPod)] :
             i \in DOMAIN c.byNamespace[n].byPod} : n \in DOMAIN c.byNamespace}

\* One row per pod, with the namespace's team.  (A namespace without pods,
\* which would get a single row, does not come out of the aggregation.)
RowsOf(c) ==
    UNION {{[ns |-> n, pod |-> i, team |-> c.byNamespace[n].team, cost |-> c.byNamespace[n].byPod[i]] :
             i \in DOMAIN c.byNamespace[n].byPod} : n \in DOMAIN c.byNamespace}

\* The batch is one implicit transaction; an empty one is not sent.
StoreCostRecords ==
    /\ pc = "store"
    /\ rows' = UNION {RowsOf(c) : c \in costs}
    /\ pc' = "done"
    /\ UNCHANGED <<cluster, present, seen, charge, costs>>

Next ==
    \/ ListPodMetrics \/ Fails("usage")
    \/ \E i \in Pods : PodGone(i)
    \/ ListPods \/ Fails("labels")
    \/ collectNodeMetrics \/ Fails("nodes")
    \/ \E dollars \in Charge : FetchAWSCosts(dollars)
    \/ Fails("fetch")
    \/ CorrelateAndAggregate
    \/ \E labelsKnown \in BOOLEAN : AllocateSharedCosts(labelsKnown)
    \/ StoreCostRecords
    \/ Pods # {} /\ Fails("store")

Spec == Init /\ [][Next]_vars

----------------------------------------------------------------------------
\* Whatever the pods use, and whether or not their labels and the namespaces'
\* labels could be read, the namespaces' totals add up to what AWS charged,
\* before and after the shared cost is passed on, and so does the cluster's
\* total; within a namespace services and pods each add up to the direct cost.
\* (correlateAndAggregate, allocateSharedCosts: no cost is lost or counted
\* twice.)
CostIsConserved ==
    \A c \in costs : Pods # {} =>
        /\ SumOver(c.byNamespace, DOMAIN c.byNamespace, Total) = c.unit * charge
        /\ c.total = c.unit * charge
        /\ \A n \in DOMAIN c.byNamespace :
              /\ SumFunction(c.byNamespace[n].byService) = c.byNamespace[n].direct
              /\ SumFunction(c.byNamespace[n].byPod) = c.byNamespace[n].direct

\* What team t pays for namespace n.
PaidBy(c, t, n) == IF n \in DOMAIN c.byTeam[t].namespaces THEN c.byTeam[t].namespaces[n] ELSE 0

\* No cost is in two teams, or in none, before and after the teams are rebuilt
\* from the namespaces: their totals add up to the cluster's, what they pay for
\* a namespace adds up to its total, and a team's total is its direct and its
\* indirect cost and the sum over its namespaces.  So a shared namespace, whose
\* total is passed on, is in no team's direct cost: TestAllocateSharedCosts_-
\* UnallocatedTeam expects it there, and the code is otherwise (see
\* UnallocatedHasShared).  (correlateAndAggregate, allocateSharedCosts step 7)
TeamsAddUp ==
    \A c \in costs :
        /\ SumOver(c.byTeam, DOMAIN c.byTeam, Total) = c.total
        /\ \A n \in DOMAIN c.byNamespace :
              SumFunction([t \in DOMAIN c.byTeam |-> PaidBy(c, t, n)]) = c.byNamespace[n].total
        /\ \A t \in DOMAIN c.byTeam :
              /\ c.byTeam[t].total = c.byTeam[t].direct + c.byTeam[t].indirect
              /\ c.byTeam[t].total = SumFunction(c.byTeam[t].namespaces)

\* "100.0 from orphan-ns + 50.0 from kube-system (also no team)": once shared cost
\* has been passed on, the direct cost of the team of the namespaces without a
\* team is that of all of them, the shared ones too.  The code leaves these out
\* (so TeamsAddUp holds).  (TestAllocateSharedCosts_UnallocatedTeam, and step 7
\* of allocateSharedCosts)
UnallocatedHasShared ==
    \A c \in costs :
        SumOver(c.byNamespace, DOMAIN c.byNamespace, Shared) # 0 =>
            \A t \in DOMAIN c.byTeam \cap {"unknown"} :
                c.byTeam[t].direct =
                    SumOver(c.byNamespace, {n \in DOMAIN c.byNamespace : c.byNamespace[n].team = t}, Direct)

\* The cost of a shared namespace is passed on in full whenever there is a
\* namespace to take it, also when the namespaces' labels could not be read: its
\* total is zero, and the shares add up to what was shared and are in
\* proportion to the recipients' direct cost, and equal if none has any.
\* (allocateSharedCosts, steps 4 and 5)
SharesFollowDirect ==
    pc \in {"store", "done"} =>
        \A c \in costs :
            LET known == DOMAIN c.byNamespace
                takers == known \cap OtherNamespace
                passed == {n \in known : c.byNamespace[n].total = 0}
            IN  takers # {} =>
                    /\ known \cap SystemNamespace \subseteq passed
                    /\ SumOver(c.byNamespace, known, Shared) = SumOver(c.byNamespace, passed, Direct)
                    /\ \A m, n \in known \ passed :
                          LET a == c.byNamespace[m]
                              b == c.byNamespace[n]
                          IN  /\ a.shared * b.direct = b.shared * a.direct
                              /\ a.direct = b.direct => a.shared = b.shared

\* The rows of a cycle add up to what AWS charged, for each namespace to its
\* direct cost: the shared cost passed on stays with the pods it came from, so
\* that later sums over cost_records count it once.  (StoreCostRecords)
StoredAddsUp ==
    \A c \in costs : rows # {} =>
        /\ MapThenSumSet(LAMBDA r : r.cost, rows) = c.unit * charge
        /\ \A n \in DOMAIN c.byNamespace :
              MapThenSumSet(LAMBDA r : r.cost, {r \in rows : r.ns = n}) = c.byNamespace[n].direct
=============================================================================
