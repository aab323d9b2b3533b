------------------------ MODULE CostAllocationProofs ------------------------
(***************************************************************************)
(* The four properties of CostAllocation, for any cluster, usage, labels   *)
(* and charge, a negative one included.                                    *)
(*                                                                         *)
(* The argument: the pods' weights add up to WeightUnit, so their costs    *)
(* add up to the charge (PodsAddUp); namespaces, services and teams are    *)
(* classes of pods, so their costs add up as well (Ledger).  Allocation    *)
(* multiplies every direct cost by the same k and gives the takers shares  *)
(* that add up to k times the shared cost (SharesAddUp).  All direct costs *)
(* have the sign of the charge (SignsAgree), so a sum is zero only if      *)
(* every part is, and no division by zero is hidden in k.  The invariant   *)
(* Cycle says that the costs of a cycle come about in this way.            *)
(***************************************************************************)
EXTENDS CostAllocation, SumTheorems

\* The cluster and the charge, once they are read.
Facts ==
    /\ \E n \in 0..MaxPods : cluster \in [1..n -> Pod]
    /\ charge \in Int

\* Usage, weight and cost by pod.
CPU == [i \in Pods |-> cluster[i].usage[1]]
Mem == [i \in Pods |-> cluster[i].usage[2]]
Weight == [i \in Pods |-> calculatePodWeight(i)]
Costs == [i \in Pods |-> podCost(i)]

----------------------------------------------------------------------------
(* Weights and pods.                                                       *)

\* The sums of the model, as sums of functions.
LEMMA PodSums ==
    /\ totalCPU = SumFunctionOnSet(CPU, Pods)
    /\ totalMem = SumFunctionOnSet(Mem, Pods)
    /\ \A S \in SUBSET Pods : CostOf(S) = SumFunctionOnSet(Costs, S)
<1> DEFINE Cpu(i) == cluster[i].usage[1]
           Memory(i) == cluster[i].usage[2]
<1>1. ASSUME NEW S \in SUBSET Pods, NEW s \in SUBSET S, s # {}
      PROVE  /\ Cpu(Chosen(s)) = CPU[Chosen(s)] /\ Memory(Chosen(s)) = Mem[Chosen(s)]
             /\ podCost(Chosen(s)) = Costs[Chosen(s)]
  <2>1. Chosen(s) \in Pods
    BY <1>1 DEF Chosen
  <2> QED
    BY <2>1 DEF CPU, Mem, Costs
<1>2. totalCPU = SumFunctionOnSet(CPU, Pods)
  <2>1. ASSUME NEW g
        PROVE  Sums(g, CPU, Pods) <=>
                  g = [s \in SUBSET Pods |->
                         IF s = {} THEN 0 ELSE Cpu(Chosen(s)) + g[s \ {Chosen(s)}]]
    <3> HIDE DEF Cpu
    <3> QED
      BY <1>1 DEF Sums
  <2>2. (CHOOSE g : Sums(g, CPU, Pods)) =
           CHOOSE g : g = [s \in SUBSET Pods |->
                             IF s = {} THEN 0 ELSE Cpu(Chosen(s)) + g[s \ {Chosen(s)}]]
    BY <2>1
  <2>3. totalCPU = (CHOOSE g : g = [s \in SUBSET Pods |->
                       IF s = {} THEN 0 ELSE Cpu(Chosen(s)) + g[s \ {Chosen(s)}]])[Pods]
    BY DEF totalCPU, MapThenSumSet, MapThenFoldSet, Chosen
  <2> QED
    BY <2>2, <2>3, SumUnfolds
<1>3. totalMem = SumFunctionOnSet(Mem, Pods)
  <2>1. ASSUME NEW g
        PROVE  Sums(g, Mem, Pods) <=>
                  g = [s \in SUBSET Pods |->
                         IF s = {} THEN 0 ELSE Memory(Chosen(s)) + g[s \ {Chosen(s)}]]
    <3> HIDE DEF Memory
    <3> QED
      BY <1>1 DEF Sums
  <2>2. (CHOOSE g : Sums(g, Mem, Pods)) =
           CHOOSE g : g = [s \in SUBSET Pods |->
                             IF s = {} THEN 0 ELSE Memory(Chosen(s)) + g[s \ {Chosen(s)}]]
    BY <2>1
  <2>3. totalMem = (CHOOSE g : g = [s \in SUBSET Pods |->
                       IF s = {} THEN 0 ELSE Memory(Chosen(s)) + g[s \ {Chosen(s)}]])[Pods]
    BY DEF totalMem, MapThenSumSet, MapThenFoldSet, Chosen
  <2> QED
    BY <2>2, <2>3, SumUnfolds
<1>4. ASSUME NEW S \in SUBSET Pods
      PROVE  CostOf(S) = SumFunctionOnSet(Costs, S)
  <2>1. ASSUME NEW g
        PROVE  Sums(g, Costs, S) <=>
                  g = [s \in SUBSET S |->
                         IF s = {} THEN 0 ELSE podCost(Chosen(s)) + g[s \ {Chosen(s)}]]
    BY <1>1 DEF Sums
  <2>2. (CHOOSE g : Sums(g, Costs, S)) =
           CHOOSE g : g = [s \in SUBSET S |->
                             IF s = {} THEN 0 ELSE podCost(Chosen(s)) + g[s \ {Chosen(s)}]]
    BY <2>1
  <2>3. CostOf(S) = (CHOOSE g : g = [s \in SUBSET S |->
                       IF s = {} THEN 0 ELSE podCost(Chosen(s)) + g[s \ {Chosen(s)}]])[S]
    BY DEF CostOf, MapThenSumSet, MapThenFoldSet, Chosen
  <2> QED
    BY <2>2, <2>3, SumUnfolds
<1> QED
  BY <1>2, <1>3, <1>4

\* The weights are natural numbers and add up to their unit, whichever of CPU and memory
\* is used at all.
LEMMA WeightsAddUp ==
    ASSUME Facts
    PROVE  /\ IsFiniteSet(Pods)
           /\ \A i \in Pods : Weight[i] \in Nat /\ Weight[i] = calculatePodWeight(i)
           /\ SumFunctionOnSet(Weight, Pods) = WeightUnit
           /\ WeightUnit \in Nat
<1>1. PICK n \in 0..MaxPods : cluster \in [1..n -> Pod]
  BY DEF Facts
<1>2. n \in Nat /\ Pods = 1..n
  BY <1>1, AmountsAreInt DEF Pods
<1>3. IsFiniteSet(Pods)
  BY <1>2, FS_Interval
<1>4. \A i \in Pods : CPU[i] \in Nat /\ Mem[i] \in Nat
  <2> SUFFICES ASSUME NEW i \in Pods
               PROVE  CPU[i] \in Nat /\ Mem[i] \in Nat
    OBVIOUS
  <2>1. cluster[i].usage \in Nat \X Nat
    BY <1>1, <1>2, AmountsAreInt DEF Pod
  <2> QED
    BY <2>1 DEF CPU, Mem
<1>5. PICK c, m : c = totalCPU /\ m = totalMem
  OBVIOUS
<1>6. c = SumFunctionOnSet(CPU, Pods) /\ m = SumFunctionOnSet(Mem, Pods) /\ c \in Nat /\ m \in Nat
  BY <1>3, <1>4, <1>5, PodSums, SumOfNat
<1>7. \A i \in Pods : /\ Weight[i] = calculatePodWeight(i)
                      /\ Weight[i] = IF c = 0 /\ m = 0 THEN 1 ELSE IF c = 0 THEN Mem[i]
                                     ELSE IF m = 0 THEN CPU[i] ELSE CPU[i] * m + Mem[i] * c
  BY <1>5 DEF Weight, calculatePodWeight, CPU, Mem
<1>8. WeightUnit = IF c = 0 /\ m = 0 THEN Cardinality(Pods) ELSE IF c = 0 THEN m
                   ELSE IF m = 0 THEN c ELSE 2 * c * m
  BY <1>5 DEF WeightUnit
<1>9. ASSUME NEW i \in Pods
      PROVE  Weight[i] \in Nat
  <2>1. PICK a, b : a = CPU[i] /\ b = Mem[i]
    OBVIOUS
  <2>2. a \in Nat /\ b \in Nat
    BY <1>4, <2>1
  <2>3. a * m \in Nat /\ b * c \in Nat
    BY <1>6, <2>2
  <2>4. a * m + b * c \in Nat
    BY <2>3
  <2> QED
    BY <1>7, <2>1, <2>2, <2>4
<1>10. SumFunctionOnSet(Weight, Pods) = WeightUnit
  <2>1. CASE c = 0 /\ m = 0
    <3>1. \A i \in Pods : Weight[i] = 1
      BY <1>7, <2>1
    <3>2. SumFunctionOnSet(Weight, Pods) = Cardinality(Pods) * 1
      <4>1. 1 \in Int
        OBVIOUS
      <4> QED
        BY <1>3, <3>1, <4>1, SumOfConstant, Zenon
    <3>3. Cardinality(Pods) \in Nat
      BY <1>3, FS_CardinalityType
    <3> QED
      BY <1>8, <2>1, <3>2, <3>3
  <2>2. CASE c = 0 /\ m # 0
    <3>1. SumFunctionOnSet(Weight, Pods) = SumFunctionOnSet(Mem, Pods)
      BY <1>3, <1>7, <2>2, SumEqual
    <3> QED
      BY <1>6, <1>8, <2>2, <3>1
  <2>3. CASE c # 0 /\ m = 0
    <3>1. SumFunctionOnSet(Weight, Pods) = SumFunctionOnSet(CPU, Pods)
      BY <1>3, <1>7, <2>3, SumEqual
    <3> QED
      BY <1>6, <1>8, <2>3, <3>1
  <2>4. CASE c # 0 /\ m # 0
    <3>1. PICK f, g : f = [i \in Pods |-> m * CPU[i]] /\ g = [i \in Pods |-> c * Mem[i]]
      OBVIOUS
    <3>2. \A i \in Pods : f[i] \in Int /\ g[i] \in Int /\ Weight[i] = f[i] + g[i]
      BY <1>4, <1>6, <1>7, <2>4, <3>1
    <3>3. SumFunctionOnSet(Weight, Pods) = SumFunctionOnSet(f, Pods) + SumFunctionOnSet(g, Pods)
      BY <1>3, <3>2, SumAdds
    <3>4. SumFunctionOnSet(f, Pods) = m * c
      <4>1. \A i \in Pods : CPU[i] \in Int /\ f[i] = m * CPU[i]
        BY <1>4, <3>1
      <4> QED
        BY <1>3, <1>6, <4>1, SumScales
    <3>5. SumFunctionOnSet(g, Pods) = c * m
      <4>1. \A i \in Pods : Mem[i] \in Int /\ g[i] = c * Mem[i]
        BY <1>4, <3>1
      <4> QED
        BY <1>3, <1>6, <4>1, SumScales
    <3>6. m * c + c * m = 2 * c * m
      BY <1>6
    <3> QED
      BY <1>8, <2>4, <3>3, <3>4, <3>5, <3>6
  <2> QED
    BY <2>1, <2>2, <2>3, <2>4
<1>11. WeightUnit \in Nat
  BY <1>3, <1>9, <1>10, SumOfNat
<1> QED
  BY <1>3, <1>7, <1>9, <1>10, <1>11

\* A pod's cost is its weight's share of the charge, and the pods' costs add up to it.
LEMMA PodsAddUp ==
    ASSUME Facts
    PROVE  /\ IsFiniteSet(Pods)
           /\ \A i \in Pods : Costs[i] \in Int /\ Costs[i] = podCost(i)
           /\ SumFunctionOnSet(Costs, Pods) = WeightUnit * charge
           /\ WeightUnit \in Nat
           /\ \A S \in SUBSET Pods :
                 /\ SumFunctionOnSet(Costs, S) = charge * SumFunctionOnSet(Weight, S)
                 /\ SumFunctionOnSet(Weight, S) \in Nat
<1>1. /\ IsFiniteSet(Pods) /\ charge \in Int /\ WeightUnit \in Nat
      /\ \A i \in Pods : Weight[i] \in Nat /\ Weight[i] = calculatePodWeight(i)
      /\ SumFunctionOnSet(Weight, Pods) = WeightUnit
  BY WeightsAddUp DEF Facts
<1>2. \A i \in Pods : Costs[i] = podCost(i) /\ Costs[i] = charge * Weight[i]
  BY <1>1 DEF Costs, podCost
<1>3. ASSUME NEW i \in Pods
      PROVE  Costs[i] \in Int
  <2>1. PICK w : w = Weight[i]
    OBVIOUS
  <2>2. charge * w \in Int
    BY <1>1, <2>1
  <2> QED
    BY <1>2, <2>1, <2>2
<1>4. ASSUME NEW S \in SUBSET Pods
      PROVE  /\ SumFunctionOnSet(Costs, S) = charge * SumFunctionOnSet(Weight, S)
             /\ SumFunctionOnSet(Weight, S) \in Nat
  <2>1. IsFiniteSet(S)
    BY <1>1, FS_Subset
  <2>2. \A i \in S : Weight[i] \in Nat /\ Weight[i] \in Int /\ Costs[i] = charge * Weight[i]
    BY <1>1, <1>2
  <2> QED
    BY <1>1, <2>1, <2>2, SumScales, SumOfNat
<1>5. SumFunctionOnSet(Costs, Pods) = WeightUnit * charge
  <2>1. SumFunctionOnSet(Costs, Pods) = charge * WeightUnit
    BY <1>1, <1>4
  <2>2. PICK a, b : a = charge /\ b = WeightUnit
    OBVIOUS
  <2>3. a * b = b * a
    BY <1>1, <2>2
  <2> QED
    BY <2>1, <2>2, <2>3
<1> QED
  BY <1>1, <1>2, <1>3, <1>4, <1>5

----------------------------------------------------------------------------
(* What aggregation and allocation have in common.                         *)

Spaces == {cluster[i].ns : i \in Pods}
Services(n) == {ServiceOf(i) : i \in PodsOf(n)}
PodsOfService(n, s) == {i \in PodsOf(n) : ServiceOf(i) = s}
Known(S) == SumFunctionOnSet(Costs, S)

\* The direct costs of every namespace, service and pod, in a k-th of the unit that
\* the aggregation has.
Ledger(c, k) ==
    /\ c.unit = k * WeightUnit
    /\ DOMAIN c.byNamespace = Spaces
    /\ \A n \in Spaces :
          /\ c.byNamespace[n].direct = k * Known(PodsOf(n))
          /\ c.byNamespace[n].byService = [s \in Services(n) |-> k * Known(PodsOfService(n, s))]
          /\ c.byNamespace[n].byPod = [i \in PodsOf(n) |-> k * Costs[i]]
          /\ c.byNamespace[n].team = TeamOf(Min(PodsOf(n)))

\* The sets the sums are over are finite.
LEMMA AllFinite ==
    ASSUME Facts
    PROVE  /\ IsFiniteSet(Spaces)
           /\ \A n \in Spaces : PodsOf(n) \in SUBSET Pods /\ IsFiniteSet(PodsOf(n))
                                 /\ IsFiniteSet(Services(n))
           /\ \A n : PodsOf(n) \in SUBSET Pods
           /\ \A S \in SUBSET Pods : IsFiniteSet(S) /\ Known(S) \in Int
<1>1. IsFiniteSet(Pods) /\ \A i \in Pods : Costs[i] \in Int
  BY PodsAddUp
<1>2. IsFiniteSet(Spaces)
  <2>1. PICK h : h = [i \in Pods |-> cluster[i].ns]
    OBVIOUS
  <2>2. Spaces = {h[i] : i \in Pods}
    BY <2>1 DEF Spaces
  <2> QED
    BY <1>1, <2>2, ImageIsFinite
<1>3. ASSUME NEW S \in SUBSET Pods
      PROVE  IsFiniteSet(S) /\ Known(S) \in Int
  <2>1. IsFiniteSet(S)
    BY <1>1, FS_Subset
  <2> QED
    BY <1>1, <2>1, SumIsInt DEF Known
<1>4. \A n : PodsOf(n) \in SUBSET Pods
  BY DEF PodsOf
<1>5. ASSUME NEW n \in Spaces
      PROVE  IsFiniteSet(Services(n))
  <2>1. PICK h : h = [i \in PodsOf(n) |-> ServiceOf(i)]
    OBVIOUS
  <2>2. Services(n) = {h[i] : i \in PodsOf(n)}
    BY <2>1 DEF Services
  <2>3. IsFiniteSet(PodsOf(n))
    BY <1>3, <1>4
  <2> QED
    BY <2>2, <2>3, ImageIsFinite
<1> QED
  BY <1>2, <1>3, <1>4, <1>5

\* The namespaces' direct costs add up to the charge.
LEMMA SpacesAddUp ==
    ASSUME Facts, NEW d, \A n \in Spaces : d[n] = Known(PodsOf(n))
    PROVE  SumFunctionOnSet(d, Spaces) = WeightUnit * charge
<1>1. PICK l, k : l = [i \in Pods |-> cluster[i].ns] /\ k = [n \in Spaces |-> PodsOf(n)]
  OBVIOUS
<1>2. /\ IsFiniteSet(Pods) /\ IsFiniteSet(Spaces) /\ \A i \in Pods : Costs[i] \in Int
      /\ SumFunctionOnSet(Costs, Pods) = WeightUnit * charge
  BY PodsAddUp, AllFinite
<1>3. \A i \in Pods : l[i] \in Spaces
  BY <1>1 DEF Spaces
<1>4. \A n \in Spaces : k[n] = {i \in Pods : l[i] = n}
  BY <1>1 DEF PodsOf
<1>5. \A n \in Spaces : d[n] = SumFunctionOnSet(Costs, k[n])
  BY <1>1 DEF Known
<1>6. SumFunctionOnSet(d, Spaces) = SumFunctionOnSet(Costs, Pods)
  BY <1>2, <1>3, <1>4, <1>5, SumOfClasses
<1> QED
  BY <1>2, <1>6

\* Within a namespace, services and pods add up to the direct cost.
LEMMA LedgerAddsUp ==
    ASSUME Facts, NEW c, NEW k \in Int, Ledger(c, k), NEW n \in DOMAIN c.byNamespace
    PROVE  /\ SumFunction(c.byNamespace[n].byService) = c.byNamespace[n].direct
           /\ SumFunction(c.byNamespace[n].byPod) = c.byNamespace[n].direct
<1>1. PICK r, P, f, s : /\ r = c.byNamespace[n] /\ P = PodsOf(n)
                        /\ f = r.byPod /\ s = r.byService
  OBVIOUS
<1>2. /\ n \in Spaces /\ r.direct = k * Known(P) /\ f = [i \in P |-> k * Costs[i]]
      /\ s = [t \in Services(n) |-> k * Known(PodsOfService(n, t))]
  BY <1>1 DEF Ledger
<1>3. IsFiniteSet(P) /\ P \subseteq Pods /\ IsFiniteSet(Services(n)) /\ Known(P) \in Int
      /\ \A i \in P : Costs[i] \in Int
  BY <1>1, <1>2, AllFinite, PodsAddUp
<1>4. SumFunctionOnSet(f, P) = k * Known(P)
  <2>1. \A i \in P : Costs[i] \in Int /\ f[i] = k * Costs[i]
    BY <1>2, <1>3
  <2> QED
    BY <1>3, <2>1, SumScales DEF Known
<1>5. SumFunctionOnSet(s, Services(n)) = k * Known(P)
  <2>1. PICK l, q, d : /\ l = [i \in P |-> ServiceOf(i)]
                       /\ q = [t \in Services(n) |-> PodsOfService(n, t)]
                       /\ d = [t \in Services(n) |-> Known(PodsOfService(n, t))]
    OBVIOUS
  <2>2. \A i \in P : l[i] \in Services(n)
    BY <1>1, <2>1 DEF Services
  <2>3. \A t \in Services(n) : q[t] = {i \in P : l[i] = t}
    BY <1>1, <2>1 DEF PodsOfService
  <2>4. \A t \in Services(n) : d[t] = SumFunctionOnSet(Costs, q[t]) /\ d[t] \in Int
    <3>1. \A t \in Services(n) : PodsOfService(n, t) \in SUBSET Pods
      BY <1>1, <1>3 DEF PodsOfService
    <3> QED
      BY <2>1, <3>1, AllFinite DEF Known
  <2>a. SumFunctionOnSet(d, Services(n)) = Known(P)
    BY <1>3, <2>2, <2>3, <2>4, SumOfClasses DEF Known
  <2>5. \A t \in Services(n) : d[t] \in Int /\ s[t] = k * d[t]
    BY <1>2, <2>1, <2>4
  <2>6. SumFunctionOnSet(s, Services(n)) = k * SumFunctionOnSet(d, Services(n))
    BY <1>3, <2>5, SumScales
  <2> QED
    BY <2>6, <2>a
<1>6. DOMAIN f = P /\ DOMAIN s = Services(n)
  BY <1>2
<1> QED
  BY <1>1, <1>2, <1>4, <1>5, <1>6 DEF SumFunction

----------------------------------------------------------------------------
(* The sums over namespaces and teams, as sums of functions.               *)

\* A sum of direct costs of namespaces or teams.
LEMMA DirectSum ==
    ASSUME NEW S, NEW f, NEW b, \A x \in S : f[x] = b[x].direct
    PROVE  SumOver(b, S, Direct) = SumFunctionOnSet(f, S)
<1> DEFINE A(x) == b[x].direct
<1>1. ASSUME NEW s \in SUBSET S, s # {}
      PROVE  A(Chosen(s)) = f[Chosen(s)]
  BY <1>1 DEF Chosen
<1>2. ASSUME NEW g
      PROVE  Sums(g, f, S) <=>
                g = [s \in SUBSET S |->
                       IF s = {} THEN 0 ELSE A(Chosen(s)) + g[s \ {Chosen(s)}]]
  <2> HIDE DEF A
  <2> QED
    BY <1>1 DEF Sums
<1>3. (CHOOSE g : Sums(g, f, S)) =
         CHOOSE g : g = [s \in SUBSET S |->
                           IF s = {} THEN 0 ELSE A(Chosen(s)) + g[s \ {Chosen(s)}]]
  BY <1>2
<1>4. SumOver(b, S, Direct) = (CHOOSE g : g = [s \in SUBSET S |->
                     IF s = {} THEN 0 ELSE A(Chosen(s)) + g[s \ {Chosen(s)}]])[S]
  BY DEF SumOver, Direct, MapThenSumSet, MapThenFoldSet, Chosen
<1> QED
  BY <1>3, <1>4, SumUnfolds

\* A sum of shared costs of namespaces or teams.
LEMMA SharedSum ==
    ASSUME NEW S, NEW f, NEW b, \A x \in S : f[x] = b[x].shared
    PROVE  SumOver(b, S, Shared) = SumFunctionOnSet(f, S)
<1> DEFINE A(x) == b[x].shared
<1>1. ASSUME NEW s \in SUBSET S, s # {}
      PROVE  A(Chosen(s)) = f[Chosen(s)]
  BY <1>1 DEF Chosen
<1>2. ASSUME NEW g
      PROVE  Sums(g, f, S) <=>
                g = [s \in SUBSET S |->
                       IF s = {} THEN 0 ELSE A(Chosen(s)) + g[s \ {Chosen(s)}]]
  <2> HIDE DEF A
  <2> QED
    BY <1>1 DEF Sums
<1>3. (CHOOSE g : Sums(g, f, S)) =
         CHOOSE g : g = [s \in SUBSET S |->
                           IF s = {} THEN 0 ELSE A(Chosen(s)) + g[s \ {Chosen(s)}]]
  BY <1>2
<1>4. SumOver(b, S, Shared) = (CHOOSE g : g = [s \in SUBSET S |->
                     IF s = {} THEN 0 ELSE A(Chosen(s)) + g[s \ {Chosen(s)}]])[S]
  BY DEF SumOver, Shared, MapThenSumSet, MapThenFoldSet, Chosen
<1> QED
  BY <1>3, <1>4, SumUnfolds

\* A sum of totals of namespaces or teams.
LEMMA TotalSum ==
    ASSUME NEW S, NEW f, NEW b, \A x \in S : f[x] = b[x].total
    PROVE  SumOver(b, S, Total) = SumFunctionOnSet(f, S)
<1> DEFINE A(x) == b[x].total
<1>1. ASSUME NEW s \in SUBSET S, s # {}
      PROVE  A(Chosen(s)) = f[Chosen(s)]
  BY <1>1 DEF Chosen
<1>2. ASSUME NEW g
      PROVE  Sums(g, f, S) <=>
                g = [s \in SUBSET S |->
                       IF s = {} THEN 0 ELSE A(Chosen(s)) + g[s \ {Chosen(s)}]]
  <2> HIDE DEF A
  <2> QED
    BY <1>1 DEF Sums
<1>3. (CHOOSE g : Sums(g, f, S)) =
         CHOOSE g : g = [s \in SUBSET S |->
                           IF s = {} THEN 0 ELSE A(Chosen(s)) + g[s \ {Chosen(s)}]]
  BY <1>2
<1>4. SumOver(b, S, Total) = (CHOOSE g : g = [s \in SUBSET S |->
                     IF s = {} THEN 0 ELSE A(Chosen(s)) + g[s \ {Chosen(s)}]])[S]
  BY DEF SumOver, Total, MapThenSumSet, MapThenFoldSet, Chosen
<1> QED
  BY <1>3, <1>4, SumUnfolds

----------------------------------------------------------------------------
(* The properties, of one set of costs.                                    *)

Conserved(c) ==
    Pods # {} =>
        /\ SumOver(c.byNamespace, DOMAIN c.byNamespace, Total) = c.unit * charge
        /\ c.total = c.unit * charge
        /\ \A n \in DOMAIN c.byNamespace :
              /\ SumFunction(c.byNamespace[n].byService) = c.byNamespace[n].direct
              /\ SumFunction(c.byNamespace[n].byPod) = c.byNamespace[n].direct

TeamsOk(c) ==
    /\ SumOver(c.byTeam, DOMAIN c.byTeam, Total) = c.total
    /\ \A n \in DOMAIN c.byNamespace :
          SumFunction([t \in DOMAIN c.byTeam |-> PaidBy(c, t, n)]) = c.byNamespace[n].total
    /\ \A t \in DOMAIN c.byTeam :
          /\ c.byTeam[t].total = c.byTeam[t].direct + c.byTeam[t].indirect
          /\ c.byTeam[t].total = SumFunction(c.byTeam[t].namespaces)

----------------------------------------------------------------------------
(* Aggregation.                                                            *)

\* The namespaces of the aggregation: direct costs in the unit of the weights,
\* nothing shared yet.
LEMMA AggregatedSpaces ==
    ASSUME Facts
    PROVE  /\ Ledger(correlateAndAggregate, 1)
           /\ correlateAndAggregate.total = WeightUnit * charge
           /\ \A n \in Spaces : /\ correlateAndAggregate.byNamespace[n].direct = Known(PodsOf(n))
                                /\ correlateAndAggregate.byNamespace[n].total = Known(PodsOf(n))
                                /\ correlateAndAggregate.byNamespace[n].shared = 0
<1>1. PICK A, b : A = correlateAndAggregate /\ b = A.byNamespace
  OBVIOUS
<1>2. /\ A.unit = WeightUnit /\ b = [n \in Spaces |-> NamespaceCost(n)] /\ A.total = CostOf(Pods)
  BY <1>1 DEF correlateAndAggregate, Spaces
<1>3. \A S \in SUBSET Pods : CostOf(S) = Known(S) /\ Known(S) \in Int
  BY PodSums, AllFinite DEF Known
<1>4. WeightUnit \in Nat /\ CostOf(Pods) = WeightUnit * charge
  BY PodSums, PodsAddUp
<1>5. ASSUME NEW n \in Spaces
      PROVE  /\ b[n].direct = Known(PodsOf(n)) /\ b[n].total = Known(PodsOf(n)) /\ b[n].shared = 0
             /\ b[n].direct = 1 * Known(PodsOf(n))
             /\ b[n].byService = [s \in Services(n) |-> 1 * Known(PodsOfService(n, s))]
             /\ b[n].byPod = [i \in PodsOf(n) |-> 1 * Costs[i]]
             /\ b[n].team = TeamOf(Min(PodsOf(n)))
  <2>1. PICK r : r = NamespaceCost(n)
    OBVIOUS
  <2>2. /\ r.direct = CostOf(PodsOf(n)) /\ r.total = CostOf(PodsOf(n)) /\ r.shared = 0
        /\ r.byService = [s \in Services(n) |-> CostOf(PodsOfService(n, s))]
        /\ r.byPod = [i \in PodsOf(n) |-> podCost(i)]
        /\ r.team = TeamOf(Min(PodsOf(n)))
    BY <2>1 DEF NamespaceCost, Services, PodsOfService
  <2>3. PodsOf(n) \in SUBSET Pods /\ \A s : PodsOfService(n, s) \in SUBSET Pods
    BY DEF PodsOf, PodsOfService
  <2>4. \A s : CostOf(PodsOfService(n, s)) = 1 * Known(PodsOfService(n, s))
    BY <1>3, <2>3
  <2>5. \A i \in PodsOf(n) : podCost(i) = 1 * Costs[i]
    BY <2>3, PodsAddUp
  <2>6. b[n] = r
    BY <1>2, <2>1
  <2>7. CostOf(PodsOf(n)) = Known(PodsOf(n)) /\ Known(PodsOf(n)) = 1 * Known(PodsOf(n))
    BY <1>3, <2>3
  <2>8. r.byService = [s \in Services(n) |-> 1 * Known(PodsOfService(n, s))]
    BY <2>2, <2>4
  <2>9. r.byPod = [i \in PodsOf(n) |-> 1 * Costs[i]]
    BY <2>2, <2>5
  <2> QED
    BY <2>2, <2>6, <2>7, <2>8, <2>9
<1>6. A.unit = 1 * WeightUnit /\ DOMAIN b = Spaces
  BY <1>2, <1>4
<1>7. Ledger(A, 1)
  BY <1>1, <1>5, <1>6 DEF Ledger
<1> QED
  BY <1>1, <1>2, <1>4, <1>5, <1>7

\* What AWS charged is what the aggregated namespaces and the cluster cost.
LEMMA AggregationConserves ==
    ASSUME Facts
    PROVE  Conserved(correlateAndAggregate)
<1>1. PICK A, b, d : /\ A = correlateAndAggregate /\ b = A.byNamespace
                     /\ d = [n \in Spaces |-> Known(PodsOf(n))]
  OBVIOUS
<1>2. /\ Ledger(A, 1) /\ A.total = WeightUnit * charge /\ WeightUnit \in Nat
      /\ \A n \in Spaces : d[n] = b[n].total
  BY <1>1, AggregatedSpaces, PodsAddUp
<1>3. A.unit = WeightUnit /\ DOMAIN b = Spaces
  BY <1>1, <1>2 DEF Ledger
<1>4. SumOver(b, Spaces, Total) = WeightUnit * charge
  <2>1. SumFunctionOnSet(d, Spaces) = WeightUnit * charge
    BY <1>1, SpacesAddUp
  <2> QED
    BY <1>2, <2>1, TotalSum
<1>5. \A n \in DOMAIN b : /\ SumFunction(b[n].byService) = b[n].direct
                          /\ SumFunction(b[n].byPod) = b[n].direct
  BY <1>1, <1>2, LedgerAddsUp
<1> QED
  BY <1>1, <1>2, <1>3, <1>4, <1>5 DEF Conserved

\* The aggregated teams add up, by team and by namespace: every pod has one team.
LEMMA AggregatedTeams ==
    ASSUME Facts
    PROVE  TeamsOk(correlateAndAggregate)
<1> DEFINE Teams == {TeamOf(i) : i \in Pods}
           Members(t) == {i \in Pods : TeamOf(i) = t}
           Places(t) == {cluster[i].ns : i \in Members(t)}
<1>1. PICK A, b : A = correlateAndAggregate /\ b = A.byTeam
  OBVIOUS
<1>2. b = [t \in Teams |-> TeamCost(t)] /\ A.total = CostOf(Pods)
  BY <1>1 DEF correlateAndAggregate
<1>3. /\ IsFiniteSet(Pods) /\ (\A i \in Pods : Costs[i] \in Int)
      /\ \A S \in SUBSET Pods : CostOf(S) = Known(S) /\ Known(S) \in Int /\ IsFiniteSet(S)
  BY PodSums, AllFinite, PodsAddUp DEF Known
<1>4. ASSUME NEW t \in Teams
      PROVE  /\ b[t].direct = Known(Members(t)) /\ b[t].total = Known(Members(t))
             /\ b[t].indirect = 0 /\ Members(t) \in SUBSET Pods
             /\ b[t].namespaces = [n \in Places(t) |-> Known(Members(t) \cap PodsOf(n))]
  <2>1. PICK r : r = TeamCost(t)
    OBVIOUS
  <2>2. /\ r.direct = CostOf(Members(t)) /\ r.total = CostOf(Members(t)) /\ r.indirect = 0
        /\ r.namespaces = [n \in Places(t) |-> CostOf(Members(t) \cap PodsOf(n))]
    BY <2>1 DEF TeamCost
  <2>3. \A n : CostOf(Members(t) \cap PodsOf(n)) = Known(Members(t) \cap PodsOf(n))
    BY <1>3
  <2>4. CostOf(Members(t)) = Known(Members(t)) /\ Members(t) \in SUBSET Pods
    BY <1>3
  <2>5. b[t] = r
    BY <1>2, <2>1
  <2> HIDE DEF Members, Places
  <2> QED
    BY <2>2, <2>3, <2>4, <2>5
<1>5. SumOver(b, Teams, Total) = A.total
  <2>1. PICK l, k, d : /\ l = [i \in Pods |-> TeamOf(i)] /\ k = [t \in Teams |-> Members(t)]
                       /\ d = [t \in Teams |-> Known(Members(t))]
    OBVIOUS
  <2>2. Teams = {l[i] : i \in Pods}
    BY <2>1
  <2>3. IsFiniteSet(Teams)
    BY <1>3, <2>2, ImageIsFinite
  <2>4. \A i \in Pods : l[i] \in Teams
    BY <2>1
  <2>5. \A t \in Teams : k[t] = {i \in Pods : l[i] = t}
    BY <2>1
  <2>6. \A t \in Teams : d[t] = SumFunctionOnSet(Costs, k[t]) /\ d[t] = b[t].total
    <3> HIDE DEF Teams, Members
    <3> QED
      BY <1>4, <2>1 DEF Known
  <2> HIDE DEF Teams, Members
  <2>7. SumFunctionOnSet(d, Teams) = SumFunctionOnSet(Costs, Pods)
    BY <1>3, <2>3, <2>4, <2>5, <2>6, SumOfClasses
  <2>8. SumOver(b, Teams, Total) = SumFunctionOnSet(d, Teams)
    BY <2>6, TotalSum
  <2> QED
    BY <1>2, <1>3, <2>7, <2>8 DEF Known
<1>6. ASSUME NEW t \in Teams
      PROVE  b[t].total = SumFunction(b[t].namespaces)
  <2>1. PICK S, D, f : S = Members(t) /\ D = Places(t) /\ f = b[t].namespaces
    OBVIOUS
  <2>2. PICK l, k : l = [i \in S |-> cluster[i].ns] /\ k = [n \in D |-> S \cap PodsOf(n)]
    OBVIOUS
  <2>3. /\ S \in SUBSET Pods /\ f = [n \in D |-> Known(S \cap PodsOf(n))] /\ b[t].total = Known(S)
    <3> HIDE DEF Teams, Members, Places
    <3> QED
      BY <1>4, <2>1
  <2>4. D = {l[i] : i \in S}
    BY <2>1, <2>2
  <2>5. IsFiniteSet(S) /\ IsFiniteSet(D) /\ \A i \in S : Costs[i] \in Int
    BY <1>3, <2>3, <2>4, ImageIsFinite
  <2>6. \A i \in S : l[i] \in D
    BY <2>4
  <2>7. \A n \in D : k[n] = {i \in S : l[i] = n}
    BY <2>2, <2>3 DEF PodsOf
  <2>8. \A n \in D : f[n] = SumFunctionOnSet(Costs, k[n])
    BY <2>2, <2>3 DEF Known
  <2>9. SumFunctionOnSet(f, D) = SumFunctionOnSet(Costs, S)
    BY <2>5, <2>6, <2>7, <2>8, SumOfClasses
  <2> QED
    BY <2>1, <2>3, <2>9 DEF SumFunction, Known
<1>7. ASSUME NEW t \in Teams
      PROVE  b[t].total = b[t].direct + b[t].indirect
  <2>1. PICK x : x = Known(Members(t))
    OBVIOUS
  <2>2. x \in Int
    BY <1>3, <2>1
  <2> HIDE DEF Teams, Members, Places
  <2>3. b[t].direct = x /\ b[t].total = x /\ b[t].indirect = 0
    BY <1>4, <2>1
  <2> QED
    BY <2>2, <2>3
<1>8. DOMAIN b = Teams
  BY <1>2
<1>9. ASSUME NEW n \in Spaces
      PROVE  SumFunction([t \in Teams |-> PaidBy(A, t, n)]) = A.byNamespace[n].total
  <2>1. PICK S, l, k, e : /\ S = PodsOf(n) /\ l = [i \in S |-> TeamOf(i)]
                          /\ k = [t \in Teams |-> {i \in S : TeamOf(i) = t}]
                          /\ e = [t \in Teams |-> PaidBy(A, t, n)]
    OBVIOUS
  <2>2. S \in SUBSET Pods /\ IsFiniteSet(S) /\ (\A i \in S : Costs[i] \in Int)
    BY <1>3, <2>1 DEF PodsOf
  <2>3. IsFiniteSet(Teams)
    <3>1. PICK h : h = [i \in Pods |-> TeamOf(i)]
      OBVIOUS
    <3>2. Teams = {h[i] : i \in Pods}
      BY <3>1
    <3> HIDE DEF Teams
    <3> QED
      BY <1>3, <3>2, ImageIsFinite
  <2>4. (\A i \in S : l[i] \in Teams) /\ \A t \in Teams : k[t] = {i \in S : l[i] = t}
    BY <2>1, <2>2
  <2>5. ASSUME NEW t \in Teams PROVE e[t] = SumFunctionOnSet(Costs, k[t])
    <3>1. k[t] = Members(t) \cap PodsOf(n)
      BY <2>1, <2>2
    <3>2. PICK f : f = b[t].namespaces
      OBVIOUS
    <3>3. f = [m \in Places(t) |-> Known(Members(t) \cap PodsOf(m))]
      <4> HIDE DEF Teams, Members, Places
      <4> QED
        BY <1>4, <3>2
    <3>4. e[t] = IF n \in DOMAIN f THEN f[n] ELSE 0
      BY <1>1, <2>1, <3>2 DEF PaidBy
    <3>5. CASE n \in Places(t)
      <4> HIDE DEF Teams, Members, Places
      <4> QED
        BY <3>1, <3>3, <3>4, <3>5 DEF Known
    <3>6. CASE n \notin Places(t)
      <4>1. k[t] = {}
        BY <3>1, <3>6 DEF PodsOf
      <4>2. SumFunctionOnSet(Costs, {}) = 0
        BY FS_EmptySet, SumByChosen
      <4> HIDE DEF Teams, Members, Places
      <4> QED
        BY <3>3, <3>4, <3>6, <4>1, <4>2
    <3> QED
      BY <3>5, <3>6
  <2> HIDE DEF Teams, Members, Places
  <2>6. SumFunctionOnSet(e, Teams) = SumFunctionOnSet(Costs, S)
    BY <2>2, <2>3, <2>4, <2>5, SumOfClasses
  <2>7. SumFunction(e) = SumFunctionOnSet(e, Teams)
    BY <2>1 DEF SumFunction
  <2>8. A.byNamespace[n].total = Known(S)
    BY <1>1, <2>1, AggregatedSpaces
  <2> QED
    BY <2>1, <2>6, <2>7, <2>8 DEF Known
<1>10. DOMAIN A.byNamespace = Spaces
  BY <1>1, AggregatedSpaces DEF Ledger
<1> HIDE DEF Teams, Members, Places
<1> QED
  BY <1>1, <1>5, <1>6, <1>7, <1>8, <1>9, <1>10 DEF TeamsOk

----------------------------------------------------------------------------
(* Allocation.                                                             *)

\* The namespaces whose cost is passed on, the ones that take it, and the direct costs.
Sources(labelsKnown) == {n \in Spaces : isSystemNamespace(n, labelsKnown)}
Takers(labelsKnown) == Spaces \ Sources(labelsKnown)
Directs == [n \in Spaces |-> Known(PodsOf(n))]

\* The namespaces after the allocation: in a k-th of the unit, with the shares sh.
Passed(c, labelsKnown, k, sh) ==
    /\ Ledger(c, k)
    /\ \A n \in Sources(labelsKnown) : c.byNamespace[n].shared = 0 /\ c.byNamespace[n].total = 0
    /\ \A n \in Takers(labelsKnown) : /\ c.byNamespace[n].shared = sh[n]
                                      /\ c.byNamespace[n].total = k * Directs[n] + sh[n]

\* The teams after the allocation: those of the takers.
Regrouped(c, labelsKnown) ==
    LET b == c.byNamespace
        T == Takers(labelsKnown)
    IN  /\ c.total = SumOver(b, T, Total)
        /\ c.byTeam = [t \in {b[n].team : n \in T} |-> RebuiltTeam(b, {n \in T : b[n].team = t})]

\* The shares and the unit they are in, from what is shared and the takers' direct cost.
SharesAre(labelsKnown, k, sh) ==
    LET S == SumFunctionOnSet(Directs, Sources(labelsKnown))
        N == SumFunctionOnSet(Directs, Takers(labelsKnown))
    IN  /\ k = IF N = 0 THEN Cardinality(Takers(labelsKnown)) ELSE N
        /\ sh = [n \in Spaces |-> IF N = 0 THEN S ELSE S * Directs[n]]

\* What Allocated makes of the fields of a namespace's record.
LEMMA AllocatedFields ==
    ASSUME NEW t, NEW d, NEW bs, NEW bp, NEW k, NEW share, NEW x, NEW U, NEW r, NEW a,
           r = [team |-> t, direct |-> d, shared |-> 0, total |-> d, byService |-> bs, byPod |-> bp],
           a = Allocated(r, k, x \in U, share)
    PROVE  /\ a.team = t /\ a.direct = k * d
           /\ a.shared = IF x \in U THEN 0 ELSE share
           /\ a.total = IF x \in U THEN 0 ELSE k * d + share
           /\ a.byService = [s \in DOMAIN bs |-> k * bs[s]]
           /\ a.byPod = [i \in DOMAIN bp |-> k * bp[i]]
<1>1. PICK q : q = Rescaled(r, k)
  OBVIOUS
<1>2. q = [team |-> t, direct |-> k * d, shared |-> 0, total |-> k * d,
           byService |-> [s \in DOMAIN bs |-> k * bs[s]], byPod |-> [i \in DOMAIN bp |-> k * bp[i]]]
  BY <1>1 DEF Rescaled
<1>3. a = IF x \in U THEN [q EXCEPT !.total = 0]
          ELSE [q EXCEPT !.shared = share, !.total = q.direct + share]
  BY <1>1 DEF Allocated
<1>4. CASE x \in U
  BY <1>2, <1>3, <1>4
<1>5. CASE x \notin U
  BY <1>2, <1>3, <1>5
<1> QED
  BY <1>4, <1>5

\* Allocation leaves the costs as they are, or passes what is shared on.
LEMMA AllocationCases ==
    ASSUME Facts, NEW labelsKnown \in BOOLEAN, NEW c,
           c = allocateSharedCosts(correlateAndAggregate, labelsKnown)
    PROVE  \/ /\ c = correlateAndAggregate
              /\ \/ SumFunctionOnSet(Directs, Sources(labelsKnown)) = 0
                 \/ Takers(labelsKnown) = {}
           \/ /\ SumFunctionOnSet(Directs, Sources(labelsKnown)) # 0
              /\ Takers(labelsKnown) # {}
              /\ \E k, sh : /\ SharesAre(labelsKnown, k, sh)
                            /\ Passed(c, labelsKnown, k, sh)
                            /\ Regrouped(c, labelsKnown)
<1>1. PICK A, b, Sy, T : /\ A = correlateAndAggregate /\ b = A.byNamespace
                         /\ Sy = Sources(labelsKnown) /\ T = Takers(labelsKnown)
  OBVIOUS
<1> DEFINE systemNS == {n \in DOMAIN A.byNamespace : isSystemNamespace(n, labelsKnown)}
           nonSystemNS == DOMAIN A.byNamespace \ systemNS
           totalSharedCost == SumOver(A.byNamespace, systemNS, Direct)
           totalNonSystemDirect == SumOver(A.byNamespace, nonSystemNS, Direct)
           factor == IF totalNonSystemDirect = 0 THEN Cardinality(nonSystemNS) ELSE totalNonSystemDirect
           share(n) == ShareOf(A.byNamespace[n].direct, totalSharedCost,
                               totalNonSystemDirect, Cardinality(nonSystemNS))
           byNamespace == [n \in DOMAIN A.byNamespace |->
                              Allocated(A.byNamespace[n], factor, n \in systemNS, share(n))]
           outcome == IF totalSharedCost = 0 \/ nonSystemNS = {} THEN A
                      ELSE [unit        |-> factor * A.unit,
                            byNamespace |-> byNamespace,
                            byTeam      |-> [t \in {byNamespace[n].team : n \in nonSystemNS} |->
                               RebuiltTeam(byNamespace, {n \in nonSystemNS : byNamespace[n].team = t})],
                            total       |-> SumOver(byNamespace, nonSystemNS, Total)]
<1>0. c = outcome
  BY <1>1 DEF allocateSharedCosts
<1>2. /\ Ledger(A, 1)
      /\ \A n \in Spaces : b[n].direct = Known(PodsOf(n)) /\ b[n].total = Known(PodsOf(n))
                           /\ b[n].shared = 0
  BY <1>1, AggregatedSpaces
<1>3. b = [n \in Spaces |-> NamespaceCost(n)] /\ A.unit = WeightUnit
  BY <1>1 DEF correlateAndAggregate, Spaces
<1>4. /\ Sy = systemNS /\ T = nonSystemNS
      /\ Sy \subseteq Spaces /\ T \subseteq Spaces /\ DOMAIN b = Spaces
  BY <1>1, <1>3 DEF Sources, Takers
<1>5. PICK S, N : S = SumOver(b, Sy, Direct) /\ N = SumOver(b, T, Direct)
  OBVIOUS
<1>6. PICK k : k = IF N = 0 THEN Cardinality(T) ELSE N
  OBVIOUS
<1>7. PICK sh : sh = [n \in Spaces |-> ShareOf(b[n].direct, S, N, Cardinality(T))]
  OBVIOUS
<1> HIDE DEF systemNS, nonSystemNS
<1>a. S = totalSharedCost /\ N = totalNonSystemDirect
  BY <1>1, <1>4, <1>5
<1> HIDE DEF totalSharedCost, totalNonSystemDirect
<1>b. k = factor
  BY <1>4, <1>6, <1>a
<1> HIDE DEF factor
<1>8. PICK z : z = byNamespace
  OBVIOUS
<1>c. DOMAIN z = Spaces /\ \A n \in Spaces : z[n] = Allocated(b[n], k, n \in Sy, sh[n])
  BY <1>1, <1>4, <1>7, <1>8, <1>a, <1>b
<1> HIDE DEF byNamespace
<1>9. c = IF S = 0 \/ T = {} THEN A
          ELSE [unit |-> k * A.unit, byNamespace |-> z,
                byTeam |-> [t \in {z[n].team : n \in T} |-> RebuiltTeam(z, {n \in T : z[n].team = t})],
                total |-> SumOver(z, T, Total)]
  BY <1>0, <1>4, <1>8, <1>a, <1>b
<1>10. S = SumFunctionOnSet(Directs, Sy) /\ N = SumFunctionOnSet(Directs, T)
  <2>1. \A n \in Spaces : Directs[n] = b[n].direct
    BY <1>2 DEF Directs
  <2> QED
    BY <1>4, <1>5, <2>1, DirectSum
<1>11. SharesAre(labelsKnown, k, sh)
  <2>1. sh = [n \in Spaces |-> IF N = 0 THEN S ELSE S * Directs[n]]
    BY <1>2, <1>7 DEF ShareOf, Directs
  <2> QED
    BY <1>1, <1>6, <1>10, <2>1 DEF SharesAre
<1>12. ASSUME S # 0, T # {}
       PROVE  Passed(c, labelsKnown, k, sh) /\ Regrouped(c, labelsKnown)
  <2>1. /\ c.unit = k * A.unit /\ c.byNamespace = z /\ c.total = SumOver(z, T, Total)
        /\ c.byTeam = [t \in {z[n].team : n \in T} |-> RebuiltTeam(z, {n \in T : z[n].team = t})]
    BY <1>9, <1>12
  <2>2. Regrouped(c, labelsKnown)
    BY <1>1, <2>1 DEF Regrouped
  <2>3. ASSUME NEW n \in Spaces
        PROVE  /\ z[n].direct = k * Known(PodsOf(n))
               /\ z[n].byService = [s \in Services(n) |-> k * Known(PodsOfService(n, s))]
               /\ z[n].byPod = [i \in PodsOf(n) |-> k * Costs[i]]
               /\ z[n].team = TeamOf(Min(PodsOf(n)))
               /\ z[n].shared = IF n \in Sy THEN 0 ELSE sh[n]
               /\ z[n].total = IF n \in Sy THEN 0 ELSE k * Directs[n] + sh[n]
    <3>1. PICK r, a, bs, bp : /\ r = NamespaceCost(n) /\ a = z[n]
                              /\ bs = [s \in Services(n) |-> CostOf(PodsOfService(n, s))]
                              /\ bp = [i \in PodsOf(n) |-> podCost(i)]
      OBVIOUS
    <3>2. PICK t, d : t = TeamOf(Min(PodsOf(n))) /\ d = CostOf(PodsOf(n))
      OBVIOUS
    <3>3. r = [team |-> t, direct |-> d, shared |-> 0, total |-> d, byService |-> bs, byPod |-> bp]
      BY <3>1, <3>2 DEF NamespaceCost, Services, PodsOfService
    <3>5. a = Allocated(r, k, n \in Sy, sh[n])
      BY <1>3, <1>c, <3>1
    <3>6. /\ a.team = t /\ a.direct = k * d
          /\ a.shared = IF n \in Sy THEN 0 ELSE sh[n]
          /\ a.total = IF n \in Sy THEN 0 ELSE k * d + sh[n]
          /\ a.byService = [s \in DOMAIN bs |-> k * bs[s]]
          /\ a.byPod = [i \in DOMAIN bp |-> k * bp[i]]
      BY <3>3, <3>5, AllocatedFields
    <3>7. /\ PodsOf(n) \in SUBSET Pods /\ \A s : PodsOfService(n, s) \in SUBSET Pods
      BY DEF PodsOf, PodsOfService
    <3>8. \A X \in SUBSET Pods : CostOf(X) = Known(X)
      BY PodSums DEF Known
    <3>9. d = Known(PodsOf(n)) /\ d = Directs[n]
      BY <3>2, <3>7, <3>8 DEF Directs
    <3>10. [s \in DOMAIN bs |-> k * bs[s]] = [s \in Services(n) |-> k * Known(PodsOfService(n, s))]
      BY <3>1, <3>7, <3>8
    <3>11. [i \in DOMAIN bp |-> k * bp[i]] = [i \in PodsOf(n) |-> k * Costs[i]]
      BY <3>1, <3>7 DEF Costs
    <3> QED
      BY <3>1, <3>2, <3>6, <3>9, <3>10, <3>11
  <2>4. Ledger(c, k)
    BY <1>3, <1>c, <2>1, <2>3 DEF Ledger
  <2>5. \A n \in Sy : n \in Spaces
    BY <1>4
  <2>6. \A n \in T : n \in Spaces /\ n \notin Sy
    BY <1>1 DEF Takers
  <2> QED
    BY <1>1, <2>1, <2>2, <2>3, <2>4, <2>5, <2>6 DEF Passed
<1> QED
  BY <1>1, <1>9, <1>10, <1>11, <1>12

\* What is known of the namespaces' direct costs: they are the charge's shares, so they all
\* have its sign, and the sources' and the takers' make up the whole.
LEMMA DirectsAddUp ==
    ASSUME Facts, NEW labelsKnown
    PROVE  /\ IsFiniteSet(Sources(labelsKnown)) /\ IsFiniteSet(Takers(labelsKnown))
           /\ Spaces = Sources(labelsKnown) \cup Takers(labelsKnown)
           /\ Sources(labelsKnown) \cap Takers(labelsKnown) = {}
           /\ \A n \in Spaces : Directs[n] \in Int /\ Directs[n] = Known(PodsOf(n))
           /\ SumFunctionOnSet(Directs, Sources(labelsKnown)) \in Int
           /\ SumFunctionOnSet(Directs, Takers(labelsKnown)) \in Int
           /\ SumFunctionOnSet(Directs, Sources(labelsKnown))
                 + SumFunctionOnSet(Directs, Takers(labelsKnown)) = WeightUnit * charge
<1>1. PICK Sy, T : Sy = Sources(labelsKnown) /\ T = Takers(labelsKnown)
  OBVIOUS
<1>2. Spaces = Sy \cup T /\ Sy \cap T = {} /\ Sy \subseteq Spaces /\ T \subseteq Spaces
  BY <1>1 DEF Sources, Takers
<1>3. IsFiniteSet(Sy) /\ IsFiniteSet(T)
  BY <1>2, AllFinite, FS_Subset
<1>4. \A n \in Spaces : Directs[n] = Known(PodsOf(n))
  BY DEF Directs
<1>5. \A n \in Spaces : Directs[n] \in Int
  BY <1>4, AllFinite
<1>6. SumFunctionOnSet(Directs, Spaces) = WeightUnit * charge
  BY <1>4, SpacesAddUp
<1>7. SumFunctionOnSet(Directs, Sy \cup T) = SumFunctionOnSet(Directs, Sy) + SumFunctionOnSet(Directs, T)
  BY <1>2, <1>3, <1>5, SumUnion
<1>8. SumFunctionOnSet(Directs, Sy) \in Int /\ SumFunctionOnSet(Directs, T) \in Int
  BY <1>2, <1>3, <1>5, SumIsInt
<1>9. SumFunctionOnSet(Directs, Sy) + SumFunctionOnSet(Directs, T) = WeightUnit * charge
  BY <1>2, <1>6, <1>7
<1> QED
  BY <1>1, <1>2, <1>3, <1>4, <1>5, <1>8, <1>9

\* The shares add up to what is shared, whether or not a taker has direct cost.
LEMMA SharesAddUp ==
    ASSUME Facts, NEW labelsKnown, NEW k, NEW sh, SharesAre(labelsKnown, k, sh),
           Takers(labelsKnown) # {}
    PROVE  /\ k \in Int /\ k # 0
           /\ \A n \in Spaces : sh[n] \in Int
           /\ SumFunctionOnSet(sh, Takers(labelsKnown)) =
                 k * SumFunctionOnSet(Directs, Sources(labelsKnown))
<1>1. PICK T, S, N : /\ T = Takers(labelsKnown)
                     /\ S = SumFunctionOnSet(Directs, Sources(labelsKnown))
                     /\ N = SumFunctionOnSet(Directs, T)
  OBVIOUS
<1>2. /\ IsFiniteSet(T) /\ T \subseteq Spaces /\ T # {} /\ S \in Int /\ N \in Int
      /\ \A n \in Spaces : Directs[n] \in Int
  BY <1>1, DirectsAddUp
<1>3. /\ k = IF N = 0 THEN Cardinality(T) ELSE N
      /\ sh = [n \in Spaces |-> IF N = 0 THEN S ELSE S * Directs[n]]
  BY <1>1 DEF SharesAre
<1>4. Cardinality(T) \in Nat /\ Cardinality(T) # 0
  BY <1>2, FS_CardinalityType, FS_EmptySet
<1>5. k \in Int /\ k # 0
  BY <1>2, <1>3, <1>4
<1>6. CASE N = 0
  <2>1. \A n \in Spaces : sh[n] = S /\ sh[n] \in Int
    BY <1>2, <1>3, <1>6
  <2>2. SumFunctionOnSet(sh, T) = Cardinality(T) * S
    BY <1>2, <2>1, SumOfConstant
  <2> QED
    BY <1>1, <1>3, <1>5, <1>6, <2>1, <2>2
<1>7. CASE N # 0
  <2>1. \A n \in Spaces : sh[n] = S * Directs[n]
    BY <1>3, <1>7
  <2>2. ASSUME NEW n \in Spaces
        PROVE  sh[n] \in Int
    <3>1. PICK d : d = Directs[n]
      OBVIOUS
    <3>2. S * d \in Int
      BY <1>2, <3>1
    <3> QED
      BY <2>1, <3>1, <3>2
  <2>3. SumFunctionOnSet(sh, T) = S * N
    <3>1. \A n \in T : Directs[n] \in Int /\ sh[n] = S * Directs[n]
      BY <1>2, <2>1
    <3> QED
      BY <1>1, <1>2, <3>1, SumScales
  <2>4. S * N = N * S
    BY <1>2
  <2> QED
    BY <1>1, <1>3, <1>5, <1>7, <2>2, <2>3, <2>4
<1> QED
  BY <1>6, <1>7

\* After the allocation the totals still add up to the charge.
LEMMA AllocationConserves ==
    ASSUME Facts, NEW labelsKnown, NEW c, NEW k, NEW sh, SharesAre(labelsKnown, k, sh),
           Takers(labelsKnown) # {}, Passed(c, labelsKnown, k, sh), Regrouped(c, labelsKnown)
    PROVE  Conserved(c)
<1>1. PICK Sy, T, b, S, N : /\ Sy = Sources(labelsKnown) /\ T = Takers(labelsKnown)
                            /\ b = c.byNamespace
                            /\ S = SumFunctionOnSet(Directs, Sy) /\ N = SumFunctionOnSet(Directs, T)
  OBVIOUS
<1>2. /\ IsFiniteSet(Sy) /\ IsFiniteSet(T) /\ Spaces = Sy \cup T /\ Sy \cap T = {}
      /\ \A n \in Spaces : Directs[n] \in Int
      /\ S \in Int /\ N \in Int /\ S + N = WeightUnit * charge
  BY <1>1, DirectsAddUp
<1>3. /\ k \in Int /\ (\A n \in Spaces : sh[n] \in Int) /\ SumFunctionOnSet(sh, T) = k * S
  BY <1>1, SharesAddUp
<1>4. /\ Ledger(c, k) /\ (\A n \in Sy : b[n].total = 0)
      /\ \A n \in T : b[n].total = k * Directs[n] + sh[n]
  BY <1>1 DEF Passed
<1>5. PICK t, d : t = [n \in Spaces |-> b[n].total] /\ d = [n \in Spaces |-> k * Directs[n]]
  OBVIOUS
<1>6. \A n \in Spaces : d[n] \in Int
  <2> SUFFICES ASSUME NEW n \in Spaces
               PROVE  d[n] \in Int
    OBVIOUS
  <2>1. PICK y : y = Directs[n]
    OBVIOUS
  <2>2. k * y \in Int
    BY <1>2, <1>3, <2>1
  <2> QED
    BY <1>5, <2>1, <2>2
<1>7. SumFunctionOnSet(t, T) = k * N + k * S
  <2>1. \A n \in T : Directs[n] \in Int /\ d[n] = k * Directs[n]
    BY <1>2, <1>5
  <2>2. SumFunctionOnSet(d, T) = k * N
    BY <1>1, <1>2, <1>3, <2>1, SumScales
  <2>3. \A n \in T : d[n] \in Int /\ sh[n] \in Int /\ t[n] = d[n] + sh[n]
    BY <1>2, <1>3, <1>4, <1>5, <1>6
  <2>4. SumFunctionOnSet(t, T) = SumFunctionOnSet(d, T) + SumFunctionOnSet(sh, T)
    BY <1>2, <2>3, SumAdds
  <2> QED
    BY <1>3, <2>2, <2>4
<1>8. SumFunctionOnSet(t, Sy) = 0
  <2>1. \A n \in Sy : t[n] = 0
    BY <1>2, <1>4, <1>5
  <2> QED
    BY <1>2, <2>1, SumOfZeros
<1>9. SumFunctionOnSet(t, Spaces) = k * N + k * S
  <2>1. \A n \in Sy \cup T : t[n] \in Int
    <3>1. \A n \in T : t[n] = d[n] + sh[n]
      BY <1>2, <1>4, <1>5
    <3>2. \A n \in Sy : t[n] = 0
      BY <1>2, <1>4, <1>5
    <3> QED
      BY <1>2, <1>3, <1>6, <3>1, <3>2
  <2>2. SumFunctionOnSet(t, Spaces) = SumFunctionOnSet(t, Sy) + SumFunctionOnSet(t, T)
    BY <1>2, <2>1, SumUnion
  <2>3. k * N + k * S \in Int
    BY <1>2, <1>3
  <2> QED
    BY <1>7, <1>8, <2>2, <2>3
<1>10. c.unit * charge = k * N + k * S
  <2>1. PICK w : w = WeightUnit
    OBVIOUS
  <2>2. w \in Nat /\ charge \in Int /\ c.unit = k * w /\ S + N = w * charge
    BY <1>2, <1>4, <2>1, PodsAddUp DEF Ledger, Facts
  <2>3. (k * w) * charge = k * (w * charge)
    BY <1>3, <2>2
  <2>4. k * (S + N) = k * N + k * S
    BY <1>2, <1>3
  <2> QED
    BY <2>2, <2>3, <2>4
<1>11. DOMAIN b = Spaces /\ SumOver(b, Spaces, Total) = c.unit * charge
  <2>1. \A n \in Spaces : t[n] = b[n].total
    BY <1>5
  <2>2. SumOver(b, Spaces, Total) = SumFunctionOnSet(t, Spaces)
    BY <2>1, TotalSum
  <2> QED
    BY <1>1, <1>4, <1>9, <1>10, <2>2 DEF Ledger
<1>12. c.total = c.unit * charge
  <2>1. \A n \in T : t[n] = b[n].total
    BY <1>2, <1>5
  <2>2. SumOver(b, T, Total) = SumFunctionOnSet(t, T)
    BY <2>1, TotalSum
  <2> QED
    BY <1>1, <1>7, <1>10, <2>2 DEF Regrouped
<1>13. \A n \in DOMAIN b : /\ SumFunction(b[n].byService) = b[n].direct
                           /\ SumFunction(b[n].byPod) = b[n].direct
  BY <1>1, <1>3, <1>4, LedgerAddsUp
<1> QED
  BY <1>1, <1>11, <1>12, <1>13 DEF Conserved

\* After the allocation the teams add up: every taker has one team.
LEMMA RegroupedTeams ==
    ASSUME Facts, NEW labelsKnown, NEW c, NEW k, NEW sh, SharesAre(labelsKnown, k, sh),
           Takers(labelsKnown) # {}, Passed(c, labelsKnown, k, sh), Regrouped(c, labelsKnown)
    PROVE  TeamsOk(c)
<1>1. PICK T, b, l, d, g, t : /\ T = Takers(labelsKnown) /\ b = c.byNamespace
                              /\ l = [n \in T |-> b[n].team] /\ d = [n \in T |-> b[n].direct]
                              /\ g = [n \in T |-> b[n].shared] /\ t = [n \in T |-> b[n].total]
  OBVIOUS
<1>2. PICK D, p : D = {b[n].team : n \in T} /\ p = [x \in D |-> {n \in T : b[n].team = x}]
  OBVIOUS
<1>3. IsFiniteSet(T) /\ T \subseteq Spaces /\ \A n \in Spaces : Directs[n] \in Int /\ Directs[n] = Known(PodsOf(n))
  BY <1>1, DirectsAddUp
<1>4. ASSUME NEW n \in T
      PROVE  d[n] \in Int /\ g[n] \in Int /\ t[n] = d[n] + g[n] /\ t[n] \in Int
  <2>1. PICK y : y = Directs[n]
    OBVIOUS
  <2>2. y \in Int /\ k \in Int /\ sh[n] \in Int /\ y = Known(PodsOf(n))
    BY <1>3, <2>1, SharesAddUp
  <2>3. k * y \in Int
    BY <2>2
  <2>4. b[n].direct = k * y /\ b[n].shared = sh[n] /\ b[n].total = k * y + sh[n]
    BY <1>1, <1>3, <2>1, <2>2 DEF Passed, Ledger
  <2>5. d[n] = k * y /\ g[n] = sh[n] /\ t[n] = k * y + sh[n]
    BY <1>1, <2>4
  <2> QED
    BY <2>2, <2>3, <2>5
<1>5. c.total = SumOver(b, T, Total) /\ c.byTeam = [x \in D |-> RebuiltTeam(b, p[x])]
  <2>1. c.byTeam = [x \in D |-> RebuiltTeam(b, {n \in T : b[n].team = x})] /\ c.total = SumOver(b, T, Total)
    BY <1>1, <1>2 DEF Regrouped
  <2> QED
    BY <1>2, <2>1
<1>6. ASSUME NEW x \in D
      PROVE  /\ p[x] \subseteq T /\ IsFiniteSet(p[x])
             /\ c.byTeam[x].direct = SumFunctionOnSet(d, p[x])
             /\ c.byTeam[x].indirect = SumFunctionOnSet(g, p[x])
             /\ c.byTeam[x].total = c.byTeam[x].direct + c.byTeam[x].indirect
             /\ c.byTeam[x].total = SumFunctionOnSet(t, p[x])
             /\ c.byTeam[x].namespaces = [n \in p[x] |-> b[n].total]
  <2>1. PICK M, r : M = p[x] /\ r = c.byTeam[x]
    OBVIOUS
  <2>2. M \subseteq T /\ IsFiniteSet(M)
    <3>1. M \subseteq T
      BY <1>2, <2>1
    <3> QED
      BY <1>3, <3>1, FS_Subset
  <2>3. r = RebuiltTeam(b, M)
    BY <1>5, <2>1
  <2>4. /\ r.direct = SumOver(b, M, Direct) /\ r.indirect = SumOver(b, M, Shared)
        /\ r.total = r.direct + r.indirect /\ r.namespaces = [n \in M |-> b[n].total]
    BY <2>3 DEF RebuiltTeam
  <2>5. \A n \in M : d[n] = b[n].direct /\ g[n] = b[n].shared
    BY <1>1, <2>2
  <2>6. r.direct = SumFunctionOnSet(d, M) /\ r.indirect = SumFunctionOnSet(g, M)
    BY <2>4, <2>5, DirectSum, SharedSum
  <2>7. \A n \in M : d[n] \in Int /\ g[n] \in Int /\ t[n] = d[n] + g[n]
    BY <1>4, <2>2
  <2>8. SumFunctionOnSet(t, M) = SumFunctionOnSet(d, M) + SumFunctionOnSet(g, M)
    BY <2>2, <2>7, SumAdds
  <2> QED
    BY <2>1, <2>2, <2>4, <2>6, <2>8
<1>7. ASSUME NEW x \in D
      PROVE  c.byTeam[x].total = SumFunction(c.byTeam[x].namespaces)
  <2>1. PICK M, f : M = p[x] /\ f = c.byTeam[x].namespaces
    OBVIOUS
  <2>2. /\ M \subseteq T /\ IsFiniteSet(M) /\ f = [n \in M |-> b[n].total]
        /\ c.byTeam[x].total = SumFunctionOnSet(t, M)
    BY <1>6, <2>1
  <2>3. \A n \in M : t[n] = f[n]
    BY <1>1, <2>2
  <2>4. SumFunctionOnSet(t, M) = SumFunctionOnSet(f, M) /\ DOMAIN f = M
    BY <2>2, <2>3, SumEqual
  <2> QED
    BY <2>1, <2>2, <2>4 DEF SumFunction
<1>8. SumOver(c.byTeam, D, Total) = c.total
  <2>1. PICK e : e = [x \in D |-> c.byTeam[x].total]
    OBVIOUS
  <2>2. D = {l[n] : n \in T}
    BY <1>1, <1>2
  <2>3. IsFiniteSet(D) /\ \A n \in T : l[n] \in D
    BY <1>3, <2>2, ImageIsFinite
  <2>4. \A x \in D : p[x] = {n \in T : l[n] = x}
    BY <1>1, <1>2
  <2>5. \A x \in D : e[x] = SumFunctionOnSet(t, p[x])
    BY <1>6, <2>1
  <2>6. \A n \in T : t[n] \in Int
    BY <1>4
  <2>7. SumFunctionOnSet(e, D) = SumFunctionOnSet(t, T)
    BY <1>3, <2>3, <2>4, <2>5, <2>6, SumOfClasses
  <2>8. SumOver(c.byTeam, D, Total) = SumFunctionOnSet(e, D)
    BY <2>1, TotalSum
  <2>9. SumOver(b, T, Total) = SumFunctionOnSet(t, T)
    BY <1>1, TotalSum
  <2> QED
    BY <1>5, <2>7, <2>8, <2>9
<1>9. DOMAIN c.byTeam = D /\ DOMAIN b = Spaces
  BY <1>1, <1>5 DEF Passed, Ledger
<1>10. IsFiniteSet(D) /\ \A n \in T : l[n] \in D
  <2>1. D = {l[n] : n \in T}
    BY <1>1, <1>2
  <2> QED
    BY <1>3, <2>1, ImageIsFinite
<1>11. ASSUME NEW n \in Spaces
       PROVE  SumFunction([x \in D |-> PaidBy(c, x, n)]) = b[n].total
  <2>1. PICK e : e = [x \in D |-> PaidBy(c, x, n)]
    OBVIOUS
  <2>2. ASSUME NEW x \in D
        PROVE  e[x] = IF n \in p[x] THEN b[n].total ELSE 0
    <3>1. PICK f : f = c.byTeam[x].namespaces
      OBVIOUS
    <3>2. f = [m \in p[x] |-> b[m].total]
      BY <1>6, <3>1
    <3>3. e[x] = IF n \in DOMAIN f THEN f[n] ELSE 0
      BY <2>1, <3>1 DEF PaidBy
    <3> QED
      BY <3>2, <3>3
  <2>3. SumFunction(e) = SumFunctionOnSet(e, D)
    BY <2>1 DEF SumFunction
  <2>4. CASE n \in T
    <3>1. PICK k1 : k1 = [x \in D |-> {m \in {n} : l[m] = x}]
      OBVIOUS
    <3>2. IsFiniteSet({n}) /\ SumFunctionOnSet(t, {n}) = t[n] /\ SumFunctionOnSet(t, {}) = 0
      <4>1. SumFunctionOnSet(t, {}) = 0 /\ IsFiniteSet({n})
        BY FS_EmptySet, FS_Singleton, SumByChosen
      <4>2. SumFunctionOnSet(t, {n} \ {n}) = 0
        BY <4>1, FS_Subset, SumOfZeros
      <4>3. SumFunctionOnSet(t, {n}) = t[n] + SumFunctionOnSet(t, {n} \ {n})
        BY <1>4, <2>4, <4>1, SumByElement
      <4>4. t[n] \in Int
        BY <1>4, <2>4
      <4> QED
        BY <4>1, <4>2, <4>3, <4>4
    <3>3. ASSUME NEW x \in D PROVE e[x] = SumFunctionOnSet(t, k1[x])
      <4>1. n \in p[x] <=> l[n] = x
        BY <1>1, <1>2, <2>4
      <4>2. k1[x] = IF l[n] = x THEN {n} ELSE {}
        BY <3>1
      <4>3. t[n] = b[n].total
        BY <1>1, <2>4
      <4> QED
        BY <2>2, <3>2, <4>1, <4>2, <4>3
    <3>4. SumFunctionOnSet(e, D) = SumFunctionOnSet(t, {n})
      <4>1. PICK S : S = {n}
        OBVIOUS
      <4>2. \A m \in S : t[m] \in Int
        BY <1>4, <2>4, <4>1
      <4>3. \A m \in S : l[m] \in D
        BY <1>10, <2>4, <4>1
      <4>4. \A x \in D : k1[x] = {m \in S : l[m] = x}
        BY <3>1, <4>1
      <4>5. IsFiniteSet(S) /\ IsFiniteSet(D)
        BY <1>10, <3>2, <4>1
      <4>6. \A x \in D : e[x] = SumFunctionOnSet(t, k1[x])
        BY <3>3
      <4>7. SumFunctionOnSet(e, D) = SumFunctionOnSet(t, S)
        BY <4>2, <4>3, <4>4, <4>5, <4>6, SumOfClasses
      <4> QED
        BY <4>1, <4>7
    <3> QED
      BY <1>1, <2>1, <2>3, <2>4, <3>2, <3>4
  <2>5. CASE n \notin T
    <3>1. n \in Sources(labelsKnown)
      BY <1>1, <2>5 DEF Takers
    <3>2. b[n].total = 0
      BY <1>1, <3>1 DEF Passed
    <3>3. \A x \in D : e[x] = 0
      BY <1>6, <2>2, <2>5
    <3>4. SumFunctionOnSet(e, D) = 0
      BY <1>10, <3>3, SumOfZeros
    <3> QED
      BY <2>1, <2>3, <3>2, <3>4
  <2> QED
    BY <2>4, <2>5
<1> QED
  BY <1>1, <1>6, <1>7, <1>8, <1>9, <1>11 DEF TeamsOk

----------------------------------------------------------------------------
(* The shares.                                                             *)

SharesOk(c) ==
    LET known == DOMAIN c.byNamespace
        takers == known \cap OtherNamespace
        passed == {n \in known : c.byNamespace[n].total = 0}
    IN  takers # {} =>
            /\ known \cap SystemNamespace \subseteq passed
            /\ SumOver(c.byNamespace, known, Shared) = SumOver(c.byNamespace, passed, Direct)
            /\ \A m, n \in known \ passed :
                  LET a == c.byNamespace[m]
                      b == c.byNamespace[n]
                  IN  /\ a.shared * b.direct = b.shared * a.direct
                      /\ a.direct = b.direct => a.shared = b.shared

\* The direct costs all have the sign of the charge, so that a sum of them is zero only
\* when each one is, and so is the sum of two such sums.
LEMMA SignsAgree ==
    ASSUME Facts
    PROVE  /\ \A X \in SUBSET Spaces : SumFunctionOnSet(Directs, X) = 0 =>
                 \A n \in X : Directs[n] = 0
           /\ \A X, Y \in SUBSET Spaces :
                 SumFunctionOnSet(Directs, X) + SumFunctionOnSet(Directs, Y) = 0 =>
                 SumFunctionOnSet(Directs, X) = 0
<1>1. PICK v : v = [n \in Spaces |-> SumFunctionOnSet(Weight, PodsOf(n))]
  OBVIOUS
<1>2. /\ charge \in Int /\ IsFiniteSet(Spaces)
      /\ \A n \in Spaces : v[n] \in Nat /\ Directs[n] = charge * v[n]
  <2>1. \A n \in Spaces : Directs[n] = SumFunctionOnSet(Costs, PodsOf(n)) /\ PodsOf(n) \in SUBSET Pods
    BY DEF Directs, Known, PodsOf
  <2> QED
    BY <1>1, <2>1, PodsAddUp, AllFinite DEF Facts
<1>3. ASSUME NEW X \in SUBSET Spaces
      PROVE  /\ IsFiniteSet(X) /\ SumFunctionOnSet(v, X) \in Nat
             /\ SumFunctionOnSet(Directs, X) = charge * SumFunctionOnSet(v, X)
  <2>1. IsFiniteSet(X)
    BY <1>2, FS_Subset
  <2>2. \A n \in X : v[n] \in Nat /\ v[n] \in Int /\ Directs[n] = charge * v[n]
    BY <1>2
  <2> QED
    BY <1>2, <2>1, <2>2, SumScales, SumOfNat
<1>4. ASSUME NEW X \in SUBSET Spaces, SumFunctionOnSet(Directs, X) = 0, NEW n \in X
      PROVE  Directs[n] = 0
  <2>1. PICK s, y : s = SumFunctionOnSet(v, X) /\ y = v[n]
    OBVIOUS
  <2>2. s \in Nat /\ y \in Nat /\ charge * s = 0 /\ Directs[n] = charge * y
    BY <1>2, <1>3, <1>4, <2>1
  <2>3. CASE charge = 0
    BY <2>2, <2>3
  <2>4. CASE charge # 0
    <3>1. s = 0
      BY <1>2, <2>2, <2>4
    <3>2. y = 0
      BY <1>2, <1>3, <2>1, <3>1, SumIsZero
    <3> QED
      BY <1>2, <2>2, <3>2
  <2> QED
    BY <2>3, <2>4
<1>5. ASSUME NEW X \in SUBSET Spaces, NEW Y \in SUBSET Spaces,
             SumFunctionOnSet(Directs, X) + SumFunctionOnSet(Directs, Y) = 0
      PROVE  SumFunctionOnSet(Directs, X) = 0
  <2>1. PICK s, t, q : s = SumFunctionOnSet(v, X) /\ t = SumFunctionOnSet(v, Y) /\ q = charge
    OBVIOUS
  <2>2. s \in Nat /\ t \in Nat /\ q \in Int /\ q * s + q * t = 0 /\ SumFunctionOnSet(Directs, X) = q * s
    BY <1>2, <1>3, <1>5, <2>1
  <2>3. q * s + q * t = q * (s + t)
    BY <2>2
  <2>4. q = 0 \/ s + t = 0
    BY <2>2, <2>3
  <2>5. q = 0 \/ s = 0
    BY <2>2, <2>4
  <2> QED
    BY <2>2, <2>5
<1> QED
  BY <1>4, <1>5

\* A namespace that is neither a system nor a shared one always takes its share; a system
\* namespace never does.
LEMMA WhoTakes ==
    ASSUME NEW labelsKnown
    PROVE  /\ Spaces \cap OtherNamespace \subseteq Takers(labelsKnown)
           /\ Spaces \cap SystemNamespace \subseteq Sources(labelsKnown)
BY NamesAreDisjoint DEF Takers, Sources, isSystemNamespace

\* Costs that were left as they are: nothing was to be passed on.
LEMMA NothingShared ==
    ASSUME Facts, NEW labelsKnown,
           \/ SumFunctionOnSet(Directs, Sources(labelsKnown)) = 0
           \/ Takers(labelsKnown) = {}
    PROVE  SharesOk(correlateAndAggregate)
<1>1. PICK A, b, P : /\ A = correlateAndAggregate /\ b = A.byNamespace
                     /\ P = {n \in Spaces : b[n].total = 0}
  OBVIOUS
<1>2. /\ DOMAIN b = Spaces
      /\ \A n \in Spaces : /\ b[n].direct = Directs[n] /\ b[n].total = Directs[n]
                           /\ b[n].shared = 0 /\ Directs[n] \in Int
  BY <1>1, AggregatedSpaces, DirectsAddUp DEF Ledger
<1>3. ASSUME Spaces \cap OtherNamespace # {}
      PROVE  Spaces \cap SystemNamespace \subseteq P
  <2>1. SumFunctionOnSet(Directs, Sources(labelsKnown)) = 0
    BY <1>3, WhoTakes
  <2>2. \A n \in Sources(labelsKnown) : n \in Spaces
    BY DEF Sources
  <2>3. \A n \in Sources(labelsKnown) : Directs[n] = 0
    BY <2>1, <2>2, SignsAgree
  <2> QED
    BY <1>1, <1>2, <2>2, <2>3, WhoTakes
<1>4. SumOver(b, Spaces, Shared) = SumOver(b, P, Direct)
  <2>1. PICK f, g : f = [n \in Spaces |-> b[n].shared] /\ g = [n \in P |-> b[n].direct]
    OBVIOUS
  <2>2. IsFiniteSet(Spaces) /\ P \subseteq Spaces /\ IsFiniteSet(P)
    <3>1. IsFiniteSet(Spaces) /\ P \subseteq Spaces
      BY <1>1, AllFinite
    <3> QED
      BY <3>1, FS_Subset
  <2>3. \A n \in Spaces : f[n] = b[n].shared /\ f[n] = 0
    BY <1>2, <2>1
  <2>4. \A n \in P : g[n] = b[n].direct /\ g[n] = 0
    BY <1>1, <1>2, <2>1
  <2>5. SumOver(b, Spaces, Shared) = 0
    BY <2>2, <2>3, SharedSum, SumOfZeros
  <2>6. SumFunctionOnSet(g, P) = 0
    BY <2>2, <2>4, SumOfZeros
  <2>7. SumOver(b, P, Direct) = SumFunctionOnSet(g, P)
    BY <2>4, DirectSum
  <2> QED
    BY <2>5, <2>6, <2>7
<1>5. ASSUME NEW m \in Spaces, NEW n \in Spaces
      PROVE  /\ b[m].shared * b[n].direct = b[n].shared * b[m].direct
             /\ b[m].shared = b[n].shared
  <2>1. PICK x, y : x = Directs[m] /\ y = Directs[n]
    OBVIOUS
  <2>2. x \in Int /\ y \in Int
    BY <1>2, <2>1
  <2>3. 0 * y = 0 * x
    BY <2>2
  <2> QED
    BY <1>2, <2>1, <2>3
<1> QED
  BY <1>1, <1>2, <1>3, <1>4, <1>5 DEF SharesOk

\* A taker's total is zero only if it has no direct cost, and then it took nothing; the
\* takers' shares are in proportion to their direct costs.
LEMMA TakersShares ==
    ASSUME Facts, NEW labelsKnown, NEW k, NEW sh, SharesAre(labelsKnown, k, sh),
           Takers(labelsKnown) # {}, SumFunctionOnSet(Directs, Sources(labelsKnown)) # 0
    PROVE  /\ \A n \in Takers(labelsKnown) : k * Directs[n] + sh[n] = 0 => Directs[n] = 0
           /\ \A m, n \in Takers(labelsKnown) :
                 /\ sh[m] * (k * Directs[n]) = sh[n] * (k * Directs[m])
                 /\ k * Directs[m] = k * Directs[n] => sh[m] = sh[n]
<1>1. PICK Sy, T, S, N : /\ Sy = Sources(labelsKnown) /\ T = Takers(labelsKnown)
                         /\ S = SumFunctionOnSet(Directs, Sy) /\ N = SumFunctionOnSet(Directs, T)
  OBVIOUS
<1>2. /\ Sy \in SUBSET Spaces /\ T \in SUBSET Spaces /\ S \in Int /\ N \in Int /\ S # 0
      /\ \A n \in Spaces : Directs[n] \in Int
  BY <1>1, DirectsAddUp
<1>3. /\ k = IF N = 0 THEN Cardinality(T) ELSE N
      /\ \A n \in T : sh[n] = IF N = 0 THEN S ELSE S * Directs[n]
  BY <1>1, <1>2 DEF SharesAre
<1>4. k \in Int
  BY SharesAddUp
<1>5. CASE N = 0
  <2>1. \A n \in T : Directs[n] = 0 /\ sh[n] = S
    BY <1>1, <1>2, <1>3, <1>5, SignsAgree
  <2>2. k * 0 = 0 /\ k * 0 + S = S
    BY <1>2, <1>4
  <2> QED
    BY <1>1, <1>2, <2>1, <2>2
<1>6. CASE N # 0
  <2>1. k = N /\ \A n \in T : sh[n] = S * Directs[n]
    BY <1>3, <1>6
  <2>2. S + N # 0
    BY <1>1, <1>2, SignsAgree
  <2>3. ASSUME NEW n \in T, k * Directs[n] + sh[n] = 0
        PROVE  Directs[n] = 0
    <3>1. PICK d : d = Directs[n]
      OBVIOUS
    <3>2. d \in Int /\ N * d + S * d = 0
      BY <1>2, <2>1, <2>3, <3>1
    <3>3. (S + N) * d = N * d + S * d
      BY <1>2, <3>2
    <3>4. d = 0
      BY <1>2, <2>2, <3>2, <3>3
    <3> QED
      BY <3>1, <3>4
  <2>4. ASSUME NEW m \in T, NEW n \in T
        PROVE  /\ sh[m] * (k * Directs[n]) = sh[n] * (k * Directs[m])
               /\ k * Directs[m] = k * Directs[n] => sh[m] = sh[n]
    <3>1. PICK x, y : x = Directs[m] /\ y = Directs[n]
      OBVIOUS
    <3>2. x \in Int /\ y \in Int /\ sh[m] = S * x /\ sh[n] = S * y
      BY <1>2, <2>1, <3>1
    <3>3. (S * x) * (N * y) = (S * y) * (N * x)
      BY <1>2, <3>2
    <3>4. N * x = N * y => x = y
      BY <1>2, <1>6, <3>2
    <3> QED
      BY <2>1, <3>1, <3>2, <3>3, <3>4
  <2> QED
    BY <1>1, <2>3, <2>4
<1> QED
  BY <1>5, <1>6

\* Costs that were passed on.
LEMMA SharesPassedOn ==
    ASSUME Facts, NEW labelsKnown, NEW c, NEW k, NEW sh, SharesAre(labelsKnown, k, sh),
           Takers(labelsKnown) # {}, SumFunctionOnSet(Directs, Sources(labelsKnown)) # 0,
           Passed(c, labelsKnown, k, sh)
    PROVE  SharesOk(c)
<1>1. PICK Sy, T, b, S, P, Z : /\ Sy = Sources(labelsKnown) /\ T = Takers(labelsKnown)
                               /\ b = c.byNamespace /\ S = SumFunctionOnSet(Directs, Sy)
                               /\ P = {n \in Spaces : b[n].total = 0}
                               /\ Z = {n \in T : b[n].total = 0}
  OBVIOUS
<1>2. /\ IsFiniteSet(Sy) /\ IsFiniteSet(T) /\ Spaces = Sy \cup T /\ Sy \cap T = {}
      /\ (\A n \in Spaces : Directs[n] \in Int /\ Directs[n] = Known(PodsOf(n))) /\ S \in Int
  BY <1>1, DirectsAddUp
<1>3. /\ k \in Int /\ (\A n \in Spaces : sh[n] \in Int) /\ SumFunctionOnSet(sh, T) = k * S
  BY <1>1, SharesAddUp
<1>4. /\ DOMAIN b = Spaces
      /\ \A n \in Spaces : b[n].direct = k * Directs[n]
      /\ \A n \in Sy : b[n].shared = 0 /\ b[n].total = 0
      /\ \A n \in T : b[n].shared = sh[n] /\ b[n].total = k * Directs[n] + sh[n]
  BY <1>1, <1>2 DEF Passed, Ledger
<1>5. P = Sy \cup Z /\ Sy \cap Z = {} /\ Z \subseteq T /\ IsFiniteSet(Z)
  <2>1. P = Sy \cup Z /\ Sy \cap Z = {} /\ Z \subseteq T
    BY <1>1, <1>2, <1>4
  <2> QED
    BY <1>2, <2>1, FS_Subset
<1>6. \A n \in Z : Directs[n] = 0
  <2>1. \A n \in Z : n \in T /\ k * Directs[n] + sh[n] = 0
    BY <1>1, <1>4
  <2> QED
    BY <1>1, <2>1, TakersShares
<1>7. SumOver(b, Spaces, Shared) = k * S
  <2>1. PICK g : g = [n \in Spaces |-> b[n].shared]
    OBVIOUS
  <2>2. (\A n \in Sy : g[n] = 0) /\ (\A n \in T : g[n] = sh[n]) /\ \A n \in Sy \cup T : g[n] \in Int
    <3>1. (\A n \in Sy : g[n] = 0) /\ (\A n \in T : g[n] = sh[n])
      BY <1>2, <1>4, <2>1
    <3> QED
      BY <1>2, <1>3, <3>1
  <2>3. SumFunctionOnSet(g, Sy) = 0
    BY <1>2, <2>2, SumOfZeros
  <2>4. SumFunctionOnSet(g, T) = k * S
    <3>1. SumFunctionOnSet(g, T) = SumFunctionOnSet(sh, T)
      BY <1>2, <2>2, SumEqual
    <3> QED
      BY <1>3, <3>1
  <2>5. SumFunctionOnSet(g, Sy \cup T) = SumFunctionOnSet(g, Sy) + SumFunctionOnSet(g, T)
    BY <1>2, <2>2, SumUnion
  <2>6. k * S \in Int
    BY <1>2, <1>3
  <2>7. SumOver(b, Spaces, Shared) = SumFunctionOnSet(g, Spaces)
    BY <2>1, SharedSum
  <2> QED
    BY <1>2, <2>3, <2>4, <2>5, <2>6, <2>7
<1>8. SumOver(b, P, Direct) = k * S
  <2>1. PICK d : d = [n \in Spaces |-> b[n].direct]
    OBVIOUS
  <2>2. \A n \in Spaces : d[n] = k * Directs[n] /\ d[n] = b[n].direct
    BY <1>4, <2>1
  <2>3. ASSUME NEW n \in Spaces
        PROVE  d[n] \in Int
    <3>1. PICK y : y = Directs[n]
      OBVIOUS
    <3>2. k * y \in Int
      BY <1>2, <1>3, <3>1
    <3> QED
      BY <2>2, <3>1, <3>2
  <2>4. SumFunctionOnSet(d, Sy) = k * S
    <3>1. \A n \in Sy : Directs[n] \in Int /\ d[n] = k * Directs[n]
      BY <1>2, <2>2
    <3> QED
      BY <1>1, <1>2, <1>3, <3>1, SumScales
  <2>5. SumFunctionOnSet(d, Z) = 0
    <3>1. k * 0 = 0
      BY <1>3
    <3>2. \A n \in Z : d[n] = 0
      BY <1>2, <1>5, <1>6, <2>2, <3>1
    <3> QED
      BY <1>5, <3>2, SumOfZeros
  <2>6. SumFunctionOnSet(d, Sy \cup Z) = SumFunctionOnSet(d, Sy) + SumFunctionOnSet(d, Z)
    <3>1. \A n \in Sy \cup Z : d[n] \in Int
      BY <1>2, <1>5, <2>3
    <3> QED
      BY <1>2, <1>5, <3>1, SumUnion
  <2>7. k * S \in Int
    BY <1>2, <1>3
  <2>8. SumOver(b, P, Direct) = SumFunctionOnSet(d, P)
    <3>1. \A n \in P : d[n] = b[n].direct
      BY <1>1, <2>2
    <3> QED
      BY <3>1, DirectSum
  <2> QED
    BY <1>5, <2>4, <2>5, <2>6, <2>7, <2>8
<1>9. ASSUME NEW m \in Spaces \ P, NEW n \in Spaces \ P
      PROVE  /\ b[m].shared * b[n].direct = b[n].shared * b[m].direct
             /\ b[m].direct = b[n].direct => b[m].shared = b[n].shared
  <2>1. m \in T /\ n \in T
    BY <1>2, <1>5
  <2>2. /\ sh[m] * (k * Directs[n]) = sh[n] * (k * Directs[m])
        /\ k * Directs[m] = k * Directs[n] => sh[m] = sh[n]
    BY <1>1, <2>1, TakersShares
  <2> QED
    BY <1>2, <1>4, <2>1, <2>2
<1>10. Spaces \cap SystemNamespace \subseteq P
  BY <1>1, <1>5, WhoTakes
<1> QED
  BY <1>1, <1>4, <1>7, <1>8, <1>9, <1>10 DEF SharesOk

----------------------------------------------------------------------------
(* The stored rows.                                                        *)

StoredOk(c, R) ==
    R # {} =>
        /\ MapThenSumSet(LAMBDA r : r.cost, R) = c.unit * charge
        /\ \A n \in DOMAIN c.byNamespace :
              MapThenSumSet(LAMBDA r : r.cost, {r \in R : r.ns = n}) = c.byNamespace[n].direct

\* The rows of a set of pods add up to what the pods cost.
LEMMA RowsAddUp ==
    ASSUME Facts, NEW k \in Int, NEW h, NEW S \in SUBSET Pods, NEW R, R = {h[i] : i \in S},
           \A i \in S : h[i].pod = i /\ h[i].cost = k * Costs[i]
    PROVE  MapThenSumSet(LAMBDA r : r.cost, R) = k * Known(S)
<1>1. PICK f, g : f = [r \in R |-> r.cost] /\ g = [i \in S |-> k * Costs[i]]
  OBVIOUS
<1>2. IsFiniteSet(S) /\ \A i \in S : Costs[i] \in Int
  BY AllFinite, PodsAddUp
<1>3. ASSUME NEW i \in S
      PROVE  g[i] \in Int /\ f[h[i]] = g[i]
  <2>1. PICK y : y = Costs[i]
    OBVIOUS
  <2>2. k * y \in Int
    BY <1>2, <2>1
  <2>3. h[i] \in R /\ h[i].cost = k * y
    BY <2>1
  <2> QED
    BY <1>1, <2>1, <2>2, <2>3
<1>4. \A i, j \in S : h[i] = h[j] => i = j
  OBVIOUS
<1>5. SumFunctionOnSet(f, R) = SumFunctionOnSet(g, S)
  BY <1>2, <1>3, <1>4, SumOfImage
<1>6. SumFunctionOnSet(g, S) = k * Known(S)
  <2>1. \A i \in S : Costs[i] \in Int /\ g[i] = k * Costs[i]
    BY <1>1, <1>2
  <2> QED
    BY <1>2, <2>1, SumScales DEF Known
<1>7. MapThenSumSet(LAMBDA r : r.cost, R) = SumFunctionOnSet(f, R)
  BY <1>1, RowSum
<1> QED
  BY <1>5, <1>6, <1>7

\* The rows of costs with the namespaces' direct costs add up, in all and by namespace.
LEMMA StoredRows ==
    ASSUME Facts, NEW c, NEW k \in Int, Ledger(c, k)
    PROVE  StoredOk(c, RowsOf(c))
<1>1. PICK b, R : b = c.byNamespace /\ R = RowsOf(c)
  OBVIOUS
<1>2. PICK h : h = [i \in Pods |-> [ns |-> cluster[i].ns, pod |-> i, team |-> b[cluster[i].ns].team,
                                    cost |-> k * Costs[i]]]
  OBVIOUS
<1>3. /\ DOMAIN b = Spaces /\ c.unit = k * WeightUnit
      /\ \A n \in Spaces : b[n].byPod = [i \in PodsOf(n) |-> k * Costs[i]]
                           /\ b[n].direct = k * Known(PodsOf(n))
  BY <1>1 DEF Ledger
<1>4. \A n \in Spaces : \A i \in PodsOf(n) :
          i \in Pods /\ h[i] = [ns |-> n, pod |-> i, team |-> b[n].team, cost |-> b[n].byPod[i]]
  BY <1>2, <1>3 DEF PodsOf
<1>5. \A i \in Pods : cluster[i].ns \in Spaces /\ i \in PodsOf(cluster[i].ns)
  BY DEF Spaces, PodsOf
<1>6. R = UNION {{[ns |-> n, pod |-> i, team |-> b[n].team, cost |-> b[n].byPod[i]] :
                    i \in PodsOf(n)} : n \in Spaces}
  <2>1. R = UNION {{[ns |-> n, pod |-> i, team |-> b[n].team, cost |-> b[n].byPod[i]] :
                    i \in DOMAIN b[n].byPod} : n \in DOMAIN b}
    BY <1>1 DEF RowsOf
  <2>2. \A n \in Spaces : DOMAIN b[n].byPod = PodsOf(n)
    BY <1>3
  <2> QED
    BY <1>3, <2>1, <2>2
<1>7. R = {h[i] : i \in Pods}
  <2>1. ASSUME NEW r \in R
        PROVE  r \in {h[i] : i \in Pods}
    <3>1. PICK n \in Spaces : \E i \in PodsOf(n) :
             r = [ns |-> n, pod |-> i, team |-> b[n].team, cost |-> b[n].byPod[i]]
      BY <1>6
    <3> QED
      BY <1>4, <3>1
  <2>2. ASSUME NEW i \in Pods
        PROVE  h[i] \in R
    <3>1. PICK n \in Spaces : i \in PodsOf(n)
      BY <1>5
    <3>2. h[i] = [ns |-> n, pod |-> i, team |-> b[n].team, cost |-> b[n].byPod[i]]
      BY <1>4, <3>1
    <3> QED
      BY <1>6, <3>1, <3>2
  <2> QED
    BY <2>1, <2>2
<1>8. \A i \in Pods : h[i].pod = i /\ h[i].cost = k * Costs[i] /\ h[i].ns = cluster[i].ns
  BY <1>2
<1>9. MapThenSumSet(LAMBDA r : r.cost, R) = c.unit * charge
  <2>1. MapThenSumSet(LAMBDA r : r.cost, R) = k * Known(Pods)
    BY <1>7, <1>8, RowsAddUp
  <2>2. PICK w : w = WeightUnit
    OBVIOUS
  <2>3. w \in Nat /\ charge \in Int /\ c.unit = k * w /\ Known(Pods) = w * charge
    BY <1>3, <2>2, PodsAddUp DEF Facts, Known
  <2>4. (k * w) * charge = k * (w * charge)
    BY <2>3
  <2> QED
    BY <2>1, <2>3, <2>4
<1>10. ASSUME NEW n \in Spaces
       PROVE  MapThenSumSet(LAMBDA r : r.cost, {r \in R : r.ns = n}) = b[n].direct
  <2>1. PICK Q, P : Q = {r \in R : r.ns = n} /\ P = PodsOf(n)
    OBVIOUS
  <2>2. P \in SUBSET Pods /\ \A i \in Pods : i \in P <=> cluster[i].ns = n
    BY <2>1 DEF PodsOf
  <2>3. Q = {h[i] : i \in P}
    BY <1>7, <1>8, <2>1, <2>2
  <2>4. \A i \in P : h[i].pod = i /\ h[i].cost = k * Costs[i]
    BY <1>8, <2>2
  <2>5. MapThenSumSet(LAMBDA r : r.cost, Q) = k * Known(P)
    BY <2>2, <2>3, <2>4, RowsAddUp
  <2> QED
    BY <1>3, <2>1, <2>5
<1> QED
  BY <1>1, <1>3, <1>9, <1>10 DEF StoredOk

----------------------------------------------------------------------------
(* A cycle.                                                                *)

\* The costs after the allocation, with or without the namespaces' labels.
Allocations == {{allocateSharedCosts(correlateAndAggregate, labelsKnown)} : labelsKnown \in BOOLEAN}

\* The inductive invariant: at every step of the cycle the costs are what the steps before
\* it make of the cluster, the labels that were read and the charge; these stay as they
\* were read.  Nothing is stored before the last step.
Cycle ==
    /\ Facts
    /\ pc \in {"usage", "labels", "nodes", "fetch", "correlate", "allocate", "store", "done", "failed"}
    /\ pc \in {"usage", "labels", "nodes", "fetch", "correlate"} => costs = {}
    /\ pc = "allocate" => costs = {correlateAndAggregate}
    /\ pc \in {"store", "done"} => costs \in Allocations
    /\ pc = "failed" => costs = {} \/ costs \in Allocations
    /\ IF pc = "done" THEN rows = UNION {RowsOf(c) : c \in costs} ELSE rows = {}

\* Costs are a function of the cluster, the labels that were read and the charge.
LEMMA AggregateUnchanged ==
    ASSUME UNCHANGED <<cluster, seen, charge>>
    PROVE  correlateAndAggregate' = correlateAndAggregate
<1>1. totalCPU' = totalCPU /\ totalMem' = totalMem
  BY DEF totalCPU, totalMem, Pods, MapThenSumSet, MapThenFoldSet
<1>2. Pods' = Pods /\ WeightUnit' = WeightUnit
  BY <1>1 DEF Pods, WeightUnit
<1>3. ASSUME NEW i
      PROVE  /\ podCost(i)' = podCost(i) /\ TeamOf(i)' = TeamOf(i)
             /\ ServiceOf(i)' = ServiceOf(i)
  BY <1>1 DEF podCost, calculatePodWeight, TeamOf, ServiceOf, podLabelOrDefault, LabelsOf
<1>4. ASSUME NEW S
      PROVE  CostOf(S)' = CostOf(S)
  BY <1>1 DEF CostOf, MapThenSumSet, MapThenFoldSet, podCost, calculatePodWeight
<1>5. ASSUME NEW n
      PROVE  PodsOf(n)' = PodsOf(n)
  BY <1>2 DEF PodsOf
<1>6. ASSUME NEW n
      PROVE  NamespaceCost(n)' = NamespaceCost(n)
  BY <1>3, <1>4, <1>5 DEF NamespaceCost
<1>7. ASSUME NEW t
      PROVE  TeamCost(t)' = TeamCost(t)
  <2>1. PICK M : M = {i \in Pods : TeamOf(i) = t}
    OBVIOUS
  <2>2. M = {i \in Pods' : TeamOf(i)' = t}
    BY <1>2, <1>3, <2>1
  <2>3. TeamCost(t) = [direct |-> CostOf(M), indirect |-> 0, total |-> CostOf(M),
                       namespaces |-> [n \in {cluster[i].ns : i \in M} |-> CostOf(M \cap PodsOf(n))]]
    BY <2>1 DEF TeamCost
  <2>4. TeamCost(t)' = [direct |-> CostOf(M)', indirect |-> 0, total |-> CostOf(M)',
                        namespaces |-> [n \in {cluster'[i].ns : i \in M} |-> CostOf(M \cap PodsOf(n))']]
    BY <2>2 DEF TeamCost
  <2> QED
    BY <1>4, <1>5, <2>3, <2>4
<1> QED
  BY <1>2, <1>3, <1>4, <1>6, <1>7 DEF correlateAndAggregate

\* What every allocation gives: all four properties.
LEMMA AllocationsAreGood ==
    ASSUME Facts, NEW C \in Allocations, NEW c \in C
    PROVE  Conserved(c) /\ TeamsOk(c) /\ SharesOk(c) /\ StoredOk(c, RowsOf(c))
<1>1. PICK labelsKnown \in BOOLEAN : C = {allocateSharedCosts(correlateAndAggregate, labelsKnown)}
  BY DEF Allocations
<1>2. c = allocateSharedCosts(correlateAndAggregate, labelsKnown)
  BY <1>1
<1>3. CASE /\ c = correlateAndAggregate
           /\ \/ SumFunctionOnSet(Directs, Sources(labelsKnown)) = 0
              \/ Takers(labelsKnown) = {}
  <2>1. StoredOk(c, RowsOf(c))
    BY <1>3, AggregatedSpaces, StoredRows
  <2> QED
    BY <1>3, <2>1, AggregationConserves, AggregatedTeams, NothingShared
<1>4. CASE /\ SumFunctionOnSet(Directs, Sources(labelsKnown)) # 0
           /\ Takers(labelsKnown) # {}
           /\ \E k, sh : /\ SharesAre(labelsKnown, k, sh)
                         /\ Passed(c, labelsKnown, k, sh)
                         /\ Regrouped(c, labelsKnown)
  <2>1. PICK k, sh : /\ SharesAre(labelsKnown, k, sh)
                     /\ Passed(c, labelsKnown, k, sh)
                     /\ Regrouped(c, labelsKnown)
    BY <1>4
  <2>2. k \in Int /\ Ledger(c, k)
    BY <1>4, <2>1, SharesAddUp DEF Passed
  <2>3. StoredOk(c, RowsOf(c))
    BY <2>2, StoredRows
  <2>4. Conserved(c)
    BY <1>4, <2>1, AllocationConserves
  <2>5. TeamsOk(c)
    BY <1>4, <2>1, RegroupedTeams
  <2>6. SharesOk(c)
    BY <1>4, <2>1, SharesPassedOn
  <2> QED
    BY <2>3, <2>4, <2>5, <2>6
<1> QED
  BY <1>2, <1>3, <1>4, AllocationCases

\* The four properties hold wherever the invariant does.
LEMMA CycleIsGood ==
    Cycle => CostIsConserved /\ TeamsAddUp /\ SharesFollowDirect /\ StoredAddsUp
<1> SUFFICES ASSUME Cycle
             PROVE  CostIsConserved /\ TeamsAddUp /\ SharesFollowDirect /\ StoredAddsUp
  OBVIOUS
<1>1. Facts
  BY DEF Cycle
<1>2. ASSUME NEW c \in costs
      PROVE  /\ Conserved(c) /\ TeamsOk(c)
             /\ pc \in {"store", "done"} => SharesOk(c)
             /\ StoredOk(c, rows)
  <2>1. (costs = {correlateAndAggregate} /\ pc = "allocate") \/ costs \in Allocations
    BY <1>2 DEF Cycle
  <2>2. CASE costs = {correlateAndAggregate} /\ pc = "allocate"
    <3>1. c = correlateAndAggregate /\ rows = {}
      BY <2>2 DEF Cycle
    <3>2. StoredOk(c, rows)
      BY <3>1 DEF StoredOk
    <3> QED
      BY <1>1, <2>2, <3>1, <3>2, AggregationConserves, AggregatedTeams
  <2>3. CASE costs \in Allocations
    <3>1. Conserved(c) /\ TeamsOk(c) /\ SharesOk(c) /\ StoredOk(c, RowsOf(c))
      BY <1>1, <2>3, AllocationsAreGood
    <3>2. costs = {c}
      BY <2>3 DEF Allocations
    <3>3. rows = {} \/ rows = RowsOf(c)
      <4>1. rows = {} \/ rows = UNION {RowsOf(d) : d \in costs}
        BY DEF Cycle
      <4>2. UNION {RowsOf(d) : d \in costs} = RowsOf(c)
        BY <3>2
      <4> QED
        BY <4>1, <4>2
    <3>4. StoredOk(c, rows)
      <4>1. CASE rows = {}
        BY <4>1 DEF StoredOk
      <4>2. CASE rows = RowsOf(c)
        BY <3>1, <4>2
      <4> QED
        BY <3>3, <4>1, <4>2
    <3> QED
      BY <3>1, <3>4
  <2> QED
    BY <2>1, <2>2, <2>3
<1>3. CostIsConserved
  BY <1>2 DEF CostIsConserved, Conserved
<1>4. TeamsAddUp
  BY <1>2 DEF TeamsAddUp, TeamsOk
<1>5. SharesFollowDirect
  BY <1>2 DEF SharesFollowDirect, SharesOk
<1>6. StoredAddsUp
  BY <1>2 DEF StoredAddsUp, StoredOk
<1> QED
  BY <1>3, <1>4, <1>5, <1>6

\* Every step of a cycle keeps the invariant.
LEMMA CycleStep ==
    Cycle /\ [Next]_vars => Cycle'
<1> SUFFICES ASSUME Cycle, [Next]_vars
             PROVE  Cycle'
  OBVIOUS
<1>1. UNCHANGED <<cluster, seen, charge>> =>
         correlateAndAggregate' = correlateAndAggregate /\ Allocations' = Allocations /\ Facts'
  <2> SUFFICES ASSUME UNCHANGED <<cluster, seen, charge>>
               PROVE  correlateAndAggregate' = correlateAndAggregate /\ Allocations' = Allocations /\ Facts'
    OBVIOUS
  <2>1. correlateAndAggregate' = correlateAndAggregate
    BY AggregateUnchanged
  <2> QED
    BY <2>1 DEF Allocations, Facts, Cycle
<1>2. ASSUME NEW step, Fails(step), step \in {"usage", "labels", "nodes", "fetch", "store"}
      PROVE  Cycle'
  BY <1>1, <1>2 DEF Fails, Cycle
<1>3. CASE ListPodMetrics
  BY <1>1, <1>3 DEF ListPodMetrics, Cycle
<1>4. ASSUME NEW i \in Pods, PodGone(i)
      PROVE  Cycle'
  BY <1>1, <1>4 DEF PodGone, Cycle
<1>5. CASE ListPods
  <2>1. Facts'
    BY <1>5 DEF ListPods, Cycle, Facts
  <2> QED
    BY <1>5, <2>1 DEF ListPods, Cycle
<1>6. CASE collectNodeMetrics
  BY <1>1, <1>6 DEF collectNodeMetrics, Cycle
<1>7. ASSUME NEW dollars \in Charge, FetchAWSCosts(dollars)
      PROVE  Cycle'
  <2>1. Facts'
    BY <1>7, AmountsAreInt DEF FetchAWSCosts, Cycle, Facts
  <2> QED
    BY <1>7, <2>1 DEF FetchAWSCosts, Cycle
<1>8. CASE CorrelateAndAggregate
  BY <1>1, <1>8 DEF CorrelateAndAggregate, Cycle
<1>9. ASSUME NEW labelsKnown \in BOOLEAN, AllocateSharedCosts(labelsKnown)
      PROVE  Cycle'
  <2>1. costs = {correlateAndAggregate} /\ UNCHANGED <<cluster, seen, charge>>
    BY <1>9 DEF AllocateSharedCosts, Cycle
  <2>2. costs' = {allocateSharedCosts(correlateAndAggregate, labelsKnown)}
    BY <1>9, <2>1 DEF AllocateSharedCosts
  <2>3. costs' \in Allocations'
    <3>1. costs' \in Allocations
      BY <2>2 DEF Allocations
    <3> QED
      BY <1>1, <2>1, <3>1
  <2> QED
    BY <1>1, <1>9, <2>1, <2>3 DEF AllocateSharedCosts, Cycle
<1>10. CASE StoreCostRecords
  BY <1>1, <1>10 DEF StoreCostRecords, Cycle
<1>11. CASE UNCHANGED vars
  BY <1>1, <1>11 DEF vars, Cycle
<1> QED
  BY <1>2, <1>3, <1>4, <1>5, <1>6, <1>7, <1>8, <1>9, <1>10, <1>11 DEF Next

\* The invariant holds throughout every cycle.
LEMMA CycleHolds == Spec => []Cycle
<1>1. Init => Cycle
  BY DEF Init, Cycle, Facts
<1> QED
  BY <1>1, CycleStep, PTL DEF Spec

\* For every cluster and charge the totals of the namespaces add up to what AWS charged,
\* before and after the shared cost is passed on.
THEOREM CostConserved == Spec => []CostIsConserved
<1>1. Cycle => CostIsConserved
  BY CycleIsGood
<1> QED
  BY <1>1, CycleHolds, PTL

\* For every cluster and charge the teams add up to the cluster's total, when they are
\* aggregated and when they are rebuilt.
THEOREM TeamsConserved == Spec => []TeamsAddUp
<1>1. Cycle => TeamsAddUp
  BY CycleIsGood
<1> QED
  BY <1>1, CycleHolds, PTL

\* For every cluster and charge the shared cost is passed on in full, in proportion to the
\* takers' direct costs.
THEOREM SharesAreFair == Spec => []SharesFollowDirect
<1>1. Cycle => SharesFollowDirect
  BY CycleIsGood
<1> QED
  BY <1>1, CycleHolds, PTL

\* For every cluster and charge the stored rows add up to what AWS charged, and each
\* namespace's to its direct cost.
THEOREM RowsConserved == Spec => []StoredAddsUp
<1>1. Cycle => StoredAddsUp
  BY CycleIsGood
<1> QED
  BY <1>1, CycleHolds, PTL
=============================================================================
