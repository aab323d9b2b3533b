------------------------ MODULE InstanceManagerProofs ------------------------
(***************************************************************************)
(* Proofs about the two parts of the instance manager.                     *)
(*                                                                         *)
(* InstanceMix: GenerateRecommendation respects every policy and leaves no *)
(* Spot share unused, for every cluster and every list of policies.  The   *)
(* loop's aggregate is at least as tight as every limit it has passed      *)
(* (LoopInv) and no tighter than one of them (Attained).                   *)
(*                                                                         *)
(* SpotInterruption, for any number of nodes, pods and calls, also several *)
(* for one node: NodeIsDrained speaks of calls that are over, and          *)
(* DisruptionIsBounded of what has been evicted.  Both rest on what a call *)
(* knows while its loop runs: what it has passed is settled                *)
(* (PassedIsSettled), what it listed is no younger than what has the name  *)
(* now (ListedIsOld), and it evicts by a name it has passed                *)
(* (EvictedWasPassed) and listed once (ListedOnce).                        *)
(***************************************************************************)
EXTENDS InstanceMix, SpotInterruption, SequenceTheorems, TLAPS

----------------------------------------------------------------------------
(* The instance mix                                                        *)

\* The loop so far: every limit it has passed is in the aggregate.
LoopInv ==
    \A i \in 1..(next - 1) : \A m \in policies[i] :
       /\ m.min <= minOnDemandPct
       /\ m.max > 0 => maxSpotPct <= m.max

\* The aggregate is no tighter than the limits it comes from.
Attained ==
    /\ minOnDemandPct = 0 \/ \E m \in Limits : minOnDemandPct = m.min
    /\ maxSpotPct = 100 \/ \E m \in Limits : m.max > 0 /\ maxSpotPct = m.max

\* A recommendation is made at the end of the loop.
MadeAtTheEnd == rec # {} => next > Len(policies)

MixInv ==
    TypeOK /\ LoopInv /\ Attained /\ MadeAtTheEnd /\ RespectsEveryPolicy /\ MaximizesSpot

----------------------------------------------------------------------------
\* A larger percentage is a larger share.
LEMMA SharesGrow ==
    ASSUME NEW s \in Nat, NEW a \in Int, NEW b \in Int, a <= b
    PROVE  a * s <= b * s
OBVIOUS

\* Percentages of a cluster add up as shares of it.
LEMMA SharesAdd ==
    ASSUME NEW s \in Nat, NEW a \in Int
    PROVE  /\ a * s \in Int
           /\ 100 * s \in Nat
           /\ (100 - a) * s = 100 * s - a * s
OBVIOUS

\* Nothing that the properties of a recommendation speak of changes.
LEMMA SameProperties ==
    ASSUME UNCHANGED <<nodes, policies, rec>>, RespectsEveryPolicy, MaximizesSpot
    PROVE  RespectsEveryPolicy' /\ MaximizesSpot'
<1>1. Full' = Full /\ Scale' = Scale /\ Limits' = Limits /\ rec' = rec
  BY DEF Full, Scale, TotalNodes, Limits
<1> QED
  BY <1>1 DEF RespectsEveryPolicy, MaximizesSpot

\* The list GenerateRecommendation is given is a sequence of instance mixes.
LEMMA PoliciesAreSequence ==
    ASSUME TypeOK
    PROVE  /\ Len(policies) \in Nat /\ DOMAIN policies = 1..Len(policies)
           /\ \A i \in 1..Len(policies) : policies[i] \in Mix
<1>1. PICK k \in 0..MaxPolicies : policies \in [1..k -> Mix]
  BY DEF TypeOK
<1>2. k \in Nat
  BY BoundsAreNat
<1>3. policies \in Seq(Mix)
  BY <1>1, <1>2
<1> QED
  BY <1>3, LenProperties

\* The limits of a policy are percentages.
LEMMA LimitsArePercentages ==
    ASSUME TypeOK, NEW i \in 1..Len(policies), NEW m \in policies[i]
    PROVE  m.min \in 0..100 /\ m.max \in 0..100
<1>1. policies[i] \in Mix
  BY PoliciesAreSequence
<1>2. m \in [min : Percent, max : Percent]
  BY <1>1 DEF Mix
<1> QED
  BY <1>2, PercentAssumption

\* Counts of nodes and their shares are natural numbers.
LEMMA ScalePositive ==
    ASSUME TypeOK
    PROVE  /\ Scale \in Nat /\ Scale >= 1 /\ TotalNodes \in Nat
           /\ \A o \in Option : nodes[o] \in Nat /\ Share(o) \in Nat
<1>1. \A o \in Option : nodes[o] \in Nat
  BY BoundsAreNat DEF TypeOK
<1>2. TotalNodes \in Nat
  BY <1>1 DEF TotalNodes, Option
<1> QED
  BY <1>1, <1>2 DEF Scale, Share

\* The bounds on the inputs of the computation.
LEMMA BoundsOfShares ==
    ASSUME TypeOK
    PROVE  /\ Full \in Int /\ MinOnDemand \in Int /\ MaxSpot \in Int
           /\ 0 <= MinOnDemand /\ MinOnDemand <= Full
           /\ 0 <= MaxSpot /\ MaxSpot <= Full - MinOnDemand
           /\ MaxSpot <= maxSpotPct * Scale
           /\ MaxSpot = maxSpotPct * Scale \/ MaxSpot = Full - MinOnDemand
<1>1. Scale \in Nat
  BY ScalePositive
<1>2. minOnDemandPct \in 0..100 /\ maxSpotPct \in 0..100
  BY DEF TypeOK
<1>3. PICK x : x = AtMost(maxSpotPct, 100 - minOnDemandPct)
  OBVIOUS
<1>4. x \in Int /\ 0 <= x /\ x <= 100 - minOnDemandPct /\ x <= maxSpotPct
      /\ (x = maxSpotPct \/ x = 100 - minOnDemandPct)
  BY <1>2, <1>3 DEF AtMost
<1>5. /\ 0 * Scale <= minOnDemandPct * Scale /\ minOnDemandPct * Scale <= 100 * Scale
      /\ 0 * Scale <= x * Scale /\ x * Scale <= (100 - minOnDemandPct) * Scale
      /\ x * Scale <= maxSpotPct * Scale
  BY <1>1, <1>2, <1>4, SharesGrow
<1>6. /\ (100 - minOnDemandPct) * Scale = 100 * Scale - minOnDemandPct * Scale
      /\ minOnDemandPct * Scale \in Int /\ x * Scale \in Int /\ 100 * Scale \in Int
  BY <1>1, <1>2, <1>4, SharesAdd
<1>7. 0 * Scale = 0
  BY <1>1
<1>8. Full = 100 * Scale /\ MinOnDemand = minOnDemandPct * Scale /\ MaxSpot = x * Scale
  BY <1>3 DEF Full, MinOnDemand, MaxSpot
<1>9. MaxSpot = maxSpotPct * Scale \/ MaxSpot = (100 - minOnDemandPct) * Scale
  BY <1>4, <1>8
<1> QED
  BY <1>5, <1>6, <1>7, <1>8, <1>9

\* What is recommended at the end of the loop, as bounds on its shares.
LEMMA RecommendedShares ==
    ASSUME TypeOK
    PROVE  /\ Recommended \in Recommendation
           /\ Recommended.onDemand + Recommended.spot + Recommended.reserved = Full
           /\ Recommended.onDemand >= MinOnDemand
           /\ 0 <= Recommended.spot /\ Recommended.spot <= MaxSpot
           /\ 0 <= Recommended.reserved
           /\ Recommended.spot = MaxSpot \/ Recommended.spot = Full - MinOnDemand - Recommended.reserved
           /\ Recommended.policyCompliant
<1>1. /\ Full \in Int /\ MinOnDemand \in Int /\ MaxSpot \in Int
      /\ 0 <= MinOnDemand /\ MinOnDemand <= Full /\ 0 <= MaxSpot /\ MaxSpot <= Full - MinOnDemand
  BY BoundsOfShares
<1>2. /\ TotalNodes \in Nat
      /\ \A o \in Option : nodes[o] \in Nat /\ Share(o) \in Nat
  BY ScalePositive
<1>3. Share("reserved") \in Nat /\ Share("spot") \in Nat
  BY <1>2 DEF Option
<1>4. /\ ReservedShare \in Int /\ SpotShare \in Int
      /\ 0 <= ReservedShare /\ ReservedShare <= Full - MinOnDemand
      /\ 0 <= SpotShare /\ SpotShare <= MaxSpot /\ SpotShare <= Full - MinOnDemand - ReservedShare
      /\ SpotShare = MaxSpot \/ SpotShare = Full - MinOnDemand - ReservedShare
      /\ Full - SpotShare - ReservedShare >= MinOnDemand
  <2>1. PICK S \in Int : S = Share("reserved") /\ 0 <= S
    BY <1>3
  <2>2. PICK F \in Int, M \in Int, X \in Int : F = Full /\ M = MinOnDemand /\ X = MaxSpot
    BY <1>1
  <2>3. /\ ReservedShare = AtMost(S, F - M)
        /\ SpotShare = AtLeast(AtMost(X, F - M - AtMost(S, F - M)), 0)
    BY <2>1, <2>2 DEF ReservedShare, SpotShare
  <2> QED
    BY <1>1, <2>1, <2>2, <2>3 DEF AtMost, AtLeast
<1>5. CurrentCost \in Int
  BY <1>2 DEF CurrentCost, Option, estimatedHourlyCost
<1> DEFINE rest == Full - SpotShare - ReservedShare
<1>6. rest \in Int /\ rest >= MinOnDemand /\ AtLeast(rest, MinOnDemand) = rest /\ ~(rest < MinOnDemand)
  BY <1>1, <1>4 DEF AtLeast
<1>7. /\ Recommended.onDemand = rest /\ Recommended.spot = SpotShare
      /\ Recommended.reserved = ReservedShare
      /\ Recommended.policyCompliant = (rest >= MinOnDemand /\ SpotShare <= MaxSpot)
  BY <1>6 DEF Recommended
<1>8. Recommended \in Recommendation
  <2>1. PICK k : k = rest * estimatedHourlyCost["on_demand"] + SpotShare * estimatedHourlyCost["spot"]
                     + ReservedShare * estimatedHourlyCost["reserved"]
    OBVIOUS
  <2>2. k \in Int
    BY <2>1, <1>4, <1>6 DEF estimatedHourlyCost
  <2>3. PICK e : e = IF TotalNodes = 0 THEN 0 ELSE AtLeast(100 * CurrentCost - k, 0)
    OBVIOUS
  <2>4. e \in Int
    BY <2>2, <2>3, <1>5 DEF AtLeast
  <2>5. PICK a : a = IF nodes["on_demand"] > 0 /\ SpotShare > Share("spot")
                     THEN (SpotShare - Share("spot")) \div 100 ELSE 0
    OBVIOUS
  <2>6. a \in Int
    BY <2>5, <1>3, <1>4
  <2>7. Recommended = [onDemand |-> rest, spot |-> SpotShare, reserved |-> ReservedShare,
                       expectedSavings |-> e, affectedNodes |-> a,
                       policyCompliant |-> rest >= MinOnDemand /\ SpotShare <= MaxSpot]
    BY <2>1, <2>3, <2>5, <1>6 DEF Recommended
  <2> HIDE DEF rest
  <2> QED
    BY <2>4, <2>6, <2>7, <1>4, <1>6 DEF Recommendation
<1>9. Recommended.policyCompliant = TRUE
  BY <1>4, <1>6, <1>7
<1>10. rest + SpotShare + ReservedShare = Full
  BY <1>1, <1>4
<1> HIDE DEF rest
<1> QED
  BY <1>4, <1>6, <1>7, <1>8, <1>9, <1>10

\* At the end of the loop the aggregate is the tightest of all limits.
LEMMA AllAggregated ==
    ASSUME TypeOK, LoopInv, next > Len(policies), NEW m \in Limits
    PROVE  /\ m.min \in 0..100 /\ m.max \in 0..100
           /\ m.min <= minOnDemandPct
           /\ m.max > 0 => maxSpotPct <= m.max
<1>1. PICK i \in 1..Len(policies) : m \in policies[i]
  BY PoliciesAreSequence DEF Limits
<1>2. m.min \in 0..100 /\ m.max \in 0..100
  BY <1>1, LimitsArePercentages
<1>3. i \in 1..(next - 1)
  BY PoliciesAreSequence DEF TypeOK
<1> QED
  BY <1>1, <1>2, <1>3 DEF LoopInv

\* The recommendation that is made has both properties.
LEMMA RecommendationIsRight ==
    ASSUME TypeOK, LoopInv, Attained, next > Len(policies)
    PROVE  /\ Recommended.onDemand + Recommended.spot + Recommended.reserved = Full
           /\ Recommended.onDemand >= 0 /\ Recommended.spot >= 0 /\ Recommended.reserved >= 0
           /\ \A m \in Limits : /\ Recommended.onDemand >= m.min * Scale
                                /\ m.max > 0 => Recommended.spot <= m.max * Scale
           /\ Recommended.policyCompliant
           /\ \A spot \in 0..(Full - Recommended.reserved) :
                 spot > Recommended.spot =>
                    \E m \in Limits : \/ Full - Recommended.reserved - spot < m.min * Scale
                                      \/ m.max > 0 /\ spot > m.max * Scale
<1>1. PICK d \in Int, p \in Int, r \in Int :
         /\ d = Recommended.onDemand /\ p = Recommended.spot /\ r = Recommended.reserved
         /\ d + p + r = Full /\ d >= MinOnDemand
         /\ 0 <= p /\ p <= MaxSpot /\ 0 <= r /\ (p = MaxSpot \/ p = Full - MinOnDemand - r)
  BY RecommendedShares DEF Recommendation
<1>2. /\ Full \in Int /\ MinOnDemand \in Int /\ MaxSpot \in Int
      /\ 0 <= MinOnDemand /\ MinOnDemand <= Full /\ 0 <= MaxSpot /\ MaxSpot <= Full - MinOnDemand
      /\ MaxSpot <= maxSpotPct * Scale
      /\ MaxSpot = maxSpotPct * Scale \/ MaxSpot = Full - MinOnDemand
  BY BoundsOfShares
<1>3. Scale \in Nat /\ minOnDemandPct \in 0..100 /\ maxSpotPct \in 0..100
  BY ScalePositive DEF TypeOK
<1>4. maxSpotPct * Scale \in Int
  BY <1>3, SharesAdd
<1>5. ASSUME NEW m \in Limits
      PROVE  d >= m.min * Scale /\ (m.max > 0 => p <= m.max * Scale)
  <2>1. /\ m.min \in Int /\ m.max \in Int /\ m.min <= minOnDemandPct
        /\ m.max > 0 => maxSpotPct <= m.max
    <3>1. /\ m.min \in 0..100 /\ m.max \in 0..100 /\ m.min <= minOnDemandPct
          /\ m.max > 0 => maxSpotPct <= m.max
      BY AllAggregated
    <3>2. m.min \in Int /\ m.max \in Int
      <4>1. \A k \in 0..100 : k \in Int
        OBVIOUS
      <4> QED
        BY <4>1, <3>1, Zenon
    <3> QED
      BY <3>1, <3>2
  <2>2. m.min * Scale <= minOnDemandPct * Scale /\ (m.max > 0 => maxSpotPct * Scale <= m.max * Scale)
    <3>1. minOnDemandPct \in Int /\ maxSpotPct \in Int
      BY <1>3
    <3> QED
      BY <3>1, <2>1, <1>3, SharesGrow
  <2>3. m.min * Scale \in Int /\ m.max * Scale \in Int
    BY <2>1, <1>3, SharesAdd
  <2>4. d >= m.min * Scale
    BY <2>2, <2>3, <1>1, <1>2 DEF MinOnDemand
  <2>5. m.max > 0 => p <= m.max * Scale
    BY <2>2, <2>3, <1>1, <1>2, <1>4
  <2> QED
    BY <2>4, <2>5
<1>6. ASSUME NEW spot \in 0..(Full - r), spot > p
      PROVE  \E m \in Limits : \/ Full - r - spot < m.min * Scale
                               \/ m.max > 0 /\ spot > m.max * Scale
  <2>0. spot \in Int /\ 0 <= spot /\ spot <= Full - r
    BY <1>1, <1>2
  <2>1. CASE Full - r - spot < MinOnDemand
    <3>1. minOnDemandPct # 0
      <4>1. CASE minOnDemandPct = 0
        <5>1. MinOnDemand = 0
          BY <4>1, <1>3 DEF MinOnDemand
        <5> QED
          BY <5>1, <2>0, <2>1, <1>1, <1>2
      <4> QED
        BY <4>1
    <3>2. PICK m \in Limits : minOnDemandPct = m.min
      BY <3>1 DEF Attained
    <3> QED
      BY <3>2, <2>1 DEF MinOnDemand
  <2>2. CASE ~(Full - r - spot < MinOnDemand)
    <3>1. p = MaxSpot /\ MaxSpot = maxSpotPct * Scale
      <4>1. PICK x \in Int : x = maxSpotPct * Scale
        BY <1>4
      <4>2. p # Full - MinOnDemand - r /\ p # Full - MinOnDemand
        <5>1. PICK F \in Int, M \in Int : F = Full /\ M = MinOnDemand
          BY <1>2
        <5>2. spot > p /\ spot <= F - r - M /\ 0 <= r
          <6>1. ~(F - r - spot < M)
            BY <5>1, <2>2
          <6>2. spot > p /\ spot \in Int /\ 0 <= r
            BY <2>0, <1>1, <1>6
          <6> QED
            BY <6>1, <6>2
        <5> QED
          BY <5>1, <5>2, <2>0
      <4> QED
        BY <4>1, <4>2, <1>1, <1>2
    <3>2. maxSpotPct # 100
      <4>1. CASE maxSpotPct = 100
        <5>1. maxSpotPct * Scale = Full
          BY <4>1 DEF Full
        <5> QED
          BY <5>1, <3>1, <2>0, <1>1, <1>2, <1>6
      <4> QED
        BY <4>1
    <3>3. PICK m \in Limits : m.max > 0 /\ maxSpotPct = m.max
      BY <3>2 DEF Attained
    <3>4. spot > m.max * Scale
      BY <3>1, <3>3, <1>6
    <3> QED
      BY <3>3, <3>4
  <2> QED
    BY <2>1, <2>2
<1>7. d >= 0
  BY <1>1, <1>2
<1> QED
  BY <1>1, <1>5, <1>6, <1>7, RecommendedShares

----------------------------------------------------------------------------
\* Before the loop nothing has been aggregated.
LEMMA InitiallyInductive ==
    ASSUME Init
    PROVE  MixInv
<1>1. TypeOK
  <2>1. PICK k \in 0..MaxPolicies : policies \in [1..k -> Mix]
    BY DEF Init
  <2>2. k \in Nat
    BY BoundsAreNat
  <2>3. policies \in Seq(Mix)
    BY <2>1, <2>2
  <2>4. Len(policies) \in Nat
    BY <2>3, LenProperties
  <2>5. next \in 1..(Len(policies) + 1)
    BY <2>4 DEF Init
  <2> QED
    BY <2>5 DEF Init, TypeOK
<1>2. LoopInv /\ Attained /\ MadeAtTheEnd
  BY DEF Init, LoopInv, Attained, MadeAtTheEnd
<1>3. RespectsEveryPolicy /\ MaximizesSpot
  BY DEF Init, RespectsEveryPolicy, MaximizesSpot
<1> QED
  BY <1>1, <1>2, <1>3 DEF MixInv

\* One round of the loop.
LEMMA AggregateStep ==
    ASSUME MixInv, Aggregate
    PROVE  MixInv'
<1>1. /\ TypeOK /\ LoopInv /\ Attained /\ MadeAtTheEnd /\ RespectsEveryPolicy /\ MaximizesSpot
      /\ next <= Len(policies) /\ next' = next + 1
      /\ nodes' = nodes /\ policies' = policies /\ rec' = rec
  BY DEF MixInv, Aggregate
<1>2. /\ Len(policies) \in Nat /\ DOMAIN policies = 1..Len(policies)
      /\ next \in 1..Len(policies) /\ policies[next] \in Mix
  BY <1>1, PoliciesAreSequence DEF TypeOK
<1>3. minOnDemandPct \in 0..100 /\ maxSpotPct \in 0..100
  BY <1>1 DEF TypeOK
<1>4. RespectsEveryPolicy' /\ MaximizesSpot'
  BY <1>1, SameProperties
<1>5. rec = {}
  BY <1>1, <1>2 DEF MadeAtTheEnd
<1>6. MadeAtTheEnd'
  BY <1>1, <1>5 DEF MadeAtTheEnd
<1>7. Limits' = Limits
  BY <1>1 DEF Limits
<1>8. CASE policies[next] = {} /\ UNCHANGED <<minOnDemandPct, maxSpotPct>>
  <2>1. TypeOK'
    BY <1>1, <1>2, <1>8 DEF TypeOK
  <2>2. LoopInv'
    <3> SUFFICES ASSUME NEW i \in 1..next, NEW m \in policies[i]
                 PROVE  m.min <= minOnDemandPct /\ (m.max > 0 => maxSpotPct <= m.max)
      BY <1>1, <1>2, <1>8 DEF LoopInv
    <3>1. i \in 1..(next - 1)
      BY <1>2, <1>8
    <3> QED
      BY <3>1, <1>1 DEF LoopInv
  <2>3. Attained'
    BY <1>1, <1>7, <1>8 DEF Attained
  <2> QED
    BY <2>1, <2>2, <2>3, <1>4, <1>6 DEF MixInv
<1>9. ASSUME NEW l \in policies[next],
             minOnDemandPct' = AtLeast(minOnDemandPct, l.min), maxSpotPct' = TighterMaximum(l)
      PROVE  MixInv'
  <2>1. l.min \in 0..100 /\ l.max \in 0..100 /\ l \in Limits
    BY <1>1, <1>2, <1>9, LimitsArePercentages DEF Limits
  <2>2. /\ minOnDemandPct' \in 0..100 /\ maxSpotPct' \in 0..100
        /\ minOnDemandPct <= minOnDemandPct' /\ l.min <= minOnDemandPct'
        /\ maxSpotPct' <= maxSpotPct /\ (l.max > 0 => maxSpotPct' <= l.max)
        /\ minOnDemandPct' = minOnDemandPct \/ minOnDemandPct' = l.min
        /\ maxSpotPct' = maxSpotPct \/ (l.max > 0 /\ maxSpotPct' = l.max)
    BY <2>1, <1>3, <1>9 DEF AtLeast, TighterMaximum
  <2>3. TypeOK'
    BY <1>1, <1>2, <2>2 DEF TypeOK
  <2>4. LoopInv'
    <3> SUFFICES ASSUME NEW i \in 1..next, NEW m \in policies[i]
                 PROVE  m.min <= minOnDemandPct' /\ (m.max > 0 => maxSpotPct' <= m.max)
      BY <1>1, <1>2 DEF LoopInv
    <3>1. m.min \in 0..100 /\ m.max \in 0..100
      BY <1>1, <1>2, LimitsArePercentages
    <3>2. CASE i = next
      <4>1. m = l
        BY <3>2, <1>2, <1>9 DEF Mix
      <4> QED
        BY <4>1, <2>2
    <3>3. CASE i # next
      <4>1. i \in 1..(next - 1)
        BY <3>3, <1>2
      <4>2. m.min <= minOnDemandPct /\ (m.max > 0 => maxSpotPct <= m.max)
        BY <4>1, <1>1 DEF LoopInv
      <4> QED
        BY <4>2, <3>1, <2>2, <1>3
    <3> QED
      BY <3>2, <3>3
  <2>5. Attained'
    BY <1>1, <1>7, <2>1, <2>2 DEF Attained
  <2> QED
    BY <2>3, <2>4, <2>5, <1>4, <1>6 DEF MixInv
<1> QED
  BY <1>8, <1>9 DEF Aggregate

\* The recommendation.
LEMMA GenerateStep ==
    ASSUME MixInv, GenerateRecommendation
    PROVE  MixInv'
<1>1. /\ TypeOK /\ LoopInv /\ Attained /\ next > Len(policies) /\ rec' = {Recommended}
      /\ nodes' = nodes /\ policies' = policies /\ next' = next
      /\ minOnDemandPct' = minOnDemandPct /\ maxSpotPct' = maxSpotPct
  BY DEF MixInv, GenerateRecommendation
<1>2. PICK r : r = Recommended
  OBVIOUS
<1>3. r \in Recommendation /\ rec' = {r}
  BY <1>1, <1>2, RecommendedShares
<1>4. Full' = Full /\ Scale' = Scale /\ Limits' = Limits
  BY <1>1 DEF Full, Scale, TotalNodes, Limits
<1>5. TypeOK'
  BY <1>1, <1>3 DEF TypeOK
<1>6. LoopInv' /\ Attained' /\ MadeAtTheEnd'
  BY <1>1, <1>4 DEF LoopInv, Attained, MadeAtTheEnd
<1>7. /\ r.onDemand + r.spot + r.reserved = Full
      /\ r.onDemand >= 0 /\ r.spot >= 0 /\ r.reserved >= 0
      /\ \A m \in Limits : /\ r.onDemand >= m.min * Scale
                           /\ m.max > 0 => r.spot <= m.max * Scale
      /\ r.policyCompliant
      /\ \A spot \in 0..(Full - r.reserved) :
            spot > r.spot => \E m \in Limits : \/ Full - r.reserved - spot < m.min * Scale
                                               \/ m.max > 0 /\ spot > m.max * Scale
  BY <1>1, <1>2, RecommendationIsRight
<1>8. RespectsEveryPolicy'
  BY <1>3, <1>4, <1>7 DEF RespectsEveryPolicy
<1>9. MaximizesSpot'
  BY <1>3, <1>4, <1>7 DEF MaximizesSpot
<1> QED
  BY <1>5, <1>6, <1>8, <1>9 DEF MixInv

\* The inductive invariant of the loop and of the recommendation.
THEOREM MixInductive == Spec => []MixInv
<1>1. Init => MixInv
  BY InitiallyInductive
<1>2. MixInv /\ [Next]_vars => MixInv'
  <2> SUFFICES ASSUME MixInv, [Next]_vars
               PROVE  MixInv'
    OBVIOUS
  <2>1. CASE UNCHANGED vars
    <3>1. UNCHANGED <<nodes, policies, next, minOnDemandPct, maxSpotPct, rec>>
      BY <2>1 DEF vars
    <3>2. RespectsEveryPolicy' /\ MaximizesSpot'
      BY <3>1, SameProperties DEF MixInv
    <3>3. TypeOK' /\ LoopInv' /\ Attained' /\ MadeAtTheEnd'
      BY <3>1 DEF MixInv, TypeOK, LoopInv, Attained, MadeAtTheEnd, Limits
    <3> QED
      BY <3>2, <3>3 DEF MixInv
  <2> QED
    BY <2>1, AggregateStep, GenerateStep DEF Next
<1> QED
  BY <1>1, <1>2, PTL DEF Spec

\* GenerateRecommendation respects the limits of every policy of its list, divides
\* the whole cluster and says so, for every cluster and every list.
THEOREM EveryPolicyRespected == Spec => []RespectsEveryPolicy
<1>1. MixInv => RespectsEveryPolicy
  BY DEF MixInv
<1> QED
  BY <1>1, MixInductive, PTL

\* GenerateRecommendation leaves no Spot share unused that the policies and the
\* reserved capacity allow.
THEOREM SpotIsMaximal == Spec => []MaximizesSpot
<1>1. MixInv => MaximizesSpot
  BY DEF MixInv
<1> QED
  BY <1>1, MixInductive, PTL

\* Limits stay percentages in the loop, and a recommendation has integer shares.
THEOREM MixTypeCorrect == Spec => []TypeOK
<1>1. MixInv => TypeOK
  BY DEF MixInv
<1> QED
  BY <1>1, MixInductive, PTL

----------------------------------------------------------------------------
(* Spot interruption                                                       *)

\* A call has listed nothing before its list, and has passed everything after
\* its loop; what it still has to come to and what failed it has listed.
CallsAreOrdered ==
    \A h \in Handler :
        /\ pc[h] \in {"idle", "list"} => listed[h] = {}
        /\ pc[h] = "done" => todo[h] = {}
        /\ todo[h] \subseteq listed[h]

\* A list names a pod once.
ListedOnce ==
    \A h \in Handler : \A x, y \in listed[h] : x.name = y.name => x = y

\* The pod that has the name now is the listed one or a later one.
ListedIsOld ==
    \A h \in Handler : \A x \in listed[h] : x.uid <= pod[x.name].uid

\* What the loop has passed is skipped, failed, or no longer there.
PassedIsSettled ==
    \A h \in Handler : \A x \in listed[h] \ (todo[h] \cup refused[h]) :
        x.name \in Skipped \/ pod[x.name].uid # x.uid \/ pod[x.name].phase = "gone"

\* An eviction was made for a pod the loop has passed.
EvictedWasPassed ==
    \A e \in evicted :
        /\ e.id.name \notin Skipped
        /\ \E x \in listed[e.by] \ todo[e.by] : x.name = e.id.name /\ x.uid <= e.id.uid

\* Of one name a call evicts once.
EvictedOnce ==
    \A e, f \in evicted : e.by = f.by /\ e.id.name = f.id.name => e = f

DrainInv ==
    /\ SpotTypeOK
    /\ CallsAreOrdered
    /\ ListedOnce
    /\ ListedIsOld
    /\ PassedIsSettled
    /\ EvictedWasPassed
    /\ EvictedOnce

----------------------------------------------------------------------------
(* Types *)

\* What the API server lists is a set of pods.
LEMMA PodsOnType ==
    ASSUME SpotTypeOK, NEW n \in Node
    PROVE  PodsOn(n) \subseteq ID
BY DEF SpotTypeOK, PodsOn, ID

\* Every step keeps the types.
LEMMA TypeStep ==
    ASSUME SpotTypeOK, SpotNext
    PROVE  SpotTypeOK'
<1> USE DEF SpotTypeOK
<1>1. ASSUME NEW h \in Handler, NEW n \in Node, Notice(h, n) PROVE SpotTypeOK'
  BY <1>1 DEF Notice
<1>2. ASSUME NEW h \in Handler, ListPods(h) PROVE SpotTypeOK'
  <2>1. PodsOn(target[h]) \subseteq ID
    BY PodsOnType
  <2> QED
    BY <1>2, <2>1 DEF ListPods
<1>3. ASSUME NEW h \in Handler, ListFails(h) PROVE SpotTypeOK'
  BY <1>3 DEF ListFails
<1>4. ASSUME NEW h \in Handler, NEW x \in todo[h], Skip(h, x) PROVE SpotTypeOK'
  BY <1>4 DEF Skip
<1>5. ASSUME NEW h \in Handler, NEW x \in todo[h], Evict(h, x) PROVE SpotTypeOK'
  <2>1. x \in ID /\ x.name \in Name
    BY DEF ID
  <2>2. [by |-> h, id |-> [name |-> x.name, uid |-> pod[x.name].uid]] \in [by : Handler, id : ID]
    BY <2>1 DEF ID
  <2>3. pod' \in [Name -> [node : Node, uid : 0..MaxUID, phase : {"gone", "running"}]]
    BY <1>5, <2>1 DEF Evict
  <2> QED
    BY <1>5, <2>2, <2>3 DEF Evict
<1>6. ASSUME NEW h \in Handler, NEW x \in todo[h], EvictFails(h, x) PROVE SpotTypeOK'
  BY <1>6 DEF EvictFails
<1>7. ASSUME NEW h \in Handler, Return(h) PROVE SpotTypeOK'
  BY <1>7 DEF Return
<1>8. ASSUME NEW p \in Name, PodGoes(p) PROVE SpotTypeOK'
  BY <1>8 DEF PodGoes, callVars
<1>9. ASSUME NEW p \in Name, NEW n \in Node, PodComes(p, n) PROVE SpotTypeOK'
  BY <1>9, MaxUIDIsNat DEF PodComes, callVars
<1> QED
  BY <1>1, <1>2, <1>3, <1>4, <1>5, <1>6, <1>7, <1>8, <1>9 DEF SpotNext, Handles

----------------------------------------------------------------------------
(* The steps *)

\* Before the first notice no call is under way and no pod evicted.
LEMMA DrainInitially ==
    ASSUME SpotInit
    PROVE  DrainInv
<1>1. (CHOOSE n \in Node : TRUE) \in Node
  BY NodeNotEmpty
<1>2. SpotTypeOK
  BY <1>1, MaxUIDIsNat DEF SpotInit, SpotTypeOK
<1> QED
  BY <1>2 DEF SpotInit, DrainInv, CallsAreOrdered, ListedOnce, ListedIsOld, PassedIsSettled,
              EvictedWasPassed, EvictedOnce

\* What a call knows of its pods depends on pod, listed, todo and refused only:
\* a step that changes only where a call is, keeps it.
LEMMA PcStep ==
    ASSUME DrainInv, SpotTypeOK', CallsAreOrdered',
           UNCHANGED <<pod, listed, todo, refused, evicted>>
    PROVE  DrainInv'
BY DEF DrainInv, ListedOnce, ListedIsOld, PassedIsSettled, EvictedWasPassed, EvictedOnce

\* A call that lists the pods of its node knows each of them once, as it is now.
LEMMA ListPodsStep ==
    ASSUME DrainInv, SpotTypeOK', NEW h \in Handler, ListPods(h)
    PROVE  DrainInv'
<1> USE DEF DrainInv, SpotTypeOK
<1>1. \A x \in PodsOn(target[h]) : /\ x.name \in Name
                                   /\ x.uid = pod[x.name].uid
                                   /\ x = [name |-> x.name, uid |-> pod[x.name].uid]
  BY DEF PodsOn
<1>2. listed[h] = {}
  BY DEF ListPods, CallsAreOrdered
<1>3. \A g \in Handler \ {h} : listed'[g] = listed[g] /\ todo'[g] = todo[g]
  BY DEF ListPods
<1>4. listed'[h] = PodsOn(target[h]) /\ todo'[h] = listed'[h] /\ pod' = pod
  BY DEF ListPods
<1>5. CallsAreOrdered'
  BY <1>3, <1>4 DEF ListPods, CallsAreOrdered
<1>6. ListedOnce'
  BY <1>1, <1>3, <1>4 DEF ListedOnce
<1>7. ListedIsOld'
  <2>1. \A x \in PodsOn(target[h]) : x.uid <= pod[x.name].uid
    BY <1>1, MaxUIDIsNat
  <2> QED
    BY <1>3, <1>4, <2>1 DEF ListedIsOld
<1>8. PassedIsSettled'
  BY <1>3, <1>4 DEF PassedIsSettled, ListPods
<1>9. EvictedWasPassed' /\ EvictedOnce'
  <2>1. \A e \in evicted : e.by # h
    BY <1>2 DEF EvictedWasPassed
  <2> QED
    BY <1>3, <2>1 DEF EvictedWasPassed, EvictedOnce, ListPods
<1> QED
  BY <1>5, <1>6, <1>7, <1>8, <1>9

\* A call passes over a pod that needs no eviction: it is settled by that.
LEMMA SkipStep ==
    ASSUME DrainInv, SpotTypeOK', NEW h \in Handler, NEW x \in todo[h], Skip(h, x)
    PROVE  DrainInv'
<1> USE DEF DrainInv, SpotTypeOK
<1>1. \A g \in Handler : todo'[g] \subseteq todo[g]
  BY DEF Skip
<1>2. \A g \in Handler : todo[g] \ todo'[g] \subseteq {x}
  BY DEF Skip
<1>3. CallsAreOrdered'
  BY <1>1 DEF CallsAreOrdered, Skip
<1>4. ListedOnce' /\ ListedIsOld'
  BY DEF ListedOnce, ListedIsOld, Skip
<1>5. PassedIsSettled'
  BY <1>2 DEF PassedIsSettled, Skip
<1>6. EvictedWasPassed' /\ EvictedOnce'
  BY <1>1 DEF EvictedWasPassed, EvictedOnce, Skip
<1> QED
  BY <1>3, <1>4, <1>5, <1>6

\* The name's pod is now gone, whichever it was; another call's pods of the
\* name are settled by the same eviction.
LEMMA EvictStep ==
    ASSUME DrainInv, SpotTypeOK', NEW h \in Handler, NEW x \in todo[h], Evict(h, x)
    PROVE  DrainInv'
<1> DEFINE new == [by |-> h, id |-> [name |-> x.name, uid |-> pod[x.name].uid]]
<1>1. x \in listed[h] /\ x \in ID /\ x.name \in Name
  BY DEF DrainInv, SpotTypeOK, CallsAreOrdered, ID
<1>2. \A g \in Handler : todo'[g] \subseteq todo[g]
  BY DEF DrainInv, SpotTypeOK, Evict
<1>3. \A g \in Handler : todo[g] \ todo'[g] \subseteq {x}
  BY DEF DrainInv, SpotTypeOK, Evict
<1>4. x \notin todo'[h]
  BY DEF DrainInv, SpotTypeOK, Evict
<1>5. \A p \in Name : /\ pod'[p].uid = pod[p].uid
                      /\ pod[p].phase = "gone" => pod'[p].phase = "gone"
  BY DEF DrainInv, SpotTypeOK, Evict
<1>6. pod'[x.name].phase = "gone"
  BY <1>1 DEF DrainInv, SpotTypeOK, Evict
<1>7. listed' = listed /\ refused' = refused /\ pc' = pc /\ evicted' = evicted \cup {new}
  BY DEF Evict
<1>8. \A g \in Handler : \A y \in listed[g] : y.name \in Name
  BY DEF DrainInv, SpotTypeOK, ID
<1>9. CallsAreOrdered'
  BY <1>2, <1>7 DEF DrainInv, CallsAreOrdered
<1>10. ListedOnce'
  BY <1>7 DEF DrainInv, ListedOnce
<1>11. ListedIsOld'
  BY <1>5, <1>7, <1>8 DEF DrainInv, ListedIsOld
<1>12. PassedIsSettled'
  <2> SUFFICES ASSUME NEW g \in Handler, NEW y \in listed[g], y \notin todo'[g], y \notin refused[g]
               PROVE  y.name \in Skipped \/ pod'[y.name].uid # y.uid \/ pod'[y.name].phase = "gone"
    BY <1>7 DEF PassedIsSettled
  <2>1. CASE y = x
    BY <1>6, <2>1
  <2>2. CASE y # x
    BY <1>3, <1>5, <1>8, <2>2 DEF DrainInv, PassedIsSettled
  <2> QED
    BY <2>1, <2>2
<1>13. EvictedWasPassed'
  <2>1. new.id.name \notin Skipped /\ new.by = h /\ new.id.name = x.name /\ new.id.uid = pod[x.name].uid
    BY DEF Evict
  <2>2. x.uid <= new.id.uid
    BY <1>1, <2>1 DEF DrainInv, ListedIsOld
  <2>3. \A e \in evicted : e.by \in Handler
    BY DEF DrainInv, SpotTypeOK
  <2>4. \E y \in listed'[new.by] \ todo'[new.by] : y.name = new.id.name /\ y.uid <= new.id.uid
    BY <1>1, <1>4, <1>7, <2>1, <2>2
  <2>5. \A e \in evicted : \E y \in listed'[e.by] \ todo'[e.by] : y.name = e.id.name /\ y.uid <= e.id.uid
    BY <1>2, <1>7, <2>3 DEF DrainInv, EvictedWasPassed
  <2> QED
    BY <1>7, <2>1, <2>4, <2>5 DEF DrainInv, EvictedWasPassed
<1>14. EvictedOnce'
  <2>1. \A e \in evicted : ~(e.by = h /\ e.id.name = x.name)
    BY <1>1 DEF DrainInv, EvictedWasPassed, ListedOnce
  <2> QED
    BY <1>7, <2>1 DEF DrainInv, EvictedOnce
<1> QED
  BY <1>9, <1>10, <1>11, <1>12, <1>13, <1>14 DEF DrainInv

\* A refused eviction moves the pod from the ones to do to the ones refused.
LEMMA EvictFailsStep ==
    ASSUME DrainInv, SpotTypeOK', NEW h \in Handler, NEW x \in todo[h], EvictFails(h, x)
    PROVE  DrainInv'
<1> USE DEF DrainInv, SpotTypeOK
<1>1. \A g \in Handler : todo'[g] \subseteq todo[g]
  BY DEF EvictFails
<1>2. \A g \in Handler : todo[g] \cup refused[g] \subseteq todo'[g] \cup refused'[g]
  BY DEF EvictFails
<1>3. CallsAreOrdered'
  BY <1>1 DEF CallsAreOrdered, EvictFails
<1>4. ListedOnce' /\ ListedIsOld'
  BY DEF ListedOnce, ListedIsOld, EvictFails
<1>5. PassedIsSettled'
  BY <1>2 DEF PassedIsSettled, EvictFails
<1>6. EvictedWasPassed' /\ EvictedOnce'
  BY <1>1 DEF EvictedWasPassed, EvictedOnce, EvictFails
<1> QED
  BY <1>3, <1>4, <1>5, <1>6

\* Whatever happens to the pods, one that is gone comes back as a later one.
LEMMA PodStep ==
    ASSUME DrainInv, SpotTypeOK', UNCHANGED <<callVars, evicted>>,
           \A p \in Name :
               \/ pod'[p].uid = pod[p].uid /\ (pod[p].phase = "gone" => pod'[p].phase = "gone")
               \/ pod'[p].uid = pod[p].uid + 1
    PROVE  DrainInv'
<1>1. \A h \in Handler : \A x \in listed[h] : x.name \in Name /\ x.uid \in Nat
  BY MaxUIDIsNat DEF DrainInv, SpotTypeOK, ID
<1>2. \A p \in Name : pod[p].uid \in Nat /\ pod'[p].uid \in Nat
  BY MaxUIDIsNat DEF DrainInv, SpotTypeOK
<1>3. CallsAreOrdered' /\ ListedOnce' /\ EvictedWasPassed' /\ EvictedOnce'
  BY DEF DrainInv, CallsAreOrdered, ListedOnce, EvictedWasPassed, EvictedOnce, callVars
<1>4. ListedIsOld'
  BY <1>1, <1>2 DEF DrainInv, ListedIsOld, callVars
<1>5. PassedIsSettled'
  BY <1>1, <1>2 DEF DrainInv, ListedIsOld, PassedIsSettled, callVars
<1> QED
  BY <1>3, <1>4, <1>5 DEF DrainInv

\* Every step keeps the inductive invariant.
LEMMA DrainStep ==
    ASSUME DrainInv, SpotNext
    PROVE  DrainInv'
<1>1. SpotTypeOK'
  BY TypeStep DEF DrainInv
<1>2. ASSUME NEW h \in Handler, NEW n \in Node, Notice(h, n) PROVE DrainInv'
  <2>1. CallsAreOrdered'
    BY <1>2 DEF DrainInv, SpotTypeOK, CallsAreOrdered, Notice
  <2> QED
    BY <1>1, <1>2, <2>1, PcStep DEF Notice
<1>3. ASSUME NEW h \in Handler, ListPods(h) PROVE DrainInv'
  BY <1>1, <1>3, ListPodsStep
<1>4. ASSUME NEW h \in Handler, ListFails(h) PROVE DrainInv'
  <2>1. CallsAreOrdered'
    BY <1>4 DEF DrainInv, SpotTypeOK, CallsAreOrdered, ListFails
  <2> QED
    BY <1>1, <1>4, <2>1, PcStep DEF ListFails
<1>5. ASSUME NEW h \in Handler, NEW x \in todo[h], Skip(h, x) PROVE DrainInv'
  BY <1>1, <1>5, SkipStep
<1>6. ASSUME NEW h \in Handler, NEW x \in todo[h], Evict(h, x) PROVE DrainInv'
  BY <1>1, <1>6, EvictStep
<1>7. ASSUME NEW h \in Handler, NEW x \in todo[h], EvictFails(h, x) PROVE DrainInv'
  BY <1>1, <1>7, EvictFailsStep
<1>8. ASSUME NEW h \in Handler, Return(h) PROVE DrainInv'
  <2>1. CallsAreOrdered'
    BY <1>8 DEF DrainInv, SpotTypeOK, CallsAreOrdered, Return
  <2> QED
    BY <1>1, <1>8, <2>1, PcStep DEF Return
<1>9. ASSUME NEW p \in Name, PodGoes(p) PROVE DrainInv'
  <2>1. \A q \in Name : pod'[q].uid = pod[q].uid /\ (pod[q].phase = "gone" => pod'[q].phase = "gone")
    BY <1>9 DEF DrainInv, SpotTypeOK, PodGoes
  <2> QED
    BY <1>1, <1>9, <2>1, PodStep DEF PodGoes
<1>10. ASSUME NEW p \in Name, NEW n \in Node, PodComes(p, n) PROVE DrainInv'
  <2>1. \A q \in Name : IF q = p THEN pod'[q].uid = pod[q].uid + 1 ELSE pod'[q] = pod[q]
    BY <1>10 DEF DrainInv, SpotTypeOK, PodComes
  <2> QED
    BY <1>1, <1>10, <2>1, PodStep DEF PodComes
<1> QED
  BY <1>2, <1>3, <1>4, <1>5, <1>6, <1>7, <1>8, <1>9, <1>10 DEF SpotNext, Handles

\* The inductive invariant holds throughout.
LEMMA DrainInductive == SpotSpec => []DrainInv
<1>1. DrainInv /\ UNCHANGED spotVars => DrainInv'
  BY DEF DrainInv, SpotTypeOK, CallsAreOrdered, ListedOnce, ListedIsOld, PassedIsSettled,
         EvictedWasPassed, EvictedOnce, spotVars, callVars, ID, Name
<1> QED
  BY <1>1, DrainInitially, DrainStep, PTL DEF SpotSpec

----------------------------------------------------------------------------
(* The properties *)

\* Every variable of SpotInterruption keeps its type.
THEOREM SpotTypeCorrect == SpotSpec => []SpotTypeOK
<1>1. DrainInv => SpotTypeOK
  BY DEF DrainInv
<1> QED
  BY <1>1, DrainInductive, PTL

\* When HandleSpotInterruption returns after a list, what is left of the pods
\* it was to evict are those whose eviction failed: for any number of pods,
\* nodes and calls, however the calls interleave with pods that come and go.
THEOREM DrainIsComplete == SpotSpec => []NodeIsDrained
<1>1. DrainInv => NodeIsDrained
  BY DEF DrainInv, CallsAreOrdered, PassedIsSettled, NodeIsDrained
<1> QED
  BY <1>1, DrainInductive, PTL

\* A call evicts at most once by each listed name, the listed pod or a later
\* one, and never a DaemonSet's or a mirror pod, though an eviction carries no
\* UID and StatefulSets use names again.
THEOREM DisruptionBound == SpotSpec => []DisruptionIsBounded
<1>1. DrainInv => DisruptionIsBounded
  BY DEF DrainInv, EvictedWasPassed, EvictedOnce, DisruptionIsBounded
<1> QED
  BY <1>1, DrainInductive, PTL
==============================================================================
