----------------------------- MODULE InstanceMix -----------------------------
(***************************************************************************)
(* pkg/instance/manager.go: AnalyzeInstanceMix counts the nodes of each    *)
(* purchase option, and GenerateRecommendation derives the tightest        *)
(* constraints from a list of policies, one policy at a time, and then the *)
(* mix with the most Spot capacity they allow.                             *)
(*                                                                         *)
(* The code computes with percentages in floating point.  Here shares are  *)
(* exact: a share of s stands for s / Scale percent, where Scale is the    *)
(* number of nodes, so that the share of k nodes is 100 * k.  Prices are   *)
(* in thousandths of a dollar an hour; the 730 hours of a month are left   *)
(* out of every cost.                                                      *)
(***************************************************************************)
EXTENDS Integers, Sequences

CONSTANTS MaxNodes,     \* bound: nodes of each purchase option
          MaxPolicies,  \* bound: policies in the list
          Percent       \* the limits a policy may set

ASSUME BoundsAreNat == MaxNodes \in Nat /\ MaxPolicies \in Nat

\* Validation keeps min_on_demand_percent and max_spot_percent in 0..100.
ASSUME PercentAssumption == Percent \subseteq 0..100

VARIABLES nodes,     \* the cluster: how many nodes of each purchase option
          policies,  \* the instanceMix of each policy in the list
          next,      \* the policy the loop is at
          minOnDemandPct, maxSpotPct,
          rec        \* the recommendation: none or one

vars == <<nodes, policies, next, minOnDemandPct, maxSpotPct, rec>>

\* classifyNode: a label value that is not known is an option of its own.
Option == {"on_demand", "spot", "reserved", "other"}

\* instanceMix of a policy: not set, or its two limits.
Mix == {{}} \cup {{m} : m \in [min : Percent, max : Percent]}

Init ==
    /\ nodes \in [Option -> 0..MaxNodes]
    /\ policies \in UNION {[1..k -> Mix] : k \in 0..MaxPolicies}
    /\ next = 1
    /\ minOnDemandPct = 0
    /\ maxSpotPct = 100
    /\ rec = {}

----------------------------------------------------------------------------
\* estimatedHourlyCost: an unknown option costs what On-Demand does.
estimatedHourlyCost == [on_demand |-> 192, spot |-> 70, reserved |-> 120, other |-> 192]

TotalNodes == nodes["on_demand"] + nodes["spot"] + nodes["reserved"] + nodes["other"]

Scale == IF TotalNodes > 0 THEN TotalNodes ELSE 1

\* stats.Percentage of an option.
Share(option) == 100 * nodes[option]

\* analysis.CurrentCost, in units of a node's hour.
CurrentCost ==
    LET costOf(option) == nodes[option] * estimatedHourlyCost[option]
    IN  costOf("on_demand") + costOf("spot") + costOf("reserved") + costOf("other")

AtMost(x, limit) == IF x > limit THEN limit ELSE x
AtLeast(x, limit) == IF x < limit THEN limit ELSE x

\* Faulty variant: the last policy's maximum replaces the earlier ones.
LastMaximum(m) == IF m.max > 0 THEN m.max ELSE maxSpotPct

\* Faulty variant: the maxima of the policies add up.
SummedMaximum(m) == maxSpotPct + m.max

\* Zero is taken for "not set".
TighterMaximum(m) == IF m.max > 0 /\ m.max < maxSpotPct THEN m.max ELSE maxSpotPct

\* One round of the loop over the policies.
Aggregate ==
    /\ next <= Len(policies)
    /\ next' = next + 1
    /\ \/ /\ policies[next] = {}
          /\ UNCHANGED <<minOnDemandPct, maxSpotPct>>
       \/ \E m \in policies[next] :
             /\ minOnDemandPct' = AtLeast(minOnDemandPct, m.min)
             /\ maxSpotPct' = TighterMaximum(m)
    /\ UNCHANGED <<nodes, policies, rec>>

Full == 100 * Scale
MinOnDemand == minOnDemandPct * Scale

\* The On-Demand minimum takes priority over the Spot maximum.
MaxSpot == AtMost(maxSpotPct, 100 - minOnDemandPct) * Scale

\* Reserved capacity stays, as far as the On-Demand minimum leaves room.
ReservedShare == AtMost(Share("reserved"), Full - MinOnDemand)

\* Faulty variant: reserved capacity counts against the Spot maximum.
SpotBesideReserved ==
    AtLeast(AtMost(MaxSpot - ReservedShare, Full - MinOnDemand - ReservedShare), 0)

\* As much Spot as maximum, minimum and reserved capacity allow.
SpotShare == AtLeast(AtMost(MaxSpot, Full - MinOnDemand - ReservedShare), 0)

\* What the code recommends: On-Demand takes the rest, corrected upwards to
\* the minimum at the expense of Spot.
Recommended ==
    LET rest == Full - SpotShare - ReservedShare
        onDemand == AtLeast(rest, MinOnDemand)
        spot == IF rest < MinOnDemand THEN AtLeast(Full - onDemand - ReservedShare, 0) ELSE SpotShare
        cost == onDemand * estimatedHourlyCost["on_demand"] + spot * estimatedHourlyCost["spot"]
                + ReservedShare * estimatedHourlyCost["reserved"]
    IN  [onDemand |-> onDemand, spot |-> spot, reserved |-> ReservedShare,
         \* in hundredths of a node's hour
         expectedSavings |-> IF TotalNodes = 0 THEN 0 ELSE AtLeast(100 * CurrentCost - cost, 0),
         affectedNodes |-> IF nodes["on_demand"] > 0 /\ spot > Share("spot")
                           THEN (spot - Share("spot")) \div 100 ELSE 0,
         policyCompliant |-> onDemand >= MinOnDemand /\ spot <= MaxSpot]

GenerateRecommendation ==
    /\ next > Len(policies)
    /\ rec = {}
    /\ rec' = {Recommended}
    /\ UNCHANGED <<nodes, policies, next, minOnDemandPct, maxSpotPct>>

Next == Aggregate \/ GenerateRecommendation

Spec == Init /\ [][Next]_vars

----------------------------------------------------------------------------
Limits == UNION {policies[i] : i \in DOMAIN policies}

Recommendation ==
    [onDemand : Int, spot : Int, reserved : Int, expectedSavings : Int, affectedNodes : Int,
     policyCompliant : BOOLEAN]

TypeOK ==
    /\ nodes \in [Option -> 0..MaxNodes]
    /\ policies \in UNION {[1..k -> Mix] : k \in 0..MaxPolicies}
    /\ next \in 1..(Len(policies) + 1)
    /\ minOnDemandPct \in 0..100
    /\ maxSpotPct \in 0..100
    /\ rec \subseteq Recommendation

\* A recommendation divides the whole cluster, gives no option a negative share,
\* and respects the limits of every policy of the list, where a maximum of zero
\* is no maximum: none of them is lost in the loop of GenerateRecommendation.
RespectsEveryPolicy ==
    \A r \in rec :
       /\ r.onDemand + r.spot + r.reserved = Full
       /\ r.onDemand >= 0 /\ r.spot >= 0 /\ r.reserved >= 0
       /\ \A m \in Limits : /\ r.onDemand >= m.min * Scale
                            /\ m.max > 0 => r.spot <= m.max * Scale
       /\ r.policyCompliant

\* GenerateRecommendation "maximizes Spot usage": no larger Spot share would
\* leave the reserved share as it is and respect every policy of the list.
MaximizesSpot ==
    \A r \in rec : \A spot \in 0..(Full - r.reserved) :
       spot > r.spot =>
          \E m \in Limits : \/ Full - r.reserved - spot < m.min * Scale
                            \/ m.max > 0 /\ spot > m.max * Scale
=============================================================================
