-------------------------- MODULE MCCostAllocation --------------------------
(* An instance of CostAllocation for TLC. *)
EXTENDS CostAllocation

\* Idle, only CPU, only memory: the totals of a cluster are zero or not, each.
MCUsage == {<<0, 0>>, <<2, 0>>, <<0, 1>>}

\* A pod without labels, and one whose service comes from the second key.
MCLabel == {NoLabels, [app |-> "", service |-> "s", team |-> "t"]}
=============================================================================
