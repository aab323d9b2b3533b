--------------------------- MODULE MCCostPipeline ---------------------------
(* Instances of CostPipeline for TLC. *)
EXTENDS CostPipeline

\* Every day but the one before the month costs the same.
FlatCost(d) == IF d = 0 THEN 0 ELSE 1
=============================================================================
