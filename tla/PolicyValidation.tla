-------------------------- MODULE PolicyValidation --------------------------
(***************************************************************************)
(* pkg/policy/validate.go: the rules a FinancialPolicySpec must obey.      *)
(*                                                                         *)
(* A spec (without spec.version, which PolicyStore keeps apart) is a       *)
(* record.  An optional pointer of the Go struct is a set with at most one *)
(* element.  Amounts and percentages are integers, and a silence window is *)
(* a pair of instants.                                                     *)
(***************************************************************************)
EXTENDS Integers, Sequences

\* The enum values of the three tables at the head of validate.go.
validBreachActions == {"alert", "throttle", "block_deployments"}
validModes == {"automatic", "advisory"}
validChannelTypes == {"slack", "email", "pagerduty", "sns"}

IsPercentage(x) == 0 <= x /\ x <= 100

\* sort.Float64sAreSorted
AreSorted(s) == \A i \in 2..Len(s) : s[i - 1] <= s[i]

\* The rules, one per field a ValidationError can name.
Broken(field, spec) ==
    CASE field = "targetNamespace"  -> spec.targetNamespace = ""
      [] field = "monthly_limit"    -> spec.monthlyLimit <= 0
      [] field = "breach_action"    -> spec.breachAction \notin validBreachActions \cup {""}
      [] field = "mode"             -> spec.mode \notin validModes \cup {""}
      [] field = "min_on_demand_percent" ->
            \E mix \in spec.instanceMix : ~IsPercentage(mix.minOnDemandPercent)
      [] field = "max_spot_percent" ->
            \E mix \in spec.instanceMix : ~IsPercentage(mix.maxSpotPercent)
      [] field = "alert_thresholds" ->
            \/ \E i \in DOMAIN spec.alertThresholds : ~IsPercentage(spec.alertThresholds[i])
            \/ ~AreSorted(spec.alertThresholds)
      [] field = "channels" ->
            \E alerting \in spec.alerting : ~(alerting.channels \subseteq validChannelTypes)
      [] field = "silence_windows" ->
            \E alerting \in spec.alerting :
               \E w \in alerting.silenceWindows : ~(w.start < w.end)

ValidatedFields ==
    {"targetNamespace", "monthly_limit", "breach_action", "mode",
     "min_on_demand_percent", "max_spot_percent", "alert_thresholds",
     "channels", "silence_windows"}

\* The fields at fault: a policy is valid when there are none.
ValidateFinancialPolicy(spec) == {field \in ValidatedFields : Broken(field, spec)}

IsValid(spec) == ValidateFinancialPolicy(spec) = {}
=============================================================================
