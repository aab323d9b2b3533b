--------------------------- MODULE MCControlPlane ---------------------------
(* Instances of ControlPlane for TLC. *)
EXTENDS ControlPlane, TLC

SpecOf(limit, thresholds, action, mode) ==
    [targetNamespace |-> "team", monthlyLimit |-> limit, alertThresholds |-> thresholds,
     breachAction |-> action, mode |-> mode, instanceMix |-> {}, alerting |-> {}]

\* Two valid specs with different limits and modes, one without a breach
\* action, and one the CRD schema admits and validation refuses: it has no limit
\* and thresholds out of order, the last of which its usage of zero reaches.
Alerting == SpecOf(2, <<50, 100>>, "alert", "automatic")
Silent == SpecOf(4, <<50>>, "", "advisory")
Unlimited == SpecOf(0, <<50, 0>>, "alert", "automatic")

MCBody == {Alerting, Silent, Unlimited}

\* A third valid spec, so that a window of three versions can hold three.
Throttling == SpecOf(4, <<100>>, "throttle", "automatic")
MCBodyVersions == {Alerting, Throttling, Unlimited}

MCTargets == {"team"}
AllWired == {"AlertManager", "InstanceManager", "AuditWriter"}
BothControllers == {"policy", "orchestrator"}
CallerSymmetry == Permutations(Caller)
PolicyOnly == {"policy"}
=============================================================================
