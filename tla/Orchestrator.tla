----------------------------- MODULE Orchestrator -----------------------------
(***************************************************************************)
(* pkg/orchestrator/controller.go: OrchestratorReconciler compares the     *)
(* month-to-date cost of a policy's target namespace with its budget, acts *)
(* on a breach, optimises the instance mix and writes what it found to the *)
(* policy's status.                                                        *)
(*                                                                         *)
(* One step per call that leaves the process: the read, the cost query,    *)
(* the breach action, the optimisation, the status update.                 *)
(***************************************************************************)
EXTENDS PolicyStore

CONSTANTS TargetNamespace,  \* namespaces that policies budget
          Wired             \* which optional collaborators are not nil

ASSUME WiredAssumption == Wired \subseteq {"AlertManager", "InstanceManager", "AuditWriter"}

ASSUME TargetsKnown == \A b \in Body : b.targetNamespace \in TargetNamespace

VARIABLES cost,         \* the cost store: month-to-date cost of each target
          currentCost,  \* the local of the running Reconcile
          effects       \* history: what the running Reconcile has done

orchestratorVars == <<cost, currentCost, effects>>

\* "breach": a breach action was carried out; the others are the alerts, the
\* audit entries and the applied recommendation.
Effect == {"breach", "alert", "audit_breach", "apply", "audit_failure", "alert_failure",
           "audit_evaluate"}

OrchestratorTypeOK ==
    /\ cost \in [TargetNamespace -> Cost]
    /\ currentCost \in Cost
    /\ effects \subseteq Effect

NoCost == CHOOSE c \in Cost : TRUE

OrchestratorInit ==
    /\ cost \in [TargetNamespace -> Cost]
    /\ currentCost = NoCost
    /\ effects = {}

----------------------------------------------------------------------------
\* Faulty variant: a threshold must be exceeded.
BreachedAbove(b, c) ==
    \E i \in DOMAIN b.alertThresholds :
       IF b.monthlyLimit > 0 THEN c * 100 > b.alertThresholds[i] * b.monthlyLimit
                             ELSE 0 > b.alertThresholds[i]

\* budgetUsagePct reaches a threshold (the percentage is 0 without a limit).
Breached(b, c) ==
    \E i \in DOMAIN b.alertThresholds :
       IF b.monthlyLimit > 0 THEN c * 100 >= b.alertThresholds[i] * b.monthlyLimit
                             ELSE 0 >= b.alertThresholds[i]

\* What collaborators that are not configured would do is skipped.
IfWired(who, what) == IF who \in Wired THEN what ELSE {}

\* executeBreachAction.  Only "alert" does anything; when its alert cannot
\* be sent the function returns before the audit entry.
executeBreachAction(b, sent) ==
    {"breach"} \cup
    IF b.breachAction = "alert" /\ "AlertManager" \in Wired /\ ~sent
    THEN {}
    ELSE (IF b.breachAction = "alert" THEN IfWired("AlertManager", {"alert"}) ELSE {})
         \cup IfWired("AuditWriter", {"audit_breach"})

\* handleOptimizationFailure: an audit entry and a notification.
handleOptimizationFailure(sent) ==
    IfWired("AuditWriter", {"audit_failure"})
    \cup IF sent THEN IfWired("AlertManager", {"alert_failure"}) ELSE {}

\* applyAutomaticOptimization and what follows its error: the three outcomes
\* of analysing, recommending and applying.
applyAutomaticOptimization(outcome, sent) ==
    CASE outcome = "no savings" -> {}
      [] outcome = "applied"    -> IfWired("InstanceManager", {"apply"})
      [] outcome = "failed"     -> IF "InstanceManager" \in Wired
                                   THEN handleOptimizationFailure(sent) ELSE {}

\* The status the reconciler computes from the copy it read.
Evaluated(obj, c) == [obj EXCEPT !.eval = {[limit |-> obj.body.monthlyLimit, cost |-> c]}]

----------------------------------------------------------------------------
\* Faulty variant: a policy in phase Error is evaluated like any other.
OrcReadAny(n) ==
    /\ Dequeue("orchestrator", n)
    /\ \/ /\ cache[n].obj = Absent
          /\ UNCHANGED <<copy, pc>>
       \/ /\ cache[n].obj # Absent
          /\ copy' = [copy EXCEPT !["orchestrator"] = Get(n)]
          /\ Goto("orchestrator", "query")
    /\ UNCHANGED <<store, cache, orchestratorVars>>

\* Reconcile's Get.  A deleted policy, or one in phase Error, is skipped and
\* not queued again.
OrcRead(n) ==
    /\ Dequeue("orchestrator", n)
    /\ LET skip == IF cache[n].obj = Absent THEN TRUE ELSE cache[n].obj.phase = "Error"
       IN  \/ /\ skip
              /\ UNCHANGED <<copy, pc>>
           \/ /\ ~skip
              /\ copy' = [copy EXCEPT !["orchestrator"] = Get(n)]
              /\ Goto("orchestrator", "query")
    /\ UNCHANGED <<store, cache, orchestratorVars>>

orcBody == copy["orchestrator"].obj.body

OrcQuery ==
    /\ pc["orchestrator"] = "query"
    /\ currentCost' = cost[orcBody.targetNamespace]
    /\ Goto("orchestrator", "breach")
    /\ UNCHANGED <<store, cache, queue, copy, cost, effects>>

\* Faulty variant: the error of the query is swallowed.
OrcQueryGivesUp ==
    /\ pc["orchestrator"] = "query"
    /\ NotStored("orchestrator", NoCopy)
    /\ Return("orchestrator", FALSE)
    /\ UNCHANGED orchestratorVars

\* A failed query ends Reconcile with the error.
OrcQueryFails ==
    /\ pc["orchestrator"] = "query"
    /\ NotStored("orchestrator", NoCopy)
    /\ Return("orchestrator", TRUE)
    /\ UNCHANGED orchestratorVars

\* The error of a breach action does not stop the evaluation.
OrcBreach(sent) ==
    /\ pc["orchestrator"] = "breach"
    /\ effects' = IF Breached(orcBody, currentCost) THEN executeBreachAction(orcBody, sent) ELSE {}
    /\ Goto("orchestrator", "optimize")
    /\ UNCHANGED <<store, cache, queue, copy, cost, currentCost>>

\* Only automatic mode acts; either mode ends with the audit of the evaluation.
OrcOptimize(outcome, sent) ==
    /\ pc["orchestrator"] = "optimize"
    /\ effects' = effects
         \cup (IF orcBody.mode = "automatic" THEN applyAutomaticOptimization(outcome, sent) ELSE {})
         \cup IfWired("AuditWriter", {"audit_evaluate"})
    /\ Goto("orchestrator", "write")
    /\ UNCHANGED <<store, cache, queue, copy, cost, currentCost>>

\* Reconcile's status update, then its periodic requeue or, on error, retry.
OrcWrite(moved) ==
    /\ pc["orchestrator"] = "write"
    /\ UpdateStatus("orchestrator", Evaluated(copy["orchestrator"].obj, currentCost), moved)
    /\ Return("orchestrator", TRUE)
    /\ currentCost' = NoCost
    /\ effects' = {}
    /\ UNCHANGED cost

OrcWriteFails ==
    /\ pc["orchestrator"] = "write"
    /\ NotStored("orchestrator", NoCopy)
    /\ Return("orchestrator", TRUE)
    /\ currentCost' = NoCost
    /\ effects' = {}
    /\ UNCHANGED cost

OrchestratorNext ==
    /\ "orchestrator" \in Controller
    /\ \/ \E n \in Namespace : OrcRead(n)
       \/ OrcQuery
       \/ OrcQueryFails
       \/ \E sent \in BOOLEAN : OrcBreach(sent)
       \/ \E outcome \in {"no savings", "applied", "failed"}, sent \in BOOLEAN :
             OrcOptimize(outcome, sent)
       \/ \E moved \in BOOLEAN : OrcWrite(moved)
       \/ OrcWriteFails
=============================================================================
