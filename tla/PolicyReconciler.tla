--------------------------- MODULE PolicyReconciler ---------------------------
(***************************************************************************)
(* pkg/policy/controller.go: PolicyReconciler validates a policy and       *)
(* writes the verdict to its status.                                       *)
(***************************************************************************)
EXTENDS PolicyStore

\* Faulty variant: a policy that passes waits in phase Validating.
JudgedValidating(obj) ==
    IF IsValid(obj.body) THEN [obj EXCEPT !.phase = "Validating", !.cond = "True"]
                         ELSE [obj EXCEPT !.phase = "Error", !.cond = "False"]

\* Faulty variant: setCondition leaves a condition that is already there.
JudgedConditionKept(obj) ==
    LET phase == IF IsValid(obj.body) THEN "Active" ELSE "Error"
        first == IF IsValid(obj.body) THEN "True" ELSE "False"
    IN  [obj EXCEPT !.phase = phase, !.cond = IF obj.cond = "none" THEN first ELSE obj.cond]

\* The status the reconciler computes from the copy it read.
Judged(obj) ==
    IF IsValid(obj.body) THEN [obj EXCEPT !.phase = "Active", !.cond = "True"]
                         ELSE [obj EXCEPT !.phase = "Error", !.cond = "False"]

\* Reconcile's Get.  Nothing is left to do for a deleted policy.
PolicyRead(n) ==
    /\ Dequeue("policy", n)
    /\ \/ /\ cache[n].obj = Absent
          /\ UNCHANGED <<copy, pc>>
       \/ /\ cache[n].obj # Absent
          /\ copy' = [copy EXCEPT !["policy"] = Get(n)]
          /\ Goto("policy", "write")
    /\ UNCHANGED <<store, cache>>

\* Faulty variant: the status is sent without a resourceVersion.
PolicyWriteUnconditional(moved, ok) ==
    LET n == copy["policy"].ns
    IN  /\ pc["policy"] = "write"
        /\ store[n] # Absent
        /\ Stored("policy", n, WithStatus(store[n], Judged(copy["policy"].obj)), NoCopy)
        /\ Return("policy", ~ok)

\* Reconcile's status update.  Its condition's lastTransitionTime is the
\* present second, moved or not since the stored one.
PolicyWrite(moved, ok) ==
    /\ pc["policy"] = "write"
    /\ UpdateStatus("policy", Judged(copy["policy"].obj), moved)
    /\ Return("policy", ~ok)

\* Faulty variant: the error of the update is swallowed.
PolicyWriteGivesUp ==
    /\ pc["policy"] = "write"
    /\ NotStored("policy", NoCopy)
    /\ Return("policy", FALSE)

\* The update is refused or lost: the error makes the controller retry.
PolicyWriteFails ==
    /\ pc["policy"] = "write"
    /\ NotStored("policy", NoCopy)
    /\ Return("policy", TRUE)

PolicyReconcilerNext ==
    /\ "policy" \in Controller
    /\ \/ \E n \in Namespace : PolicyRead(n)
       \/ \E moved, ok \in BOOLEAN : PolicyWrite(moved, ok)
       \/ PolicyWriteFails
=============================================================================
