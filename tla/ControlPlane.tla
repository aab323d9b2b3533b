----------------------------- MODULE ControlPlane -----------------------------
(***************************************************************************)
(* One orchestrator process: PolicyManager calls and the two reconcilers   *)
(* work on the same FinancialPolicy objects, while users edit them through *)
(* the API server, costs move, and the process may crash and start again.  *)
(***************************************************************************)
EXTENDS PolicyManager, PolicyReconciler, Orchestrator

CONSTANTS MaxEdits,    \* bound: edits by users and moves of the cost
          MaxCrashes   \* bound: restarts of the process

VARIABLES edits, crashes

budgetVars == <<edits, crashes>>

vars == <<storeVars, managerVars, orchestratorVars, budgetVars>>

TypeOK ==
    /\ StoreTypeOK
    /\ ManagerTypeOK
    /\ OrchestratorTypeOK
    /\ edits \in Nat
    /\ crashes \in Nat

Init ==
    /\ StoreInit
    /\ ManagerInit
    /\ OrchestratorInit
    /\ edits = 0
    /\ crashes = 0

----------------------------------------------------------------------------
(* The environment.                                                        *)

UserStep ==
    /\ edits < MaxEdits
    /\ edits' = edits + 1
    /\ UNCHANGED <<queue, pc, arg, orchestratorVars, crashes>>

\* kubectl create or apply of a manifest, which has no version.
UserCreates(n, b) ==
    /\ UserStep
    /\ store[n] = Absent
    /\ StoredByUser(n, [Created(b) EXCEPT !.version = 0])
    /\ published' = [published EXCEPT ![n] = 0]

\* kubectl edit or apply of the spec: version, annotation and status stay.
UserEdits(n, b) ==
    /\ UserStep
    /\ store[n] # Absent
    /\ store[n].body # b
    /\ StoredByUser(n, [store[n] EXCEPT !.body = b])
    /\ UNCHANGED published

UserDeletes(n) ==
    /\ UserStep
    /\ store[n] # Absent
    /\ StoredByUser(n, Absent)
    /\ published' = [published EXCEPT ![n] = 0]

\* The collector stores new records, or a month begins.
CostMoves(t, c) ==
    /\ edits < MaxEdits
    /\ edits' = edits + 1
    /\ c # cost[t]
    /\ cost' = [cost EXCEPT ![t] = c]
    /\ UNCHANGED <<storeVars, managerVars, currentCost, effects, crashes>>

\* The process dies with all it holds in memory and its successor lists the
\* policies anew.
Restart ==
    /\ crashes < MaxCrashes
    /\ crashes' = crashes + 1
    /\ cache' = Listed
    /\ queue' = Enqueued
    /\ pc' = [c \in Client |-> "idle"]
    /\ copy' = [c \in Client |-> NoCopy]
    /\ arg' = [c \in Caller |-> NoArg]
    /\ currentCost' = NoCost
    /\ effects' = {}
    /\ UNCHANGED <<store, published, cost, edits>>

Environment ==
    \/ \E n \in Namespace :
          \/ \E b \in Body : UserCreates(n, b) \/ UserEdits(n, b)
          \/ UserDeletes(n)
    \/ \E t \in TargetNamespace, c \in Cost : CostMoves(t, c)
    \/ Restart

----------------------------------------------------------------------------
Sync(n) == CacheSync(n) /\ UNCHANGED <<managerVars, orchestratorVars, budgetVars>>
Calls == ManagerNext /\ UNCHANGED <<orchestratorVars, budgetVars>>
Validation == PolicyReconcilerNext /\ UNCHANGED <<managerVars, orchestratorVars, budgetVars>>
Evaluating == OrchestratorNext /\ UNCHANGED <<managerVars, budgetVars>>

Next ==
    \/ \E n \in Namespace : Sync(n)
    \/ Calls
    \/ Validation
    \/ Evaluating
    \/ Environment

Spec == Init /\ [][Next]_vars

----------------------------------------------------------------------------
(* Fairness.  The watch and the workers make progress.  A namespace in a   *)
(* queue is not passed over for ever, and of the reads of a reconcile that *)
(* is retried for ever, with growing delays, some find the cache up to     *)
(* date.  A request retried for ever is at some time answered, and at some *)
(* time within the second its predecessor stamped, so that a status write  *)
(* that changes nothing else is no write and no event.                     *)

Only(A) == A /\ UNCHANGED <<managerVars, budgetVars>>
Quiet(A) == Only(A) /\ UNCHANGED orchestratorVars

Fairness ==
    /\ \A n \in Namespace :
          /\ WF_vars(Sync(n))
          /\ SF_vars(Quiet(PolicyRead(n)))
          /\ SF_vars(Only(OrcRead(n)))
          /\ []<><<PolicyRead(n)>>_vars => []<><<PolicyRead(n) /\ cache[n].cur>>_vars
          /\ []<><<OrcRead(n)>>_vars => []<><<OrcRead(n) /\ cache[n].cur>>_vars
    /\ WF_vars(Quiet(\E moved, ok \in BOOLEAN : PolicyWrite(moved, ok) \/ PolicyWriteFails))
    /\ SF_vars(Quiet(PolicyWrite(FALSE, TRUE)))
    /\ WF_vars(Only(OrcQuery \/ OrcQueryFails))
    /\ SF_vars(Only(OrcQuery))
    /\ WF_vars(Only(\E sent \in BOOLEAN : OrcBreach(sent)))
    /\ WF_vars(Only(\E outcome \in {"no savings", "applied", "failed"}, sent \in BOOLEAN :
                       OrcOptimize(outcome, sent)))
    /\ WF_vars(Only((\E moved \in BOOLEAN : OrcWrite(moved)) \/ OrcWriteFails))
    /\ SF_vars(Only(OrcWrite(FALSE)))

FairSpec == Spec /\ Fairness
----------------------------------------------------------------------------
(* What is promised.                                                       *)

Present(n) == store[n] # Absent

\* The version-history annotation is the unbroken line of the versions before
\* the current one, oldest first and at most maxVersionHistory long, whatever
\* conflicting Apply and Rollback calls, lost answers, edits by users and
\* restarts came between (appendVersionHistory, ApplyPolicy, RollbackPolicy).
HistoryContiguous ==
    \A n \in Namespace : Present(n) =>
       LET obj == store[n]
       IN  /\ Len(obj.hist) <= maxVersionHistory
           /\ \A i \in DOMAIN obj.hist :
                 obj.hist[i].version = obj.version - Len(obj.hist) + i - 1

\* No update is lost: the version of a policy is the number of ApplyPolicy and
\* RollbackPolicy writes the API server carried out since it was created.  Two
\* calls that read the same cached version can not both publish the next one.
VersionCountsPublishes ==
    \A n \in Namespace : Present(n) => store[n].version = published[n]

\* The phase and the Valid condition agree, although three writers (both
\* reconcilers and RollbackPolicy) send the whole status.
PhaseAgreesWithCondition ==
    \A n \in Namespace : Present(n) =>
       /\ store[n].phase = "Error" <=> store[n].cond = "False"
       /\ store[n].phase = "Active" => store[n].cond = "True"

\* When a policy is declared Active or Error, that is the verdict on the spec
\* stored at that moment, never on an older one the reconciler had cached.
VerdictIsOfStoredSpec ==
    [][\A n \in Namespace :
          /\ Present(n) /\ Present(n)'
          /\ store'[n].phase # store[n].phase
          /\ store'[n].phase \in {"Active", "Error"}
          => (store'[n].phase = "Active" <=> IsValid(store'[n].body))]_vars

\* The two reconcilers write one status without losing each other's part: an
\* evaluation leaves the verdict as it is and is of the stored limit, and a new
\* verdict leaves the evaluation as it is.
NoStatusLost ==
    [][\A n \in Namespace : Present(n) /\ Present(n)' =>
          /\ store'[n].eval # store[n].eval =>
                /\ store'[n].phase = store[n].phase
                /\ store'[n].cond = store[n].cond
                /\ \A e \in store'[n].eval : e.limit = store[n].body.monthlyLimit
          /\ store'[n].phase # store[n].phase => store'[n].eval = store[n].eval]_vars

\* Usage in percent has reached a threshold of the spec.
ReachesThreshold(b, e) ==
    /\ e.limit > 0
    /\ \E i \in DOMAIN b.alertThresholds : e.cost * 100 >= b.alertThresholds[i] * e.limit

\* A policy's status shows usage at or over one of the thresholds stored with it
\* only after the breach action of that evaluation was attempted (Reconcile,
\* executeBreachAction), however often the update had to be retried.
ReportedBreachWasActedOn ==
    [][\A n \in Namespace : Present(n) /\ Present(n)' /\ store'[n].eval # store[n].eval =>
          \A e \in store'[n].eval : ReachesThreshold(store'[n].body, e) => "breach" \in effects]_vars

\* A policy in phase Error gets no evaluation, though the phase that decides it
\* was read from the cache, several steps before the status update, and the
\* verdict may have come in between (Reconcile: "skip evaluation").
ErrorIsNotEvaluated ==
    [][\A n \in Namespace : Present(n) /\ Present(n)' /\ store'[n].eval # store[n].eval =>
          store[n].phase # "Error"]_vars

\* The versions of VersionedPolicy are what the history and the spec hold.
Window(obj) ==
    [i \in 1..(Len(obj.hist) + 1) |-> IF i <= Len(obj.hist) THEN obj.hist[i].body ELSE obj.body]

Versioned == INSTANCE VersionedPolicy WITH
    Kept <- maxVersionHistory,
    window <- [n \in Namespace |-> IF Present(n) THEN Window(store[n]) ELSE << >>],
    version <- [n \in Namespace |-> IF Present(n) THEN store[n].version ELSE 0]

\* Seen through its history, a policy changes as VersionedPolicy says: a publish
\* adds a valid spec, a rollback one that could be seen when it took effect, and
\* each drops at most the oldest.
ImplementsVersionedPolicy == Versioned!Spec

\* After the last edit, every policy is declared what its spec deserves, for
\* good: a conflict, a lost request or a crash only delays the verdict.
EventuallyJudged ==
    \A n \in Namespace :
       <>[](Present(n) => store[n].phase = (IF IsValid(store[n].body) THEN "Active" ELSE "Error"))

\* After the last edit and the last move of the cost, the status of every valid
\* policy shows the true usage, for good.  Not so if a policy that was in phase
\* Error, and is not queued again by the orchestrator, were forgotten.
EventuallyEvaluated ==
    \A n \in Namespace :
       <>[](Present(n) /\ IsValid(store[n].body) =>
              store[n].eval = {[limit |-> store[n].body.monthlyLimit,
                                cost |-> cost[store[n].body.targetNamespace]]})

----------------------------------------------------------------------------
(* What the repository's comments say and the code does not do.            *)

\* RollbackPolicy "sets the status phase to RolledBack": so it is when its status
\* update has been carried out.
RollbackSetsPhase ==
    [][\A c \in Caller : RollbackStatus(c) => store'[copy[c].ns].phase = "RolledBack"]_vars
=============================================================================
