----------------------------- MODULE PolicyStore -----------------------------
(***************************************************************************)
(* The FinancialPolicy objects and the three ways the orchestrator process *)
(* reaches them, all of them library or server code that the repository    *)
(* uses through client.Client and ctrl.Manager:                            *)
(*                                                                         *)
(*   - store: the API server, which serialises writes, rejects an update   *)
(*     whose resourceVersion is not the stored one, lets Update() change   *)
(*     only spec and metadata and Status().Update() only the status, and   *)
(*     does not write (nor bump the resourceVersion) when nothing changes; *)
(*   - cache: the informer cache every Get and List is served from, which  *)
(*     runs behind the store;                                              *)
(*   - queue: one work queue per controller, fed by watch events.          *)
(*                                                                         *)
(* A resourceVersion is only ever compared for equality with the stored    *)
(* one and never reused, so a copy of an object carries one bit, cur: its  *)
(* resourceVersion is the stored one.  A commit clears it in every other   *)
(* copy.  The cache skips to the newest object when it catches up.         *)
(*                                                                         *)
(* Policies of all namespaces share one name here, so a policy is known by *)
(* its namespace.                                                          *)
(***************************************************************************)
EXTENDS PolicyValidation, FiniteSets

CONSTANTS Namespace,    \* namespaces that may hold a policy of the one name
          Caller,       \* concurrent users of the PolicyManager
          Controller,   \* the reconcilers that run
          Body,         \* the specs users write, as the CRD schema admits them
          Cost,         \* month-to-date amounts
          Absent        \* no object

ASSUME NonEmpty == Namespace # {} /\ Body # {} /\ Cost # {}

ASSUME ClientsDisjoint ==
    /\ Controller \subseteq {"policy", "orchestrator"}
    /\ Caller \cap {"policy", "orchestrator"} = {}

VARIABLES store,   \* the object of each namespace
          cache,   \* the informer's copy of it
          queue,   \* the namespaces each controller has still to reconcile
          pc,      \* where each client is in its handler
          copy     \* the object each client works on, decoded from the cache

storeVars == <<store, cache, queue, pc, copy>>

Client == Caller \cup Controller

Phase == {"", "Active", "Error", "RolledBack"}

\* status.conditions holds one condition, Valid: its status or its absence.
Condition == {"none", "True", "False"}

\* status.currentCost and budgetUsagePercent: the cost and the limit it was
\* divided by (their quotient is the percentage), once there is one.
Evaluation == {{}} \cup {{e} : e \in [limit : {b.monthlyLimit : b \in Body}, cost : Cost]}

\* spec.version, the rest of the spec, the version-history annotation, status.
Entry == [version : Nat, body : Body]

Object == [version : Nat, body : Body, hist : Seq(Entry),
           phase : Phase, cond : Condition, eval : Evaluation]

ASSUME AbsentIsNoObject == Absent \notin Object

Cached == [obj : Object \cup {Absent}, cur : BOOLEAN]
Copy == [ns : Namespace, obj : Object \cup {Absent}, cur : BOOLEAN]

\* What a client between two handlers holds.
NoCopy == [ns |-> CHOOSE n \in Namespace : TRUE, obj |-> Absent, cur |-> FALSE]

PC == {"idle", "apply", "rollback", "status", "query", "breach", "optimize", "write"}

StoreTypeOK ==
    /\ store \in [Namespace -> Object \cup {Absent}]
    /\ cache \in [Namespace -> Cached]
    /\ queue \in [Controller -> SUBSET Namespace]
    /\ pc \in [Client -> PC]
    /\ copy \in [Client -> Copy]

\* A process starts with an empty cluster or with policies already there:
\* its initial list fills the cache and every queue.
Listed == [n \in Namespace |-> [obj |-> store[n], cur |-> TRUE]]
Enqueued == [c \in Controller |-> {n \in Namespace : store[n] # Absent}]

StoreInit ==
    /\ store = [n \in Namespace |-> Absent]
    /\ cache = Listed
    /\ queue = Enqueued
    /\ pc = [c \in Client |-> "idle"]
    /\ copy = [c \in Client |-> NoCopy]

----------------------------------------------------------------------------
\* client.Get and client.List return a deep copy of what is cached.
Get(n) == [ns |-> n, obj |-> cache[n].obj, cur |-> cache[n].cur]

Outdated(n) ==
    [c \in Client |-> IF copy[c].ns = n THEN [copy[c] EXCEPT !.cur = FALSE] ELSE copy[c]]

\* Client c's request stores obj under n; c goes on with the copy after.
Stored(c, n, obj, after) ==
    /\ store' = [store EXCEPT ![n] = obj]
    /\ cache' = [cache EXCEPT ![n].cur = FALSE]
    /\ copy' = [Outdated(n) EXCEPT ![c] = after]

\* A user's own client stores obj under n.
StoredByUser(n, obj) ==
    /\ store' = [store EXCEPT ![n] = obj]
    /\ cache' = [cache EXCEPT ![n].cur = FALSE]
    /\ copy' = Outdated(n)

NotStored(c, after) ==
    /\ copy' = [copy EXCEPT ![c] = after]
    /\ UNCHANGED <<store, cache>>

\* The API server takes a Create when there is no object and an Update when
\* the resourceVersion sent is the stored one.
Accepts(c) ==
    IF copy[c].obj = Absent THEN store[copy[c].ns] = Absent ELSE copy[c].cur

\* Status().Update() leaves everything but the status as it is stored.
WithStatus(old, obj) ==
    [old EXCEPT !.phase = obj.phase, !.cond = obj.cond, !.eval = obj.eval]

\* An accepted Status().Update() with the status of obj.  moved: a timestamp
\* in the status differs from the stored one, which has one-second precision.
UpdateStatus(c, obj, moved) ==
    LET n == copy[c].ns
        new == WithStatus(store[n], obj)
    IN  /\ Accepts(c)
        /\ \/ /\ new # store[n] \/ moved
              /\ Stored(c, n, new, NoCopy)
           \/ /\ new = store[n] /\ ~moved
              /\ NotStored(c, NoCopy)

Goto(c, l) == pc' = [pc EXCEPT ![c] = l]

----------------------------------------------------------------------------
\* The watch delivers the newest object, or its deletion, to the cache and
\* from there to every controller: no predicate filters the events.
CacheSync(n) ==
    /\ ~cache[n].cur
    /\ cache' = [cache EXCEPT ![n] = [obj |-> store[n], cur |-> TRUE]]
    /\ queue' = [c \in Controller |-> queue[c] \cup {n}]
    /\ UNCHANGED <<store, pc, copy>>

\* A controller's only worker takes a namespace off its queue.
Dequeue(c, n) ==
    /\ pc[c] = "idle"
    /\ n \in queue[c]
    /\ queue' = [queue EXCEPT ![c] = @ \ {n}]

\* Reconcile returns: with an error, or with RequeueAfter, the namespace is
\* queued again (after a delay that has no bound here).
Return(c, requeue) ==
    /\ Goto(c, "idle")
    /\ queue' = [queue EXCEPT ![c] = IF requeue THEN @ \cup {copy[c].ns} ELSE @]
=============================================================================
