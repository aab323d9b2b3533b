-------------------------- MODULE SpotInterruption --------------------------
(***************************************************************************)
(* pkg/instance: HandleSpotInterruption drains a node that AWS will take   *)
(* back.  It lists the node's pods once and evicts them one after the      *)
(* other, by name.  Meanwhile evictions are refused, pods end, controllers *)
(* replace them under the same name or a new one, new pods are scheduled   *)
(* on the node (nothing cordons it), and what is left goes with the node.  *)
(* Several notices, also for the same node, are handled at once.           *)
(*                                                                         *)
(* Pods, scheduler and eviction API are external.                          *)
(***************************************************************************)
EXTENDS Naturals, FiniteSets

CONSTANTS Node,
          Plain,     \* names of pods of a Deployment: never used again
          Stateful,  \* names of pods of a StatefulSet: used again after the pod has gone
          Skipped,   \* names of mirror pods and of pods a DaemonSet owns
          Handler,   \* calls of HandleSpotInterruption
          MaxUID     \* bound: pods that ever have one name

ASSUME NamesAreDisjoint ==
    /\ Plain \cap Stateful = {}
    /\ (Plain \cup Stateful) \cap Skipped = {}
ASSUME MaxUIDIsNat == MaxUID \in Nat
ASSUME NodeNotEmpty == Node # {}

Name == Plain \cup Stateful \cup Skipped

VARIABLES pod,      \* by name: the newest pod of the name, its node and its phase
          pc,       \* where a call is
          target,   \* its nodeID, once it has begun
          listed,   \* the pods it listed
          todo,     \* those the loop has not come to
          refused,  \* those whose eviction failed
          evicted   \* history: evictions carried out, by whom and of which pod

callVars == <<pc, target, listed, todo, refused>>
spotVars == <<pod, callVars, evicted>>

\* A pod: several pods may have one name, one after the other.
ID == [name : Name, uid : 0..MaxUID]

SpotTypeOK ==
    /\ pod \in [Name -> [node : Node, uid : 0..MaxUID, phase : {"gone", "running"}]]
    /\ pc \in [Handler -> {"idle", "list", "evict", "done"}]
    /\ target \in [Handler -> Node]
    /\ listed \in [Handler -> SUBSET ID]
    /\ todo \in [Handler -> SUBSET ID]
    /\ refused \in [Handler -> SUBSET ID]
    /\ evicted \subseteq [by : Handler, id : ID]

SpotInit ==
    /\ pod \in [Name -> [node : Node, uid : {0}, phase : {"gone", "running"}]]
    /\ \A p \in Skipped : pod[p].phase = "running"
    /\ pc = [h \in Handler |-> "idle"]
    /\ target = [h \in Handler |-> CHOOSE n \in Node : TRUE]
    /\ listed = [h \in Handler |-> {}]
    /\ todo = [h \in Handler |-> {}]
    /\ refused = [h \in Handler |-> {}]
    /\ evicted = {}

----------------------------------------------------------------------------
(* HandleSpotInterruption *)

Notice(h, n) ==
    /\ pc[h] = "idle"
    /\ target' = [target EXCEPT ![h] = n]
    /\ pc' = [pc EXCEPT ![h] = "list"]
    /\ UNCHANGED <<pod, listed, todo, refused, evicted>>

\* The list with the field selector spec.nodeName.
PodsOn(n) == {[name |-> p, uid |-> pod[p].uid] : p \in {q \in Name : pod[q].node = n /\ pod[q].phase = "running"}}

ListPods(h) ==
    /\ pc[h] = "list"
    /\ listed' = [listed EXCEPT ![h] = PodsOn(target[h])]
    /\ todo' = [todo EXCEPT ![h] = PodsOn(target[h])]
    /\ pc' = [pc EXCEPT ![h] = "evict"]
    /\ UNCHANGED <<pod, target, refused, evicted>>

\* Faulty variant: the error ends the call.
ListFailsFatally(h) ==
    /\ pc[h] = "list"
    /\ pc' = [pc EXCEPT ![h] = "error"]
    /\ UNCHANGED <<pod, target, listed, todo, refused, evicted>>

\* "best-effort": the error is logged and the call returns nil.
ListFails(h) ==
    /\ pc[h] = "list"
    /\ pc' = [pc EXCEPT ![h] = "done"]
    /\ UNCHANGED <<pod, target, listed, todo, refused, evicted>>

\* Mirror pods and DaemonSet pods are passed over.
Skip(h, x) ==
    /\ pc[h] = "evict"
    /\ x \in todo[h]
    /\ x.name \in Skipped
    /\ todo' = [todo EXCEPT ![h] = @ \ {x}]
    /\ UNCHANGED <<pod, pc, target, listed, refused, evicted>>

\* Faulty variant: an eviction that is accepted is not the end of the pod's turn.
EvictsAgain(h, x) ==
    LET p == x.name
    IN  /\ pc[h] = "evict"
        /\ x \in todo[h]
        /\ p \notin Skipped
        /\ pod[p].phase = "running"
        /\ \/ UNCHANGED todo
           \/ todo' = [todo EXCEPT ![h] = @ \ {x}]
        /\ pod' = [pod EXCEPT ![p].phase = "gone"]
        /\ evicted' = evicted \cup {[by |-> h, id |-> [name |-> p, uid |-> pod[p].uid]]}
        /\ UNCHANGED <<pc, target, listed, refused>>

\* An eviction that is accepted: the pod that has the name now ends, its grace
\* period left out.  The eviction carries no UID.
Evict(h, x) ==
    LET p == x.name
    IN  /\ pc[h] = "evict"
        /\ x \in todo[h]
        /\ p \notin Skipped
        /\ pod[p].phase = "running"
        /\ todo' = [todo EXCEPT ![h] = @ \ {x}]
        /\ pod' = [pod EXCEPT ![p].phase = "gone"]
        /\ evicted' = evicted \cup {[by |-> h, id |-> [name |-> p, uid |-> pod[p].uid]]}
        /\ UNCHANGED <<pc, target, listed, refused>>

\* Faulty variant: an error ends the loop.
EvictFailsForAll(h, x) ==
    /\ pc[h] = "evict"
    /\ x \in todo[h]
    /\ x.name \notin Skipped
    /\ todo' = [todo EXCEPT ![h] = {}]
    /\ refused' = [refused EXCEPT ![h] = @ \cup {x}]
    /\ UNCHANGED <<pod, pc, target, listed, evicted>>

\* Faulty variant: the eviction is tried again until it succeeds.
EvictRetries(h, x) ==
    /\ pc[h] = "evict"
    /\ x \in todo[h]
    /\ x.name \notin Skipped
    /\ refused' = [refused EXCEPT ![h] = @ \cup {x}]
    /\ UNCHANGED <<pod, pc, target, listed, todo, evicted>>

\* The eviction fails: a disruption budget refuses it, no pod has the name any
\* more, or the request is lost.  The loop goes on with the next pod.
EvictFails(h, x) ==
    /\ pc[h] = "evict"
    /\ x \in todo[h]
    /\ x.name \notin Skipped
    /\ todo' = [todo EXCEPT ![h] = @ \ {x}]
    /\ refused' = [refused EXCEPT ![h] = @ \cup {x}]
    /\ UNCHANGED <<pod, pc, target, listed, evicted>>

Return(h) ==
    /\ pc[h] = "evict"
    /\ todo[h] = {}
    /\ pc' = [pc EXCEPT ![h] = "done"]
    /\ UNCHANGED <<pod, target, listed, todo, refused, evicted>>

Handles(h) ==
    \/ ListPods(h)
    \/ ListFails(h)
    \/ \E x \in todo[h] : Skip(h, x) \/ Evict(h, x) \/ EvictFails(h, x)
    \/ Return(h)

----------------------------------------------------------------------------
(* The cluster *)

\* A pod ends because it was deleted, failed or lost its node: AWS takes the
\* node whether or not it is empty.
PodGoes(p) ==
    /\ pod[p].phase = "running"
    /\ pod' = [pod EXCEPT ![p].phase = "gone"]
    /\ UNCHANGED <<callVars, evicted>>

\* A pod is created and scheduled: by a StatefulSet under a name used before,
\* by a Deployment under a new one.
PodComes(p, n) ==
    /\ pod[p].phase = "gone"
    /\ \/ p \in Stateful
       \/ p \in Plain /\ pod[p].uid = 0 /\ \A h \in Handler : \A x \in listed[h] : x.name # p
    /\ pod[p].uid < MaxUID
    /\ pod' = [pod EXCEPT ![p] = [node |-> n, uid |-> @.uid + 1, phase |-> "running"]]
    /\ UNCHANGED <<callVars, evicted>>

SpotNext ==
    \/ \E h \in Handler : Handles(h) \/ \E n \in Node : Notice(h, n)
    \/ \E p \in Name : PodGoes(p) \/ \E n \in Node : PodComes(p, n)

SpotSpec == SpotInit /\ [][SpotNext]_spotVars

\* Requests are answered.
SpotFairness == \A h \in Handler : WF_spotVars(Handles(h))

----------------------------------------------------------------------------
\* When a call that could list the pods is over, a pod it was to evict and
\* that is still running where it was is one whose eviction failed: errors with
\* other pods, other calls and pods that come and go meanwhile leave none
\* behind.  ("Best-effort: continue with remaining pods.")
NodeIsDrained ==
    \A h \in Handler : pc[h] = "done" =>
        \A x \in listed[h] \ refused[h] :
            x.name \in Skipped \/ pod[x.name].uid # x.uid \/ pod[x.name].phase = "gone"

\* What a call disrupts stays within what it listed: of the pods that had a
\* listed name, one after the other, at most one, the listed one or a later one
\* (an eviction names no UID); and none of a DaemonSet and no mirror pod, of
\* whichever incarnation.
DisruptionIsBounded ==
    /\ \A e, f \in evicted : e.by = f.by /\ e.id.name = f.id.name => e = f
    /\ \A e \in evicted :
          /\ e.id.name \notin Skipped
          /\ \E x \in listed[e.by] : x.name = e.id.name /\ x.uid <= e.id.uid

\* HandleSpotInterruption returns, however many evictions are refused and
\* however many pods are scheduled on the node meanwhile.
HandlerReturns == \A h \in Handler : (pc[h] = "list") ~> (pc[h] = "done")
=============================================================================
