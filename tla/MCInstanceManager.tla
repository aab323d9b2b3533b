------------------------- MODULE MCInstanceManager -------------------------
(***************************************************************************)
(* Instances of InstanceMix and SpotInterruption for TLC.  The manager has *)
(* no state of its own, so a recommendation and an interruption change     *)
(* nothing for each other: a behaviour is one of the two, and the other's  *)
(* variables are at rest.                                                  *)
(***************************************************************************)
EXTENDS InstanceMix, SpotInterruption

\* Both ends, and values whose sum is below, at and above one hundred.
MCPercent == {0, 30, 70, 100}

\* Every call is over and every name used up.
SpotAtRest ==
    /\ pod = [p \in Name |-> [node |-> CHOOSE n \in Node : TRUE, uid |-> MaxUID, phase |-> "gone"]]
    /\ pc = [h \in Handler |-> "done"]
    /\ target = [h \in Handler |-> CHOOSE n \in Node : TRUE]
    /\ listed = [h \in Handler |-> {}]
    /\ todo = [h \in Handler |-> {}]
    /\ refused = [h \in Handler |-> {}]
    /\ evicted = {}

\* A recommendation without policies has been made for an empty cluster.
MixAtRest ==
    /\ nodes = [o \in Option |-> 0]
    /\ policies = <<>>
    /\ next = 1 /\ minOnDemandPct = 0 /\ maxSpotPct = 100
    /\ rec = {Recommended}

ManagerInit ==
    \/ Init /\ SpotAtRest
    \/ SpotInit /\ MixAtRest

ManagerNext ==
    \/ Next /\ UNCHANGED spotVars
    \/ SpotNext /\ UNCHANGED vars

ManagerSpec == ManagerInit /\ [][ManagerNext]_<<vars, spotVars>> /\ SpotFairness
=============================================================================
