---------------------------- MODULE PolicyManager ----------------------------
(***************************************************************************)
(* pkg/policy/manager.go: DefaultPolicyManager, whose ApplyPolicy and      *)
(* RollbackPolicy version a policy: each publishes a spec under the next   *)
(* version number and keeps the replaced one in an annotation.             *)
(*                                                                         *)
(* Each call reads the cache in one step and writes in later ones.  A      *)
(* write can fail without effect (conflict, already exists, not found, the *)
(* request lost) and can take effect while its caller gets an error (the   *)
(* response lost).                                                         *)
(***************************************************************************)
EXTENDS PolicyStore

CONSTANTS maxVersionHistory,   \* 10 in the code
          MaxPublish           \* bound: versions a policy may reach

ASSUME MaxVersionHistoryPositive == maxVersionHistory \in Nat \ {0}

VARIABLES arg,       \* the spec a call is about to publish
          published  \* history: commits by this module since the policy was created

managerVars == <<arg, published>>

NoArg == CHOOSE b \in Body : TRUE

ManagerTypeOK ==
    /\ arg \in [Caller -> Body]
    /\ published \in [Namespace -> Nat]

ManagerInit ==
    /\ arg = [c \in Caller |-> NoArg]
    /\ published = [n \in Namespace |-> 0]

----------------------------------------------------------------------------
\* The last k entries of s.
Suffix(s, k) == IF Len(s) > k THEN SubSeq(s, Len(s) - k + 1, Len(s)) ELSE s

\* Faulty variant: the trim keeps the oldest entries.
KeepsOldestHistory(obj) ==
    LET all == Append(obj.hist, [version |-> obj.version, body |-> obj.body])
    IN  IF Len(all) > maxVersionHistory THEN SubSeq(all, 1, maxVersionHistory) ELSE all

\* The current spec joins the history, which keeps its newest entries.
appendVersionHistory(obj) ==
    Suffix(Append(obj.hist, [version |-> obj.version, body |-> obj.body]), maxVersionHistory)

\* A new object: version 1, an empty history, no status.
Created(b) ==
    [version |-> 1, body |-> b, hist |-> << >>,
     phase |-> "", cond |-> "none", eval |-> {}]

\* Faulty variant: the spec is replaced before it is saved.
SavedTooLate(obj, b) ==
    [obj EXCEPT !.version = obj.version + 1, !.body = b,
                !.hist = appendVersionHistory([obj EXCEPT !.body = b])]

\* The update both calls send: the next version, after saving this one.
Republished(obj, b) ==
    [obj EXCEPT !.version = obj.version + 1, !.body = b, !.hist = appendVersionHistory(obj)]

\* The first history entry of a version, if any.
EntriesOf(obj, v) ==
    {i \in DOMAIN obj.hist : /\ obj.hist[i].version = v
                             /\ \A j \in 1..(i - 1) : obj.hist[j].version # v}

\* The call returns, with or without an error.
Finish(c) ==
    /\ Goto(c, "idle")
    /\ arg' = [arg EXCEPT ![c] = NoArg]

----------------------------------------------------------------------------
\* ApplyPolicy up to its read; an invalid spec is refused before it.
ApplyStart(c, n, b) ==
    /\ pc[c] = "idle"
    /\ published[n] < MaxPublish
    /\ IsValid(b)
    /\ copy' = [copy EXCEPT ![c] = Get(n)]
    /\ arg' = [arg EXCEPT ![c] = b]
    /\ Goto(c, "apply")
    /\ UNCHANGED <<store, cache, queue, published>>

\* Faulty variant: the resourceVersion is not copied, so any update is taken.
ApplyUnconditional(c) ==
    LET n == copy[c].ns
    IN  /\ pc[c] = "apply"
        /\ copy[c].obj # Absent /\ store[n] # Absent
        /\ Stored(c, n, WithStatus(Republished(copy[c].obj, arg[c]), store[n]), NoCopy)
        /\ published' = [published EXCEPT ![n] = @ + 1]
        /\ Finish(c)
        /\ UNCHANGED queue

\* ApplyPolicy's Create or Update is carried out; its caller may never know.
ApplyCommit(c) ==
    LET n == copy[c].ns
    IN  /\ pc[c] = "apply"
        /\ Accepts(c)
        /\ \/ /\ copy[c].obj = Absent
              /\ Stored(c, n, Created(arg[c]), NoCopy)
              /\ published' = [published EXCEPT ![n] = 1]
           \/ /\ copy[c].obj # Absent
              /\ Stored(c, n, WithStatus(Republished(copy[c].obj, arg[c]), store[n]), NoCopy)
              /\ published' = [published EXCEPT ![n] = @ + 1]
        /\ Finish(c)
        /\ UNCHANGED queue

\* findPolicyByName takes the first policy of that name the cached list, which
\* is in no particular order, holds: any of these.
findPolicyByName == {n \in Namespace : cache[n].obj # Absent}

\* RollbackPolicy up to its update.  Without a policy of that name, or without
\* the version in its history, the call returns.
RollbackStart(c, n, v) ==
    /\ pc[c] = "idle"
    /\ published[n] < MaxPublish
    /\ n \in findPolicyByName
    /\ \E i \in EntriesOf(cache[n].obj, v) :
          arg' = [arg EXCEPT ![c] = cache[n].obj.hist[i].body]
    /\ copy' = [copy EXCEPT ![c] = Get(n)]
    /\ Goto(c, "rollback")
    /\ UNCHANGED <<store, cache, queue, published>>

\* The phase in memory after client.Update(policy) in RollbackPolicy: it was
\* set to RolledBack, then the response was decoded over it.  The response
\* has the stored status, whose phase is left out when empty.
DecodedPhase(stored) == IF stored.phase = "" THEN "RolledBack" ELSE stored.phase

\* RollbackPolicy's first write is carried out; answered: the call goes on to
\* the second, with the object the response decoded to.
RollbackCommit(c, answered) ==
    LET n == copy[c].ns
        new == WithStatus(Republished(copy[c].obj, arg[c]), store[n])
        decoded == [new EXCEPT !.phase = DecodedPhase(new)]
    IN  /\ pc[c] = "rollback"
        /\ Accepts(c)
        /\ published' = [published EXCEPT ![n] = @ + 1]
        /\ \/ /\ answered
              /\ Stored(c, n, new, [ns |-> n, obj |-> decoded, cur |-> TRUE])
              /\ Goto(c, "status")
              /\ UNCHANGED arg
           \/ /\ ~answered
              /\ Stored(c, n, new, NoCopy)
              /\ Finish(c)
        /\ UNCHANGED queue

\* RollbackPolicy's second write is carried out.  It changes no timestamp.
RollbackStatus(c) ==
    /\ pc[c] = "status"
    /\ UpdateStatus(c, copy[c].obj, FALSE)
    /\ Finish(c)
    /\ UNCHANGED <<queue, published>>

\* A write of either call fails and has no effect.
CallFails(c) ==
    /\ pc[c] \in {"apply", "rollback", "status"}
    /\ NotStored(c, NoCopy)
    /\ Finish(c)
    /\ UNCHANGED <<queue, published>>

ManagerNext ==
    \E c \in Caller :
       \/ \E n \in Namespace :
             \/ \E b \in Body : ApplyStart(c, n, b)
             \/ \E v \in 0..MaxPublish : RollbackStart(c, n, v)
       \/ ApplyCommit(c)
       \/ \E answered \in BOOLEAN : RollbackCommit(c, answered)
       \/ RollbackStatus(c)
       \/ CallFails(c)
=============================================================================
