--------------------------- MODULE VersionedPolicy ---------------------------
(***************************************************************************)
(* What the PolicyManager promises its users: a policy is a numbered line  *)
(* of specs, of which the current one and the Kept before it can be seen.  *)
(* Publishing and rolling back add one spec and one number, and nothing    *)
(* else moves the line; a user's own edit replaces the current spec only.  *)
(* There are no caches, copies, conflicts or statuses here.                *)
(***************************************************************************)
EXTENDS Integers, Sequences

CONSTANTS Namespace, Body, Kept, IsValid(_)

VARIABLES window,   \* the specs to be seen, the current one last; << >> without a policy
          version   \* the number of the current one

vars == <<window, version>>

Newest(s, k) == IF Len(s) > k THEN SubSeq(s, Len(s) - k + 1, Len(s)) ELSE s

Init ==
    /\ window = [n \in Namespace |-> << >>]
    /\ version = [n \in Namespace |-> 0]

Exists(n) == window[n] # << >>

Extend(n, b) ==
    /\ window' = [window EXCEPT ![n] = Newest(Append(@, b), Kept + 1)]
    /\ version' = [version EXCEPT ![n] = @ + 1]

\* A valid spec becomes the next version, or the first.
Publish(n, b) == IsValid(b) /\ Extend(n, b)

\* An earlier spec that can still be seen becomes the next version.
Restore(n, i) ==
    /\ i \in 1..(Len(window[n]) - 1)
    /\ Extend(n, window[n][i])

UserCreates(n, b) ==
    /\ ~Exists(n)
    /\ window' = [window EXCEPT ![n] = <<b>>]
    /\ version' = [version EXCEPT ![n] = 0]

UserEdits(n, b) ==
    /\ Exists(n)
    /\ window' = [window EXCEPT ![n][Len(window[n])] = b]
    /\ UNCHANGED version

UserDeletes(n) ==
    /\ Exists(n)
    /\ window' = [window EXCEPT ![n] = << >>]
    /\ version' = [version EXCEPT ![n] = 0]

Next ==
    \E n \in Namespace :
       \/ \E b \in Body : Publish(n, b) \/ UserCreates(n, b) \/ UserEdits(n, b)
       \/ \E i \in 1..Kept : Restore(n, i)
       \/ UserDeletes(n)

Spec == Init /\ [][Next]_vars
=============================================================================
