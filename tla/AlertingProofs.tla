--------------------------- MODULE AlertingProofs ---------------------------
(***************************************************************************)
(* Proofs about Alerting for any number of channels and of retries.        *)
(*                                                                         *)
(* The properties speak of the call as a whole; the inductive invariant    *)
(* says where its two loops are: which channels it has passed and with     *)
(* what outcome (Passed), that it has sent to the current one once per     *)
(* attempt (Counted), and how long it has waited for it (WaitSum).  The    *)
(* delays add up because 1 + 2 + ... + 2^(n-1) = 2^n - 1.                  *)
(***************************************************************************)
EXTENDS Alerting, FiniteSetTheorems, TLAPS

----------------------------------------------------------------------------
(* Powers of two.  The provers know nothing of them, but 2^n is the number *)
(* of subsets of 1..n, and of those the library's theorems speak.          *)

\* The number of subsets of 1..n.
Subsets(n) == Cardinality(SUBSET (1..n))

\* 2^n counts them.
LEMMA SubsetsArePowers ==
    ASSUME NEW n \in Nat
    PROVE  2 ^ n = Subsets(n) /\ Subsets(n) \in Nat
<1>1. IsFiniteSet(1..n) /\ Cardinality(1..n) = n
  BY FS_Interval
<1>2. IsFiniteSet(SUBSET (1..n)) /\ Cardinality(SUBSET (1..n)) = 2 ^ Cardinality(1..n)
  BY <1>1, FS_SUBSET, Zenon
<1>3. Cardinality(SUBSET (1..n)) \in Nat
  BY <1>2, FS_CardinalityType, Zenon
<1> QED
  BY <1>1, <1>2, <1>3, Zenon DEF Subsets

\* Powers of two grow.
LEMMA SubsetsGrow ==
    ASSUME NEW n \in Nat, NEW k \in 0..n
    PROVE  Subsets(k) <= Subsets(n)
<1>1. IsFiniteSet(SUBSET (1..n))
  <2>1. IsFiniteSet(1..n)
    BY FS_Interval
  <2> QED
    BY <2>1, FS_SUBSET, Zenon
<1>2. SUBSET (1..k) \in SUBSET (SUBSET (1..n))
  OBVIOUS
<1> QED
  BY <1>1, <1>2, FS_Subset DEF Subsets

\* Half of the subsets of 1..(n + 1) have n + 1 in them.
LEMMA SubsetsDouble ==
    ASSUME NEW n \in Nat
    PROVE  Subsets(n + 1) = 2 * Subsets(n)
<1> DEFINE A == SUBSET (1..n)
           x == n + 1
           B == {s \cup {x} : s \in A}
           f == [s \in A |-> s \cup {x}]
<1>1. IsFiniteSet(A)
  <2>1. IsFiniteSet(1..n)
    BY FS_Interval
  <2> QED
    BY <2>1, FS_SUBSET, Zenon
<1>2. \A s \in A : x \notin s
  OBVIOUS
<1>3. f \in Bijection(A, B)
  <2>1. f \in [A -> B]
    OBVIOUS
  <2>2. \A s, t \in A : f[s] = f[t] => s = t
    <3> SUFFICES ASSUME NEW s \in A, NEW t \in A, s \cup {x} = t \cup {x}
                 PROVE  s = t
      OBVIOUS
    <3>1. x \notin s /\ x \notin t
      BY <1>2
    <3> HIDE DEF A, x
    <3> QED
      BY <3>1
  <2>3. \A b \in B : \E s \in A : f[s] = b
    OBVIOUS
  <2> HIDE DEF A, B, f
  <2> QED
    BY <2>1, <2>2, <2>3 DEF Bijection, Injection, Surjection, IsInjective
<1>4. IsFiniteSet(B) /\ Cardinality(B) = Cardinality(A)
  BY <1>1, <1>3, FS_Bijection DEF ExistsBijection
<1>5. SUBSET (1..x) = A \cup B
  <2>1. ASSUME NEW s \in SUBSET (1..x) PROVE s \in A \cup B
    <3>1. CASE x \in s
      <4>1. s \ {x} \in A /\ s = (s \ {x}) \cup {x}
        BY <3>1
      <4> QED
        BY <4>1
    <3>2. CASE x \notin s
      BY <3>2
    <3> QED
      BY <3>1, <3>2
  <2>2. A \cup B \subseteq SUBSET (1..x)
    <3>1. 1..n \subseteq 1..x /\ x \in 1..x
      OBVIOUS
    <3> HIDE DEF x
    <3> QED
      BY <3>1
  <2> QED
    BY <2>1, <2>2
<1>6. A \cap B = {}
  BY <1>2
<1>7. Cardinality(A \cup B) = Cardinality(A) + Cardinality(B) - Cardinality(A \cap B)
  BY <1>1, <1>4, FS_Union
<1>8. Cardinality(A) \in Nat /\ Cardinality(A \cap B) = 0
  BY <1>1, <1>6, FS_CardinalityType, FS_EmptySet
<1>9. Subsets(x) = Cardinality(A \cup B) /\ Subsets(n) = Cardinality(A)
  BY <1>5 DEF Subsets
<1> HIDE DEF A, B
<1> QED
  BY <1>4, <1>7, <1>8, <1>9

\* Of the empty set there is one.
LEMMA SubsetsZero == Subsets(0) = 1
<1>1. SUBSET (1..0) = {{}}
  OBVIOUS
<1> QED
  BY <1>1, FS_Singleton DEF Subsets

----------------------------------------------------------------------------
(* The inductive invariant *)

\* Where the loops over the channels and over the attempts are.
Position ==
    /\ pc \in {"send", "backoff"} => i \in Channel
    /\ pc = "sent" => i = Len(channels) + 1
    /\ pc \in {"idle", "suppressed", "invalid"} => i = 1
    /\ pc \notin {"send", "backoff"} => attempt = 0
    /\ pc = "backoff" => attempt > 0

\* The current channel has had one Send per attempt, the later ones none.
Counted ==
    \A k \in 1..MaxChannels :
        /\ k > i => tries[k] = 0
        /\ k = i => tries[k] = attempt
        /\ reached[k] <= tries[k]

\* The channels before it were tried, and either failed or acknowledged.
Passed ==
    /\ \A k \in Channel : k < i =>
          /\ tries[k] > 0
          /\ k \in errs <=> k \notin acked
          /\ k \in acked => reached[k] > 0
    /\ \A k \in errs \cup acked : k < i

\* One that failed without all its retries did so because of the context.
Settled == \A k \in errs : cancelled \/ tries[k] = maxRetries + 1

\* The longest wait for a channel, and for the current one so far.
Full == 2 ^ maxRetries - 1

SoFar(at, a) ==
    CASE at = "send"    -> 2 ^ a - 1
      [] at = "backoff" -> 2 ^ (a - 1) - 1
      [] OTHER          -> 0

WaitSum == waited <= Full * (i - 1) + SoFar(pc, attempt)

IInv ==
    /\ TypeOK
    /\ Position
    /\ Counted
    /\ Passed
    /\ Settled
    /\ WaitSum

----------------------------------------------------------------------------
(* Types *)

\* TypeOK in two halves: the provers take truth values and numbers apart.
FlagsOK == cancelled \in BOOLEAN /\ alert \in Alert

DataOK ==
    /\ \E k \in 0..MaxChannels : channels \in [1..k -> ChannelType]
    /\ silenceWindows \subseteq Window
    /\ now \in Nat
    /\ pc \in {"idle", "send", "backoff", "sent", "suppressed", "invalid"}
    /\ i \in 1..(MaxChannels + 1)
    /\ attempt \in 0..maxRetries
    /\ errs \subseteq Channel
    /\ tries \in [1..MaxChannels -> 0..(maxRetries + 1)]
    /\ acked \subseteq Channel
    /\ reached \in [1..MaxChannels -> 0..(maxRetries + 1)]
    /\ waited \in Nat
    /\ alerts \in 0..MaxAlerts

\* The two halves make up TypeOK.
LEMMA TypeHalves == TypeOK <=> FlagsOK /\ DataOK
BY DEF TypeOK, FlagsOK, DataOK

\* The channels are numbered from 1.
LEMMA ChannelNumbers ==
    ASSUME DataOK
    PROVE  /\ channels \in Seq(ChannelType)
           /\ Len(channels) \in 0..MaxChannels
           /\ Channel = 1..Len(channels)
<1>1. PICK k \in 0..MaxChannels : channels \in [1..k -> ChannelType]
  BY DEF DataOK
<1>2. k \in Nat
  BY <1>1, BoundsAreNat
<1>3. channels \in Seq(ChannelType) /\ Len(channels) = k
  BY <1>1, <1>2
<1> QED
  BY <1>1, <1>2, <1>3 DEF Channel

\* A delay is a number of seconds, and two of them are the next one.
LEMMA DelayType ==
    ASSUME DataOK, attempt > 0
    PROVE  /\ delay \in Nat
           /\ delay = Subsets(attempt - 1)
           /\ Subsets(attempt) = 2 * delay
<1>1. attempt - 1 \in Nat /\ attempt = (attempt - 1) + 1
  BY RetriesAreNat DEF DataOK
<1>2. delay = Subsets(attempt - 1) /\ Subsets(attempt - 1) \in Nat
  BY <1>1, SubsetsArePowers, Zenon DEF delay
<1>3. Subsets((attempt - 1) + 1) = 2 * Subsets(attempt - 1)
  BY <1>1, SubsetsDouble
<1> QED
  BY <1>1, <1>2, <1>3

\* Every step keeps the alert and whether its context is cancelled.
LEMMA FlagsStep ==
    ASSUME FlagsOK, Next
    PROVE  FlagsOK'
<1> USE DEF FlagsOK
<1>1. ASSUME NEW t \in RequestedType, ConfigureChannel(t) PROVE FlagsOK'
  BY <1>1 DEF ConfigureChannel, callVars
<1>2. ASSUME NEW ws \in SUBSET Window, SetSilenceWindows(ws) PROVE FlagsOK'
  BY <1>2 DEF SetSilenceWindows, callVars
<1>3. CASE Tick
  BY <1>3 DEF Tick, callVars
<1>4. ASSUME NEW a \in Alert, SendAlert(a) PROVE FlagsOK'
  BY <1>4 DEF SendAlert
<1>5. ASSUME NEW ok \in BOOLEAN, NEW through \in BOOLEAN, Send(ok, through) PROVE FlagsOK'
  BY <1>5 DEF Send
<1>6. CASE Backoff
  BY <1>6 DEF Backoff
<1>7. CASE BackoffCancelled
  BY <1>7 DEF BackoffCancelled
<1>8. CASE Return
  <2>1. NoAlert \in Alert
    BY DEF NoAlert, Alert
  <2> QED
    BY <1>8, <2>1 DEF Return
<1>9. CASE Cancel
  BY <1>9 DEF Cancel
<1> QED
  BY <1>1, <1>2, <1>3, <1>4, <1>5, <1>6, <1>7, <1>8, <1>9 DEF Next, Sending

\* NextChannel stays within the channels and one after.
LEMMA NextChannelType ==
    ASSUME DataOK, i \in Channel, NextChannel
    PROVE  /\ i' \in 1..(MaxChannels + 1)
           /\ attempt' \in 0..maxRetries
           /\ pc' \in {"send", "sent"}
<1>1. i \in 1..Len(channels) /\ Len(channels) \in 0..MaxChannels
  BY ChannelNumbers
<1>2. i' = i + 1 /\ attempt' = 0 /\ pc' \in {"send", "sent"}
  BY DEF NextChannel
<1>3. i' \in 1..(MaxChannels + 1)
  BY <1>1, <1>2, BoundsAreNat
<1> QED
  BY <1>2, <1>3, RetriesAreNat

\* A channel is sent to at most once per attempt, and so at most maxRetries + 1 times.
LEMMA SendType ==
    ASSUME DataOK, Position, Counted, NEW ok \in BOOLEAN, NEW through \in BOOLEAN, Send(ok, through)
    PROVE  DataOK'
<1>1. i \in Channel /\ i \in 1..MaxChannels
  BY ChannelNumbers, BoundsAreNat DEF Send, Position
<1>2. tries[i] = attempt /\ reached[i] <= attempt
  BY <1>1 DEF Counted
<1>3. attempt \in 0..maxRetries /\ tries[i] \in 0..(maxRetries + 1) /\ reached[i] \in 0..(maxRetries + 1)
  BY <1>1 DEF DataOK
<1>4. (IF through THEN 1 ELSE 0) \in {0, 1}
  OBVIOUS
<1>5. tries' \in [1..MaxChannels -> 0..(maxRetries + 1)]
  <2>1. tries' = [tries EXCEPT ![i] = tries[i] + 1]
    BY DEF Send
  <2>2. tries[i] + 1 \in 0..(maxRetries + 1)
    BY <1>2, <1>3, RetriesAreNat
  <2> QED
    BY <2>1, <2>2 DEF DataOK
<1>6. reached' \in [1..MaxChannels -> 0..(maxRetries + 1)]
  <2>1. PICK d \in {0, 1} : reached' = [reached EXCEPT ![i] = reached[i] + d]
    BY <1>4 DEF Send
  <2>2. reached[i] + d \in 0..(maxRetries + 1)
    BY <1>2, <1>3, <2>1, RetriesAreNat
  <2> QED
    BY <2>1, <2>2 DEF DataOK
<1>7. UNCHANGED <<channels, silenceWindows, now, waited, alerts>>
  BY DEF Send
<1>8. /\ pc' \in {"send", "sent", "backoff"}
      /\ i' \in 1..(MaxChannels + 1)
      /\ attempt' \in 0..maxRetries
      /\ errs' \subseteq Channel /\ acked' \subseteq Channel
  <2>1. CASE ok /\ acked' = acked \cup {i} /\ NextChannel /\ UNCHANGED errs
    BY <1>1, <2>1, NextChannelType DEF DataOK
  <2>2. CASE RetriesLeft /\ attempt' = attempt + 1 /\ pc' = "backoff" /\ UNCHANGED <<i, errs, acked>>
    BY <1>3, <2>2, RetriesAreNat DEF DataOK, RetriesLeft
  <2>3. CASE ChannelFails /\ UNCHANGED acked
    BY <1>1, <2>3, NextChannelType DEF DataOK, ChannelFails
  <2> QED
    BY <2>1, <2>2, <2>3 DEF Send
<1> QED
  BY <1>5, <1>6, <1>7, <1>8 DEF DataOK, Channel

\* Every step keeps the counters and sets of a call; the number of tries of a channel
\* is bounded because the loop counts each of them.
LEMMA DataStep ==
    ASSUME DataOK, Position, Counted, Next
    PROVE  DataOK'
<1>1. ASSUME NEW t \in RequestedType, ConfigureChannel(t) PROVE DataOK'
  <2>1. CASE t \notin ChannelType
    BY <1>1, <2>1 DEF ConfigureChannel, callVars, DataOK, Channel
  <2>2. CASE t \in ChannelType
    <3> DEFINE k == Len(channels) + 1
    <3>1. k \in 0..MaxChannels /\ k \in Nat
      BY <1>1, ChannelNumbers, BoundsAreNat DEF ConfigureChannel
    <3>2. channels' = Append(channels, t)
      BY <1>1, <2>2 DEF ConfigureChannel
    <3>3. channels' \in [1..k -> ChannelType]
      <4>1. channels' \in Seq(ChannelType) /\ Len(channels') = k
        BY <2>2, <3>2, ChannelNumbers
      <4> QED
        BY <4>1
    <3>4. DOMAIN channels \subseteq DOMAIN channels'
      BY <3>1, <3>3, ChannelNumbers DEF Channel
    <3>5. UNCHANGED <<silenceWindows, now, pc, i, attempt, errs, tries, acked, reached, waited, alerts>>
      BY <1>1 DEF ConfigureChannel, callVars
    <3> HIDE DEF k
    <3> QED
      BY <3>1, <3>3, <3>4, <3>5 DEF DataOK, Channel
  <2> QED
    BY <2>1, <2>2
<1>2. ASSUME NEW ws \in SUBSET Window, SetSilenceWindows(ws) PROVE DataOK'
  BY <1>2 DEF SetSilenceWindows, callVars, DataOK, Channel
<1>3. CASE Tick
  BY <1>3 DEF Tick, callVars, DataOK, Channel
<1>4. ASSUME NEW a \in Alert, SendAlert(a) PROVE DataOK'
  <2>1. pc' \in {"suppressed", "invalid", "sent", "send"}
    BY <1>4 DEF SendAlert
  <2>2. alerts' \in 0..MaxAlerts
    BY <1>4, BoundsAreNat DEF SendAlert, DataOK
  <2>3. UNCHANGED <<channels, silenceWindows, now, i, attempt, errs, tries, acked, reached, waited>>
    BY <1>4 DEF SendAlert
  <2> QED
    BY <2>1, <2>2, <2>3 DEF DataOK, Channel
<1>5. ASSUME NEW ok \in BOOLEAN, NEW through \in BOOLEAN, Send(ok, through) PROVE DataOK'
  BY <1>5, SendType
<1>6. CASE Backoff
  <2>1. /\ now' = now + delay /\ waited' = waited + delay /\ pc' = "send"
        /\ UNCHANGED <<channels, silenceWindows, i, attempt, errs, tries, acked, reached, alerts>>
    BY <1>6 DEF Backoff
  <2>2. delay \in Nat
    BY <1>6, DelayType DEF Backoff, Position
  <2> QED
    BY <2>1, <2>2 DEF DataOK, Channel
<1>7. CASE BackoffCancelled
  <2>1. delay \in Nat /\ i \in Channel
    BY <1>7, DelayType DEF BackoffCancelled, Position
  <2>2. PICK seconds \in 0..delay : now' = now + seconds /\ waited' = waited + seconds
    BY <1>7 DEF BackoffCancelled
  <2>3. now' \in Nat /\ waited' \in Nat
    BY <2>1, <2>2 DEF DataOK
  <2>4. /\ errs' = errs \cup {i} /\ NextChannel
        /\ UNCHANGED <<channels, silenceWindows, tries, acked, reached, alerts>>
    BY <1>7 DEF BackoffCancelled, ChannelFails
  <2> QED
    BY <2>1, <2>3, <2>4, NextChannelType DEF DataOK, Channel
<1>8. CASE Return
  <2>1. /\ pc' = "idle" /\ i' = 1 /\ attempt' = 0 /\ errs' = {} /\ acked' = {}
        /\ tries' = Zero /\ reached' = Zero /\ waited' = 0
        /\ UNCHANGED <<channels, silenceWindows, now, alerts>>
    BY <1>8 DEF Return
  <2> QED
    <3>1. Zero \in [1..MaxChannels -> 0..(maxRetries + 1)]
      BY RetriesAreNat DEF Zero
    <3>2. 1 \in 1..(MaxChannels + 1) /\ 0 \in 0..maxRetries
      BY RetriesAreNat, BoundsAreNat
    <3> QED
      BY <2>1, <3>1, <3>2 DEF DataOK, Channel
<1>9. CASE Cancel
  <2>1. UNCHANGED <<channels, silenceWindows, now, pc, i, attempt, errs, tries, acked, reached, waited, alerts>>
    BY <1>9 DEF Cancel
  <2> QED
    BY <2>1 DEF DataOK, Channel
<1> QED
  BY <1>1, <1>2, <1>3, <1>4, <1>5, <1>6, <1>7, <1>8, <1>9 DEF Next, Sending

----------------------------------------------------------------------------
(* The loops *)

\* The call goes on to the next channel: the current one was tried, and it
\* failed or acknowledged.
LEMMA NextChannelStep ==
    ASSUME DataOK, DataOK', Counted, Passed, i \in Channel, NextChannel, UNCHANGED channels,
           \A k \in 1..MaxChannels : k # i => tries'[k] = tries[k] /\ reached'[k] = reached[k],
           tries'[i] > 0, reached'[i] <= tries'[i],
           \/ errs' = errs \cup {i} /\ acked' = acked
           \/ errs' = errs /\ acked' = acked \cup {i} /\ reached'[i] > 0
    PROVE  Position' /\ Counted' /\ Passed'
<1>1. /\ i \in 1..Len(channels) /\ Len(channels) \in 0..MaxChannels
      /\ Channel = 1..Len(channels) /\ Channel' = Channel
  BY ChannelNumbers DEF Channel
<1>2. i' = i + 1 /\ attempt' = 0 /\ pc' = IF i < Len(channels) THEN "send" ELSE "sent"
  BY DEF NextChannel
<1>3. MaxChannels \in Nat /\ i \in Nat /\ Len(channels) \in Nat
  BY <1>1, BoundsAreNat
<1>4. Position'
  BY <1>1, <1>2, <1>3 DEF Position
<1>5. Counted'
  <2> SUFFICES ASSUME NEW k \in 1..MaxChannels
               PROVE  /\ k > i + 1 => tries'[k] = 0
                      /\ k = i + 1 => tries'[k] = 0
                      /\ reached'[k] <= tries'[k]
    BY <1>2 DEF Counted
  <2> QED
    BY <1>3 DEF Counted
<1>6. Passed'
  <2>1. \A k \in errs \cup acked : k < i
    BY DEF Passed
  <2>2. i \notin errs /\ i \notin acked /\ errs \cup acked \subseteq Channel
    BY <1>3, <2>1 DEF DataOK
  <2>3. \A k \in errs' \cup acked' : k < i + 1
    BY <1>1, <1>3, <2>1, <2>2
  <2>4. ASSUME NEW k \in Channel, k < i + 1
        PROVE  tries'[k] > 0 /\ (k \in errs' <=> k \notin acked') /\ (k \in acked' => reached'[k] > 0)
    <3>1. CASE k = i
      BY <2>2, <3>1
    <3>2. CASE k # i
      <4>1. k < i /\ k \in 1..MaxChannels
        BY <1>1, <1>3, <2>4, <3>2
      <4> QED
        BY <3>2, <4>1 DEF Passed
    <3> QED
      BY <3>1, <3>2
  <2> QED
    BY <1>1, <1>2, <2>3, <2>4 DEF Passed
<1> QED
  BY <1>4, <1>5, <1>6

\* The three outcomes of a Send.
LEMMA SendStep ==
    ASSUME DataOK, DataOK', Position, Counted, Passed, Settled,
           NEW ok \in BOOLEAN, NEW through \in BOOLEAN, Send(ok, through)
    PROVE  Position' /\ Counted' /\ Passed' /\ Settled'
<1>1. /\ i \in Channel /\ i \in 1..MaxChannels /\ i \in Nat
      /\ Channel' = Channel /\ Len(channels)' = Len(channels) /\ channels' = channels
      /\ cancelled' = cancelled
  BY ChannelNumbers, BoundsAreNat DEF Send, Position, Channel
<1>2. tries[i] = attempt /\ reached[i] <= attempt /\ attempt \in Nat /\ reached[i] \in Nat
  <2>1. attempt \in 0..maxRetries /\ reached[i] \in 0..(maxRetries + 1)
    BY <1>1 DEF DataOK
  <2>2. tries[i] = attempt /\ reached[i] <= tries[i]
    BY <1>1 DEF Counted
  <2> QED
    BY <2>1, <2>2, RetriesAreNat
<1>3. tries' = [tries EXCEPT ![i] = attempt + 1]
  BY <1>2 DEF Send
<1>4. PICK d \in {0, 1} : reached' = [reached EXCEPT ![i] = reached[i] + d] /\ (ok => d = 1)
  <2>1. (IF through THEN 1 ELSE 0) \in {0, 1} /\ (ok => (IF through THEN 1 ELSE 0) = 1)
    BY DEF Send
  <2> QED
    BY <2>1 DEF Send
<1>5. /\ tries'[i] = attempt + 1 /\ reached'[i] = reached[i] + d
      /\ \A k \in 1..MaxChannels : k # i => tries'[k] = tries[k] /\ reached'[k] = reached[k]
  BY <1>1, <1>3, <1>4 DEF DataOK
<1>6. tries'[i] > 0 /\ reached'[i] <= tries'[i] /\ (ok => reached'[i] > 0)
  BY <1>2, <1>4, <1>5
<1>7. i \notin errs /\ \A k \in errs : k \in 1..MaxChannels /\ k # i
  <2>1. errs \subseteq 1..MaxChannels
    <3>1. errs \subseteq Channel
      BY DEF DataOK
    <3>2. Channel = 1..Len(channels) /\ Len(channels) \in 0..MaxChannels
      BY ChannelNumbers
    <3> QED
      BY <3>1, <3>2, BoundsAreNat
  <2>2. \A k \in errs : k < i
    BY DEF Passed
  <2> QED
    BY <1>1, <2>1, <2>2
<1>8. CASE ok /\ acked' = acked \cup {i} /\ NextChannel /\ UNCHANGED errs
  <2>1. Settled'
    BY <1>1, <1>5, <1>7, <1>8 DEF Settled
  <2> QED
    BY <1>1, <1>5, <1>6, <1>8, <2>1, NextChannelStep
<1>9. CASE RetriesLeft /\ attempt' = attempt + 1 /\ pc' = "backoff" /\ UNCHANGED <<i, errs, acked>>
  <2>1. Position'
    BY <1>1, <1>2, <1>9 DEF Position
  <2>2. Counted'
    BY <1>1, <1>2, <1>5, <1>6, <1>9 DEF Counted
  <2>3. Passed'
    <3>1. \A k \in Channel : k < i => k \in 1..MaxChannels /\ k # i
      BY <1>1, ChannelNumbers, BoundsAreNat
    <3> QED
      BY <1>1, <1>5, <1>9, <3>1 DEF Passed
  <2>4. Settled'
    BY <1>1, <1>5, <1>7, <1>9 DEF Settled
  <2> QED
    BY <2>1, <2>2, <2>3, <2>4
<1>10. CASE ~RetriesLeft /\ ChannelFails /\ UNCHANGED acked
  <2>1. attempt = maxRetries
    BY <1>10, RetriesAreNat DEF RetriesLeft, DataOK
  <2>2. errs' = errs \cup {i} /\ NextChannel
    BY <1>10 DEF ChannelFails
  <2>3. Settled'
    BY <1>1, <1>5, <1>7, <2>1, <2>2 DEF Settled
  <2> QED
    BY <1>1, <1>5, <1>6, <1>10, <2>2, <2>3, NextChannelStep
<1> QED
  BY <1>8, <1>9, <1>10 DEF Send

\* Between calls the loops are at their beginning.
LEMMA LoopStep ==
    ASSUME DataOK, DataOK', Position, Counted, Passed, Settled, Next
    PROVE  Position' /\ Counted' /\ Passed' /\ Settled'
<1>1. ASSUME pc = "idle", UNCHANGED callVars
      PROVE  Position' /\ Counted' /\ Passed' /\ Settled'
  <2>1. i = 1 /\ UNCHANGED <<pc, i, attempt, errs, cancelled, tries, acked, reached>>
    BY <1>1 DEF Position, callVars
  <2>2. \A k \in Channel' : ~(k < 1)
    <3>1. PICK m \in 0..MaxChannels : channels' \in [1..m -> ChannelType]
      BY DEF DataOK
    <3> QED
      BY <3>1, BoundsAreNat DEF Channel
  <2> QED
    BY <1>1, <2>1, <2>2 DEF Position, Counted, Passed, Settled
<1>2. ASSUME NEW t \in RequestedType, ConfigureChannel(t)
      PROVE  Position' /\ Counted' /\ Passed' /\ Settled'
  BY <1>1, <1>2 DEF ConfigureChannel
<1>3. ASSUME NEW ws \in SUBSET Window, SetSilenceWindows(ws)
      PROVE  Position' /\ Counted' /\ Passed' /\ Settled'
  BY <1>1, <1>3 DEF SetSilenceWindows
<1>4. CASE Tick
  BY <1>1, <1>4 DEF Tick
<1>5. ASSUME NEW a \in Alert, SendAlert(a)
      PROVE  Position' /\ Counted' /\ Passed' /\ Settled'
  <2>1. /\ i = 1 /\ attempt = 0
        /\ UNCHANGED <<channels, i, attempt, errs, cancelled, tries, acked, reached>>
    BY <1>5 DEF SendAlert, Position
  <2>2. pc' = "send" => channels # << >>
    BY <1>5 DEF SendAlert
  <2>3. pc' = "sent" => channels = << >>
    BY <1>5 DEF SendAlert
  <2>4. pc' # "backoff"
    BY <1>5 DEF SendAlert
  <2>5. Position'
    <3>1. channels # << >> => 1 \in Channel
      BY ChannelNumbers
    <3>2. channels = << >> => Len(channels) = 0
      OBVIOUS
    <3> QED
      BY <2>1, <2>2, <2>3, <2>4, <3>1, <3>2 DEF Position, Channel
  <2> QED
    BY <2>1, <2>5 DEF Counted, Passed, Settled, Channel
<1>6. ASSUME NEW ok \in BOOLEAN, NEW through \in BOOLEAN, Send(ok, through)
      PROVE  Position' /\ Counted' /\ Passed' /\ Settled'
  BY <1>6, SendStep
<1>7. CASE Backoff
  <2>1. /\ pc = "backoff" /\ pc' = "send"
        /\ UNCHANGED <<channels, i, attempt, errs, cancelled, tries, acked, reached>>
    BY <1>7 DEF Backoff
  <2> QED
    BY <2>1 DEF Position, Counted, Passed, Settled, Channel
<1>8. CASE BackoffCancelled
  <2>1. /\ pc = "backoff" /\ cancelled /\ cancelled' = cancelled
        /\ errs' = errs \cup {i} /\ NextChannel
        /\ UNCHANGED <<channels, tries, acked, reached>>
    BY <1>8 DEF BackoffCancelled, ChannelFails
  <2>2. i \in Channel /\ i \in 1..MaxChannels /\ attempt > 0
    BY <2>1, ChannelNumbers, BoundsAreNat DEF Position
  <2>3. tries'[i] > 0 /\ reached'[i] <= tries'[i]
    BY <2>1, <2>2 DEF Counted
  <2>4. Settled'
    BY <2>1 DEF Settled
  <2>5. Position' /\ Counted' /\ Passed'
    BY <2>1, <2>2, <2>3, NextChannelStep
  <2> QED
    BY <2>4, <2>5
<1>9. CASE Return
  <2>1. /\ pc' = "idle" /\ i' = 1 /\ attempt' = 0 /\ errs' = {} /\ acked' = {}
        /\ tries' = Zero /\ reached' = Zero /\ channels' = channels
    BY <1>9 DEF Return
  <2>2. \A k \in Channel' : ~(k < 1)
    BY <2>1, ChannelNumbers DEF Channel
  <2> QED
    BY <2>1, <2>2 DEF Position, Counted, Passed, Settled, Zero
<1>10. CASE Cancel
  <2>1. cancelled' /\ UNCHANGED <<channels, pc, i, attempt, errs, tries, acked, reached>>
    BY <1>10 DEF Cancel
  <2> QED
    BY <2>1 DEF Position, Counted, Passed, Settled, Channel
<1> QED
  BY <1>2, <1>3, <1>4, <1>5, <1>6, <1>7, <1>8, <1>9, <1>10 DEF Next, Sending

----------------------------------------------------------------------------
(* The waits *)

\* Full is a power of two less one: what the doubling waits of a channel add up to.
LEMMA FullType == Full = Subsets(maxRetries) - 1 /\ Subsets(maxRetries) \in Nat /\ Full \in Nat
<1>1. 2 ^ maxRetries = Subsets(maxRetries) /\ Subsets(maxRetries) \in Nat
  BY SubsetsArePowers, RetriesAreNat, Zenon
<1>2. Full = Subsets(maxRetries) - 1
  BY <1>1, Zenon DEF Full
<1>3. Subsets(0) <= Subsets(maxRetries)
  BY SubsetsGrow, RetriesAreNat
<1> QED
  BY <1>1, <1>2, <1>3, SubsetsZero

\* The wait for the current channel, without powers.
LEMMA SoFarIs ==
    ASSUME NEW a \in Nat
    PROVE  /\ SoFar("send", a) = Subsets(a) - 1
           /\ a > 0 => SoFar("backoff", a) = Subsets(a - 1) - 1
           /\ \A at : at \notin {"send", "backoff"} => SoFar(at, a) = 0
<1>1. 2 ^ a = Subsets(a)
  BY SubsetsArePowers, Zenon
<1>2. SoFar("send", a) = Subsets(a) - 1
  BY <1>1, Zenon DEF SoFar
<1>3. ASSUME a > 0 PROVE SoFar("backoff", a) = Subsets(a - 1) - 1
  <2>1. a - 1 \in Nat
    BY <1>3
  <2>2. 2 ^ (a - 1) = Subsets(a - 1)
    BY <2>1, SubsetsArePowers, Zenon
  <2>3. SoFar("backoff", a) = 2 ^ (a - 1) - 1
    BY Zenon DEF SoFar
  <2> QED
    BY <2>2, <2>3, Zenon
<1>4. \A at : at \notin {"send", "backoff"} => SoFar(at, a) = 0
  BY Zenon DEF SoFar
<1> QED
  BY <1>2, <1>3, <1>4

\* A channel costs at most Full, and with the next one the count begins again.
LEMMA WaitNextChannel ==
    ASSUME DataOK, DataOK', i \in Channel, NextChannel, waited' <= Full * (i - 1) + Full
    PROVE  WaitSum'
<1>1. i' = i + 1 /\ attempt' = 0 /\ pc' \in {"send", "sent"}
  BY DEF NextChannel
<1>2. SoFar("send", 0) = 0 /\ SoFar("sent", 0) = 0
  BY SoFarIs, SubsetsZero
<1>3. SoFar(pc', attempt') = 0
  BY <1>1, <1>2
<1>4. i \in Nat /\ waited' \in Nat /\ Full \in Nat
  BY FullType, BoundsAreNat DEF DataOK
<1>5. Full * (i' - 1) = Full * (i - 1) + Full
  BY <1>1, <1>4
<1>6. waited' <= Full * (i' - 1) + SoFar(pc', attempt')
  BY <1>3, <1>4, <1>5
<1> QED
  BY <1>6 DEF WaitSum

\* Every step keeps the sum of the waits: a wait is added when an attempt has failed, and
\* a channel's waits are complete when the loop goes on to the next.
LEMMA WaitStep ==
    ASSUME DataOK, DataOK', Position, Position', WaitSum, Next
    PROVE  WaitSum'
<1>1. attempt \in Nat /\ i \in Nat /\ waited \in Nat /\ Full \in Nat /\ Full * (i - 1) \in Int
  BY FullType, RetriesAreNat, BoundsAreNat DEF DataOK
<1>2. ASSUME UNCHANGED <<pc, i, attempt, waited>> PROVE WaitSum'
  BY <1>2 DEF WaitSum
<1>3. ASSUME NEW t \in RequestedType, ConfigureChannel(t) PROVE WaitSum'
  BY <1>2, <1>3 DEF ConfigureChannel, callVars
<1>4. ASSUME NEW ws \in SUBSET Window, SetSilenceWindows(ws) PROVE WaitSum'
  BY <1>2, <1>4 DEF SetSilenceWindows, callVars
<1>5. CASE Tick
  BY <1>2, <1>5 DEF Tick, callVars
<1>6. ASSUME NEW a \in Alert, SendAlert(a) PROVE WaitSum'
  <2>1. pc = "idle" /\ pc' \in {"suppressed", "invalid", "sent", "send"} /\ UNCHANGED <<i, attempt, waited>>
    BY <1>6 DEF SendAlert
  <2>2. attempt = 0
    BY <2>1 DEF Position
  <2>3. SoFar(pc, 0) = 0 /\ SoFar(pc', 0) = 0
    BY <2>1, SoFarIs, SubsetsZero
  <2> QED
    BY <2>1, <2>2, <2>3 DEF WaitSum
<1>7. ASSUME NEW ok \in BOOLEAN, NEW through \in BOOLEAN, Send(ok, through) PROVE WaitSum'
  <2>1. pc = "send" /\ waited' = waited /\ i \in Channel
    BY <1>7 DEF Send, Position
  <2>2. SoFar(pc, attempt) = Subsets(attempt) - 1 /\ Subsets(attempt) \in Nat
    BY <1>1, <2>1, SoFarIs, SubsetsArePowers
  <2>3. CASE NextChannel
    <3>1. Subsets(attempt) <= Subsets(maxRetries)
      BY SubsetsGrow, RetriesAreNat DEF DataOK
    <3>2. SoFar(pc, attempt) <= Full /\ SoFar(pc, attempt) \in Int
      BY <2>2, <3>1, FullType
    <3>3. waited' <= Full * (i - 1) + Full
      BY <1>1, <2>1, <3>2 DEF WaitSum
    <3> QED
      BY <2>1, <2>3, <3>3, WaitNextChannel
  <2>4. CASE attempt' = attempt + 1 /\ pc' = "backoff" /\ UNCHANGED i
    <3>1. attempt + 1 \in Nat /\ attempt + 1 > 0 /\ (attempt + 1) - 1 = attempt
      BY <1>1
    <3>2. SoFar("backoff", attempt + 1) = Subsets(attempt) - 1
      BY <3>1, SoFarIs
    <3> QED
      BY <2>1, <2>2, <2>4, <3>2 DEF WaitSum
  <2> QED
    BY <1>7, <2>3, <2>4 DEF Send, ChannelFails
<1>8. ASSUME pc = "backoff"
      PROVE  /\ attempt > 0 /\ i \in Channel /\ delay \in Nat
             /\ waited <= Full * (i - 1) + (delay - 1)
             /\ Subsets(attempt) = 2 * delay
  <2>1. attempt > 0 /\ i \in Channel
    BY <1>8 DEF Position
  <2>2. SoFar(pc, attempt) = delay - 1
    BY <1>1, <1>8, <2>1, SoFarIs, DelayType
  <2> QED
    BY <2>1, <2>2, DelayType DEF WaitSum
<1>9. CASE Backoff
  <2>1. pc = "backoff" /\ pc' = "send" /\ waited' = waited + delay /\ UNCHANGED <<i, attempt>>
    BY <1>9 DEF Backoff
  <2>2. SoFar(pc', attempt') = 2 * delay - 1
    BY <1>1, <1>8, <2>1, SoFarIs
  <2>3. waited' <= Full * (i - 1) + (2 * delay - 1)
    BY <1>1, <1>8, <2>1
  <2> QED
    BY <2>1, <2>2, <2>3 DEF WaitSum
<1>10. CASE BackoffCancelled
  <2>1. pc = "backoff" /\ NextChannel
    BY <1>10 DEF BackoffCancelled, ChannelFails
  <2>2. PICK seconds \in 0..delay : waited' = waited + seconds
    BY <1>10 DEF BackoffCancelled
  <2>3. 2 * delay <= Subsets(maxRetries)
    <3>1. Subsets(attempt) <= Subsets(maxRetries)
      BY SubsetsGrow, RetriesAreNat DEF DataOK
    <3> QED
      BY <1>8, <2>1, <3>1
  <2>4. waited' <= Full * (i - 1) + Full
    BY <1>1, <1>8, <2>1, <2>2, <2>3, FullType
  <2> QED
    BY <1>8, <2>1, <2>4, WaitNextChannel
<1>11. CASE Return
  <2>1. pc' = "idle" /\ i' = 1 /\ attempt' = 0 /\ waited' = 0
    BY <1>11 DEF Return
  <2>2. SoFar(pc', attempt') = 0 /\ Full * (1 - 1) = 0
    BY <1>1, <2>1, SoFarIs
  <2> QED
    BY <2>1, <2>2 DEF WaitSum
<1>12. CASE Cancel
  BY <1>2, <1>12 DEF Cancel
<1> QED
  BY <1>3, <1>4, <1>5, <1>6, <1>7, <1>9, <1>10, <1>11, <1>12 DEF Next, Sending

----------------------------------------------------------------------------
(* The invariant *)

\* Before the first call nothing is sent or waited for.
LEMMA InitHolds ==
    ASSUME Init
    PROVE  IInv
<1> USE DEF Init, CallInit
<1>1. FlagsOK
  BY DEF FlagsOK, Alert, NoAlert
<1>2. /\ channels = << >> /\ silenceWindows = {} /\ now = 0 /\ pc = "idle" /\ i = 1 /\ attempt = 0
      /\ errs = {} /\ tries = Zero /\ acked = {} /\ reached = Zero /\ waited = 0 /\ alerts = 0
  OBVIOUS
<1>3. Zero \in [1..MaxChannels -> 0..(maxRetries + 1)] /\ \A k \in 1..MaxChannels : Zero[k] = 0
  BY RetriesAreNat DEF Zero
<1>4. channels \in [1..0 -> ChannelType] /\ Channel = {}
  BY <1>2 DEF Channel
<1>5. DataOK
  BY <1>2, <1>3, <1>4, RetriesAreNat, BoundsAreNat DEF DataOK
<1>6. Position /\ Counted /\ Passed /\ Settled
  BY <1>2, <1>3, <1>4 DEF Position, Counted, Passed, Settled
<1>7. WaitSum
  <2>1. SoFar("idle", 0) = 0 /\ Full * (1 - 1) = 0
    BY SoFarIs, FullType
  <2> QED
    BY <1>2, <2>1 DEF WaitSum
<1> QED
  BY <1>1, <1>5, <1>6, <1>7, TypeHalves DEF IInv

\* Every step keeps the inductive invariant.
LEMMA StepHolds ==
    ASSUME IInv, Next
    PROVE  IInv'
<1>1. FlagsOK /\ DataOK /\ Position /\ Counted /\ Passed /\ Settled /\ WaitSum
  BY TypeHalves DEF IInv
<1>2. FlagsOK'
  BY <1>1, FlagsStep
<1>3. DataOK'
  BY <1>1, DataStep
<1>4. TypeOK'
  BY <1>2, <1>3 DEF TypeOK, FlagsOK, DataOK
<1>5. Position' /\ Counted' /\ Passed' /\ Settled'
  BY <1>1, <1>3, LoopStep
<1>6. WaitSum'
  BY <1>1, <1>3, <1>5, WaitStep
<1> QED
  BY <1>4, <1>5, <1>6 DEF IInv

\* The inductive invariant holds throughout.
LEMMA Invariance == Spec => []IInv
<1>1. IInv /\ UNCHANGED vars => IInv'
  BY DEF IInv, TypeOK, Position, Counted, Passed, Settled, WaitSum, vars, callVars, Channel
<1> QED
  BY <1>1, InitHolds, StepHolds, PTL DEF Spec

----------------------------------------------------------------------------
(* The properties *)

\* Every variable of Alerting keeps its type; among others no channel is sent
\* to more than maxRetries + 1 times in a call.
THEOREM TypeCorrect == Spec => []TypeOK
<1>1. IInv => TypeOK
  BY DEF IInv
<1> QED
  BY <1>1, Invariance, PTL

\* When SendAlert returns, every channel has been tried, whichever failed
\* before it, and its error names exactly those that never acknowledged.
THEOREM EveryChannelIsTried == Spec => []EveryChannelTried
<1>1. ASSUME IInv PROVE EveryChannelTried
  <2>1. DataOK
    BY <1>1, TypeHalves DEF IInv
  <2>2. pc = "sent" => \A k \in Channel : k < i
    BY <1>1, <2>1, ChannelNumbers DEF IInv, Position
  <2> QED
    BY <1>1, <2>2 DEF IInv, Passed, EveryChannelTried
<1> QED
  BY <1>1, Invariance, PTL

\* sendWithRetry gives a channel up only after all its retries or when the
\* context was cancelled, and does not send again to one that acknowledged.
THEOREM GivesUpOnlyLast == Spec => []GivesUpLast
<1>1. IInv => GivesUpLast
  BY DEF IInv, Passed, Settled, GivesUpLast
<1> QED
  BY <1>1, Invariance, PTL

\* The worker blocked in SendAlert waits at most 2^maxRetries - 1 seconds per
\* channel tried, for every number of retries and of channels.
THEOREM WaitBound == Spec => []WaitIsBounded
<1>1. ASSUME IInv PROVE WaitIsBounded
  <2> DEFINE tried == {k \in Channel : tries[k] > 0}
  <2>1. DataOK /\ Position /\ Counted /\ Passed /\ WaitSum
    BY <1>1, TypeHalves DEF IInv
  <2>2. /\ Channel = 1..Len(channels) /\ Len(channels) \in 0..MaxChannels
        /\ attempt \in Nat /\ attempt \in 0..maxRetries /\ i \in Nat /\ i >= 1
        /\ waited \in Nat /\ Full \in Nat /\ MaxChannels \in Nat
    <3>1. Channel = 1..Len(channels) /\ Len(channels) \in 0..MaxChannels
      BY <2>1, ChannelNumbers
    <3>2. attempt \in 0..maxRetries /\ i \in 1..(MaxChannels + 1) /\ waited \in Nat
      BY <2>1 DEF DataOK
    <3> QED
      BY <3>1, <3>2, FullType, RetriesAreNat, BoundsAreNat
  <2>3. i - 1 <= Len(channels)
    BY <2>1, <2>2 DEF Position, DataOK
  <2>4. \A k \in 1..(i - 1) : k \in tried
    BY <2>1, <2>2, <2>3 DEF Passed
  <2>5. \A k \in tried : k <= i /\ (k = i => attempt > 0)
    BY <2>1, <2>2 DEF Counted
  <2>6. CASE attempt = 0
    <3>1. tried = 1..(i - 1)
      BY <2>2, <2>3, <2>4, <2>5, <2>6
    <3>2. Cardinality(tried) = i - 1
      <4>1. Cardinality(1..(i - 1)) = IF 1 > i - 1 THEN 0 ELSE (i - 1) - 1 + 1
        BY <2>2, FS_Interval
      <4> HIDE DEF tried
      <4> QED
        BY <2>2, <3>1, <4>1
    <3>3. SoFar(pc, attempt) = 0
      <4>1. pc # "backoff"
        BY <2>1, <2>6 DEF Position
      <4> QED
        BY <2>6, <4>1, SoFarIs, SubsetsZero
    <3>4. waited <= Full * Cardinality(tried)
      BY <2>1, <2>2, <3>2, <3>3 DEF WaitSum
    <3> QED
      BY <3>4, Zenon DEF WaitIsBounded, Full
  <2>7. CASE attempt # 0
    <3>1. pc \in {"send", "backoff"} /\ i \in Channel
      BY <2>1, <2>7 DEF Position, DataOK
    <3>2. i \in tried
      BY <2>1, <2>2, <2>7, <3>1 DEF Counted
    <3>3. tried = 1..i
      BY <2>2, <2>4, <2>5, <3>2
    <3>4. Cardinality(tried) = i
      <4>1. Cardinality(1..i) = IF 1 > i THEN 0 ELSE i - 1 + 1
        BY <2>2, FS_Interval
      <4> HIDE DEF tried
      <4> QED
        BY <2>2, <3>3, <4>1
    <3>5. SoFar(pc, attempt) <= Full /\ SoFar(pc, attempt) \in Int
      <4>1. attempt > 0 /\ attempt - 1 \in 0..maxRetries /\ attempt - 1 \in Nat
        BY <2>2, <2>7, RetriesAreNat
      <4>2. /\ Subsets(attempt) <= Subsets(maxRetries) /\ Subsets(attempt) \in Nat
            /\ Subsets(attempt - 1) <= Subsets(maxRetries) /\ Subsets(attempt - 1) \in Nat
        BY <2>2, <4>1, SubsetsGrow, SubsetsArePowers, RetriesAreNat
      <4>3. SoFar(pc, attempt) \in {Subsets(attempt) - 1, Subsets(attempt - 1) - 1}
        BY <2>2, <3>1, <4>1, SoFarIs
      <4> QED
        BY <4>2, <4>3, FullType
    <3>6. waited <= Full * (i - 1) + Full
      BY <2>1, <2>2, <3>5 DEF WaitSum
    <3>7. waited <= Full * Cardinality(tried)
      BY <2>2, <3>4, <3>6
    <3> QED
      BY <3>7, Zenon DEF WaitIsBounded, Full
  <2> QED
    BY <2>6, <2>7
<1> QED
  BY <1>1, Invariance, PTL
=============================================================================
