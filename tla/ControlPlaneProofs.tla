-------------------------- MODULE ControlPlaneProofs --------------------------
(***************************************************************************)
(* The safety of ControlPlane for any number of namespaces, callers, specs *)
(* and costs, any history length and without the bounds TLC needs.         *)
(*                                                                         *)
(* The argument: a copy whose resourceVersion is the stored one equals the *)
(* stored object (Fresh), so an accepted write computes the new object     *)
(* from the stored one, whatever the writer's handler did since its read.  *)
(***************************************************************************)
EXTENDS ControlPlane, SequenceTheorems, TLAPS

\* A cached object, and a copy, with the stored resourceVersion is the stored
\* object.  Only RollbackPolicy, between its two writes, holds another phase.
CacheFresh == \A n \in Namespace : cache[n].cur => cache[n].obj = store[n]

CopyFresh ==
    \A c \in Client : copy[c].cur =>
       IF pc[c] = "status"
       THEN /\ store[copy[c].ns] \in Object
            /\ copy[c].obj = [store[copy[c].ns] EXCEPT !.phase = DecodedPhase(store[copy[c].ns])]
       ELSE copy[c].obj = store[copy[c].ns]

\* Past its read, a handler has an object, except an ApplyPolicy that creates it.
CopyHeld == \A c \in Client : pc[c] \notin {"idle", "apply"} => copy[c].obj \in Object

Fresh == CacheFresh /\ CopyFresh /\ CopyHeld

\* What the invariants say of one object and the publishes counted for it.
Contiguous(h, v) ==
    /\ Len(h) <= maxVersionHistory
    /\ \A i \in DOMAIN h : h[i].version = v - Len(h) + i - 1

Consistent(o) ==
    /\ o.phase = "Error" <=> o.cond = "False"
    /\ o.phase = "Active" => o.cond = "True"

GoodObject(o, p) == Contiguous(o.hist, o.version) /\ o.version = p /\ Consistent(o)

ObjectsGood == \A n \in Namespace : Present(n) => GoodObject(store[n], published[n])

IInv == TypeOK /\ Fresh /\ ObjectsGood

----------------------------------------------------------------------------
(* Single objects.                                                         *)

\* The newest k of a line of consecutive versions are one, with the same end.
LEMMA SuffixOfLine ==
    ASSUME NEW s \in Seq(Entry), NEW k \in Nat, k >= 1, NEW v \in Int,
           \A i \in 1..Len(s) : s[i].version = v - Len(s) + i - 1
    PROVE  /\ Suffix(s, k) \in Seq(Entry)
           /\ Len(Suffix(s, k)) <= k
           /\ \A i \in 1..Len(Suffix(s, k)) :
                 Suffix(s, k)[i].version = v - Len(Suffix(s, k)) + i - 1
<1>1. Len(s) \in Nat /\ DOMAIN s = 1..Len(s)
  BY LenProperties
<1>2. CASE Len(s) > k
  <2> DEFINE m == Len(s) - k + 1
  <2>1. m \in 1..Len(s) + 1 /\ Len(s) \in m - 1..Len(s)
    BY <1>1, <1>2
  <2>2. PICK h : h = SubSeq(s, m, Len(s))
    OBVIOUS
  <2>3. Suffix(s, k) = h
    BY <1>2, <2>2 DEF Suffix
  <2>4. h \in Seq(Entry) /\ Len(h) = Len(s) - m + 1 /\ \A i \in 1..Len(s) - m + 1 : h[i] = s[m + i - 1]
    BY <2>1, <2>2, SubSeqProperties
  <2>5. Len(s) - m + 1 = k
    BY <1>1
  <2>6. ASSUME NEW i \in 1..k
        PROVE  h[i].version = v - k + i - 1
    <3>1. m + i - 1 \in 1..Len(s) /\ h[i] = s[m + i - 1]
      BY <1>1, <1>2, <2>4, <2>5
    <3>2. s[m + i - 1].version = v - Len(s) + (m + i - 1) - 1
      BY <3>1
    <3>3. v - Len(s) + (m + i - 1) - 1 = v - k + i - 1
      BY <1>1
    <3> QED
      BY <3>1, <3>2, <3>3
  <2> QED
    BY <2>3, <2>4, <2>5, <2>6
<1>3. CASE ~(Len(s) > k)
  BY <1>1, <1>3 DEF Suffix
<1> QED
  BY <1>2, <1>3

\* Saving the current spec of a contiguous history, and trimming it to its newest
\* entries, leaves it contiguous before the next version.
LEMMA AppendHistory ==
    ASSUME NEW o \in Object, Contiguous(o.hist, o.version)
    PROVE  /\ appendVersionHistory(o) \in Seq(Entry)
           /\ Contiguous(appendVersionHistory(o), o.version + 1)
<1>1. PICK e : e = [version |-> o.version, body |-> o.body]
  OBVIOUS
<1>2. PICK s : s = Append(o.hist, e)
  OBVIOUS
<1>3. o.hist \in Seq(Entry) /\ o.version \in Nat /\ e \in Entry /\ e.version = o.version
  BY <1>1 DEF Object, Entry
<1>4. Len(o.hist) \in Nat /\ DOMAIN o.hist = 1..Len(o.hist)
  BY <1>3, LenProperties
<1>5. s \in Seq(Entry) /\ Len(s) = Len(o.hist) + 1
  BY <1>2, <1>3, AppendProperties
<1>6. (\A i \in 1..Len(o.hist) : s[i] = o.hist[i]) /\ s[Len(o.hist) + 1] = e
  BY <1>2, <1>3, AppendProperties
<1>7. ASSUME NEW i \in 1..Len(s)
      PROVE  s[i].version = (o.version + 1) - Len(s) + i - 1
  <2>0. i \in Int /\ Len(s) \in Int
    BY <1>4, <1>5
  <2>1. CASE i = Len(o.hist) + 1
    <3>1. s[i].version = o.version
      BY <2>1, <1>3, <1>6
    <3>2. o.version = (o.version + 1) - Len(s) + i - 1
      BY <2>1, <1>3, <1>4, <1>5
    <3> QED
      BY <3>1, <3>2
  <2>2. CASE i # Len(o.hist) + 1
    <3>1. i \in 1..Len(o.hist)
      BY <2>2, <1>4, <1>5
    <3>2. o.hist[i].version = o.version - Len(o.hist) + i - 1
      BY <3>1, <1>4 DEF Contiguous
    <3>3. o.version - Len(o.hist) + i - 1 = (o.version + 1) - Len(s) + i - 1
      BY <2>0, <1>3, <1>4, <1>5
    <3>4. s[i].version = o.hist[i].version
      BY <3>1, <1>6
    <3> QED
      BY <3>2, <3>3, <3>4
  <2> QED
    BY <2>1, <2>2
<1>8. maxVersionHistory \in Nat /\ maxVersionHistory >= 1
  BY MaxVersionHistoryPositive
<1>9. PICK h : h = Suffix(s, maxVersionHistory)
  OBVIOUS
<1>10. /\ h \in Seq(Entry)
       /\ Len(h) <= maxVersionHistory
       /\ \A i \in 1..Len(h) : h[i].version = (o.version + 1) - Len(h) + i - 1
  <2>1. o.version + 1 \in Int
    BY <1>3
  <2> QED
    BY <2>1, <1>5, <1>7, <1>8, <1>9, SuffixOfLine
<1>11. DOMAIN h = 1..Len(h)
  BY <1>10, LenProperties
<1>12. appendVersionHistory(o) = h
  BY <1>1, <1>2, <1>9 DEF appendVersionHistory
<1> QED
  BY <1>10, <1>11, <1>12 DEF Contiguous

\* A policy that ApplyPolicy, or a user, creates.
LEMMA CreatedIsGood ==
    ASSUME NEW b \in Body
    PROVE  /\ Created(b) \in Object
           /\ GoodObject(Created(b), 1)
           /\ [Created(b) EXCEPT !.version = 0] \in Object
           /\ GoodObject([Created(b) EXCEPT !.version = 0], 0)
<1>1. << >> \in Seq(Entry) /\ Len(<< >>) = 0 /\ DOMAIN << >> = {}
  OBVIOUS
<1>2. maxVersionHistory \in Nat
  BY MaxVersionHistoryPositive
<1>3. {} \in Evaluation
  BY DEF Evaluation
<1>4. Created(b) \in Object /\ [Created(b) EXCEPT !.version = 0] \in Object
  BY <1>1, <1>3 DEF Created, Object, Phase, Condition
<1>5. \A v \in Nat : Contiguous(<< >>, v)
  BY <1>1, <1>2 DEF Contiguous
<1>6. Consistent(Created(b)) /\ Consistent([Created(b) EXCEPT !.version = 0])
  BY DEF Created, Consistent
<1>7. /\ Created(b).hist = << >> /\ Created(b).version = 1
      /\ [Created(b) EXCEPT !.version = 0].hist = << >>
      /\ [Created(b) EXCEPT !.version = 0].version = 0
  BY DEF Created
<1> QED
  BY <1>4, <1>5, <1>6, <1>7 DEF GoodObject

\* The object both calls send as the next version.
LEMMA RepublishedIsGood ==
    ASSUME NEW o \in Object, NEW b \in Body, NEW p, GoodObject(o, p)
    PROVE  /\ Republished(o, b) \in Object
           /\ GoodObject(Republished(o, b), p + 1)
           /\ WithStatus(Republished(o, b), o) = Republished(o, b)
<1>1. /\ appendVersionHistory(o) \in Seq(Entry)
      /\ Contiguous(appendVersionHistory(o), o.version + 1)
  BY AppendHistory DEF GoodObject
<1>2. o.version + 1 \in Nat
  BY DEF Object
<1>3. Republished(o, b) \in Object
  BY <1>1, <1>2 DEF Republished, Object
<1>4. /\ Republished(o, b).version = o.version + 1
      /\ Republished(o, b).hist = appendVersionHistory(o)
      /\ Republished(o, b).phase = o.phase
      /\ Republished(o, b).cond = o.cond
      /\ Republished(o, b).eval = o.eval
  BY DEF Republished, Object
<1>5. GoodObject(Republished(o, b), p + 1)
  BY <1>1, <1>4 DEF GoodObject, Consistent
<1>6. WithStatus(Republished(o, b), o) = Republished(o, b)
  BY <1>3, <1>4 DEF WithStatus, Object
<1> QED
  BY <1>3, <1>5, <1>6

\* A status write keeps the rest of the object, and its consistency if the status
\* written is consistent.
LEMMA WithStatusIsGood ==
    ASSUME NEW o \in Object, NEW s \in Object, NEW p, GoodObject(o, p), Consistent(s)
    PROVE  WithStatus(o, s) \in Object /\ GoodObject(WithStatus(o, s), p)
BY DEF WithStatus, Object, GoodObject, Consistent

\* The three statuses that are written.
LEMMA StatusesAreConsistent ==
    ASSUME NEW o \in Object, Consistent(o)
    PROVE  /\ Judged(o) \in Object /\ Consistent(Judged(o))
           /\ \A c \in Cost : Evaluated(o, c) \in Object /\ Consistent(Evaluated(o, c))
           /\ LET d == [o EXCEPT !.phase = DecodedPhase(o)]
              IN  d \in Object /\ Consistent(d)
<1>1. Judged(o) \in Object /\ Consistent(Judged(o))
  BY DEF Judged, Object, Consistent, Phase, Condition
<1>2. ASSUME NEW c \in Cost
      PROVE  Evaluated(o, c) \in Object /\ Consistent(Evaluated(o, c))
  <2>1. {[limit |-> o.body.monthlyLimit, cost |-> c]} \in Evaluation
    BY DEF Evaluation, Object
  <2> QED
    BY <2>1 DEF Evaluated, Object, Consistent
<1>3. LET d == [o EXCEPT !.phase = DecodedPhase(o)]
      IN  d \in Object /\ Consistent(d)
  BY DEF DecodedPhase, Object, Consistent, Phase, Condition
<1> QED
  BY <1>1, <1>2, <1>3

----------------------------------------------------------------------------
(* Single steps of a client, as far as store, cache, copies and pc go.     *)

CoreTypeOK ==
    /\ store \in [Namespace -> Object \cup {Absent}]
    /\ cache \in [Namespace -> Cached]
    /\ pc \in [Client -> PC]
    /\ copy \in [Client -> Copy]

\* What an idle handler holds is a copy, and never a current one.
LEMMA NoCopyIsCopy == NoCopy \in Copy /\ NoCopy.cur = FALSE
<1>1. (CHOOSE n \in Namespace : TRUE) \in Namespace
  BY NonEmpty
<1> QED
  BY <1>1 DEF NoCopy, Copy

\* Storing an object leaves no copy of an older one current.
LEMMA StoredStep ==
    ASSUME CoreTypeOK, Fresh,
           NEW c \in Client, NEW n \in Namespace, NEW obj \in Object \cup {Absent},
           NEW after \in Copy, NEW l \in PC,
           Stored(c, n, obj, after), Goto(c, l),
           after.cur => /\ after.ns = n /\ l = "status" /\ obj \in Object
                        /\ after.obj = [obj EXCEPT !.phase = DecodedPhase(obj)],
           l \notin {"idle", "apply"} => after.obj \in Object
    PROVE  CoreTypeOK' /\ Fresh'
<1>1. /\ store' = [store EXCEPT ![n] = obj]
      /\ cache' = [cache EXCEPT ![n].cur = FALSE]
      /\ copy' = [Outdated(n) EXCEPT ![c] = after]
      /\ pc' = [pc EXCEPT ![c] = l]
  BY DEF Stored, Goto
<1>2. ASSUME NEW d \in Client
      PROVE  /\ Outdated(n)[d] \in Copy
             /\ Outdated(n)[d].obj = copy[d].obj
             /\ Outdated(n)[d].ns = copy[d].ns
             /\ Outdated(n)[d].cur => copy[d].cur /\ copy[d].ns # n
  BY DEF Outdated, CoreTypeOK, Copy
<1>3. Outdated(n) \in [Client -> Copy]
  BY <1>2 DEF Outdated
<1>4. CoreTypeOK'
  <2>1. store' \in [Namespace -> Object \cup {Absent}]
    BY <1>1 DEF CoreTypeOK
  <2>2. cache' \in [Namespace -> Cached]
    BY <1>1 DEF CoreTypeOK, Cached
  <2>3. pc' \in [Client -> PC] /\ copy' \in [Client -> Copy]
    BY <1>1, <1>3 DEF CoreTypeOK
  <2> QED
    BY <2>1, <2>2, <2>3 DEF CoreTypeOK
<1>5. CacheFresh'
  BY <1>1 DEF CacheFresh, CoreTypeOK, Cached, Fresh
<1>6. CopyFresh'
  <2> SUFFICES ASSUME NEW d \in Client, copy'[d].cur
               PROVE  IF pc'[d] = "status"
                      THEN /\ store'[copy'[d].ns] \in Object
                           /\ copy'[d].obj = [store'[copy'[d].ns] EXCEPT
                                                !.phase = DecodedPhase(store'[copy'[d].ns])]
                      ELSE copy'[d].obj = store'[copy'[d].ns]
    BY DEF CopyFresh, DecodedPhase
  <2>1. CASE d = c
    <3>1. copy'[d] = after /\ pc'[d] = l
      BY <2>1, <1>1, <1>3 DEF CoreTypeOK
    <3>2. store'[n] = obj
      BY <1>1 DEF CoreTypeOK
    <3> QED
      BY <3>1, <3>2
  <2>2. CASE d # c
    <3>1. copy'[d] = Outdated(n)[d] /\ pc'[d] = pc[d]
      BY <2>2, <1>1, <1>3 DEF CoreTypeOK
    <3>2. copy[d].cur /\ copy[d].ns # n /\ copy'[d].obj = copy[d].obj /\ copy'[d].ns = copy[d].ns
      BY <3>1, <1>2
    <3>3. copy[d].ns \in Namespace
      BY DEF CoreTypeOK, Copy
    <3>4. store'[copy[d].ns] = store[copy[d].ns]
      BY <3>2, <3>3, <1>1 DEF CoreTypeOK
    <3> QED
      BY <3>1, <3>2, <3>4 DEF Fresh, CopyFresh
  <2> QED
    BY <2>1, <2>2
<1>7. CopyHeld'
  <2> SUFFICES ASSUME NEW d \in Client, pc'[d] \notin {"idle", "apply"}
               PROVE  copy'[d].obj \in Object
    BY DEF CopyHeld
  <2>1. CASE d = c
    BY <2>1, <1>1, <1>3 DEF CoreTypeOK
  <2>2. CASE d # c
    BY <2>2, <1>1, <1>2, <1>3 DEF CoreTypeOK, Fresh, CopyHeld
  <2> QED
    BY <2>1, <2>2
<1> QED
  BY <1>4, <1>5, <1>6, <1>7 DEF Fresh

\* A user's write, likewise.
LEMMA UserStoredStep ==
    ASSUME CoreTypeOK, Fresh,
           NEW n \in Namespace, NEW obj \in Object \cup {Absent},
           StoredByUser(n, obj), UNCHANGED pc
    PROVE  CoreTypeOK' /\ Fresh'
<1>1. /\ store' = [store EXCEPT ![n] = obj]
      /\ cache' = [cache EXCEPT ![n].cur = FALSE]
      /\ copy' = Outdated(n)
      /\ pc' = pc
  BY DEF StoredByUser
<1>2. ASSUME NEW d \in Client
      PROVE  /\ Outdated(n)[d] \in Copy
             /\ Outdated(n)[d].obj = copy[d].obj
             /\ Outdated(n)[d].ns = copy[d].ns
             /\ Outdated(n)[d].cur => copy[d].cur /\ copy[d].ns # n
  BY DEF Outdated, CoreTypeOK, Copy
<1>3. Outdated(n) \in [Client -> Copy]
  BY <1>2 DEF Outdated
<1>4. CoreTypeOK'
  <2>1. store' \in [Namespace -> Object \cup {Absent}]
    BY <1>1 DEF CoreTypeOK
  <2>2. cache' \in [Namespace -> Cached]
    BY <1>1 DEF CoreTypeOK, Cached
  <2> QED
    BY <2>1, <2>2, <1>1, <1>3 DEF CoreTypeOK
<1>5. CacheFresh'
  BY <1>1 DEF CacheFresh, CoreTypeOK, Cached, Fresh
<1>6. CopyFresh'
  <2> SUFFICES ASSUME NEW d \in Client, copy'[d].cur
               PROVE  IF pc'[d] = "status"
                      THEN /\ store'[copy'[d].ns] \in Object
                           /\ copy'[d].obj = [store'[copy'[d].ns] EXCEPT
                                                !.phase = DecodedPhase(store'[copy'[d].ns])]
                      ELSE copy'[d].obj = store'[copy'[d].ns]
    BY DEF CopyFresh, DecodedPhase
  <2>1. copy[d].cur /\ copy[d].ns # n /\ copy'[d].obj = copy[d].obj /\ copy'[d].ns = copy[d].ns
    BY <1>1, <1>2
  <2>2. copy[d].ns \in Namespace
    BY DEF CoreTypeOK, Copy
  <2>3. store'[copy[d].ns] = store[copy[d].ns]
    BY <2>1, <2>2, <1>1 DEF CoreTypeOK
  <2> QED
    BY <2>1, <2>3, <1>1 DEF Fresh, CopyFresh
<1>7. CopyHeld'
  BY <1>1, <1>2 DEF Fresh, CopyHeld
<1> QED
  BY <1>4, <1>5, <1>6, <1>7 DEF Fresh

\* A handler that ends without a write.
LEMMA NotStoredStep ==
    ASSUME CoreTypeOK, Fresh, NEW c \in Client, NotStored(c, NoCopy), Goto(c, "idle")
    PROVE  CoreTypeOK' /\ Fresh'
<1>1. /\ store' = store /\ cache' = cache
      /\ copy' = [copy EXCEPT ![c] = NoCopy]
      /\ pc' = [pc EXCEPT ![c] = "idle"]
  BY DEF NotStored, Goto
<1>2. CoreTypeOK'
  BY <1>1, NoCopyIsCopy DEF CoreTypeOK, PC
<1>3. ASSUME NEW d \in Client
      PROVE  \/ d = c /\ copy'[d].cur = FALSE /\ pc'[d] = "idle"
             \/ d # c /\ copy'[d] = copy[d] /\ pc'[d] = pc[d]
  BY <1>1, NoCopyIsCopy DEF CoreTypeOK
<1>4. CacheFresh' /\ CopyHeld'
  BY <1>1, <1>3 DEF Fresh, CacheFresh, CopyHeld
<1>5. CopyFresh'
  <2> SUFFICES ASSUME NEW d \in Client, copy'[d].cur
               PROVE  IF pc'[d] = "status"
                      THEN /\ store[copy'[d].ns] \in Object
                           /\ copy'[d].obj = [store[copy'[d].ns] EXCEPT
                                                !.phase = DecodedPhase(store[copy'[d].ns])]
                      ELSE copy'[d].obj = store[copy'[d].ns]
    <3>1. store' = store
      BY <1>1
    <3> QED
      BY <3>1 DEF CopyFresh, DecodedPhase
  <2>1. d # c /\ copy'[d] = copy[d] /\ pc'[d] = pc[d]
    BY <1>3
  <2> QED
    BY <2>1 DEF Fresh, CopyFresh
<1> QED
  BY <1>2, <1>4, <1>5 DEF Fresh

\* A handler's read of the cache.
LEMMA ReadStep ==
    ASSUME CoreTypeOK, Fresh, NEW c \in Client, NEW n \in Namespace, NEW l \in PC,
           copy' = [copy EXCEPT ![c] = Get(n)], Goto(c, l), UNCHANGED <<store, cache>>,
           l # "status", l \notin {"idle", "apply"} => cache[n].obj \in Object
    PROVE  CoreTypeOK' /\ Fresh'
<1>1. Get(n) \in Copy /\ Get(n).ns = n /\ Get(n).obj = cache[n].obj /\ Get(n).cur = cache[n].cur
  BY DEF Get, Copy, CoreTypeOK, Cached
<1>2. /\ store' = store /\ cache' = cache
      /\ copy' = [copy EXCEPT ![c] = Get(n)]
      /\ pc' = [pc EXCEPT ![c] = l]
  BY DEF Goto
<1>3. CoreTypeOK'
  BY <1>1, <1>2 DEF CoreTypeOK
<1>4. ASSUME NEW d \in Client
      PROVE  \/ d = c /\ copy'[d] = Get(n) /\ pc'[d] = l
             \/ d # c /\ copy'[d] = copy[d] /\ pc'[d] = pc[d]
  BY <1>2 DEF CoreTypeOK
<1>5. CacheFresh' /\ CopyHeld'
  <2>1. CacheFresh'
    BY <1>2 DEF Fresh, CacheFresh
  <2>2. ASSUME NEW d \in Client, pc'[d] \notin {"idle", "apply"}
        PROVE  copy'[d].obj \in Object
    <3>1. CASE d = c
      BY <3>1, <2>2, <1>1, <1>4
    <3>2. CASE d # c
      BY <3>2, <2>2, <1>4 DEF Fresh, CopyHeld
    <3> QED
      BY <3>1, <3>2
  <2> QED
    BY <2>1, <2>2 DEF CopyHeld
<1>6. CopyFresh'
  <2> SUFFICES ASSUME NEW d \in Client, copy'[d].cur
               PROVE  IF pc'[d] = "status"
                      THEN /\ store[copy'[d].ns] \in Object
                           /\ copy'[d].obj = [store[copy'[d].ns] EXCEPT
                                                !.phase = DecodedPhase(store[copy'[d].ns])]
                      ELSE copy'[d].obj = store[copy'[d].ns]
    BY <1>2 DEF CopyFresh, DecodedPhase
  <2>1. CASE d = c
    BY <2>1, <1>1, <1>4 DEF Fresh, CacheFresh
  <2>2. CASE d # c
    BY <2>2, <1>4 DEF Fresh, CopyFresh
  <2> QED
    BY <2>1, <2>2
<1> QED
  BY <1>3, <1>5, <1>6 DEF Fresh

\* A step inside a handler that touches neither the copy nor the store.
LEMMA MoveStep ==
    ASSUME CoreTypeOK, Fresh, NEW c \in Client, NEW l \in PC \ {"status"},
           pc[c] \notin {"idle", "apply", "status"}, Goto(c, l), UNCHANGED <<store, cache, copy>>
    PROVE  CoreTypeOK' /\ Fresh'
<1>1. pc' = [pc EXCEPT ![c] = l] /\ store' = store /\ cache' = cache /\ copy' = copy
  BY DEF Goto
<1>2. CoreTypeOK'
  BY <1>1 DEF CoreTypeOK
<1>3. ASSUME NEW d \in Client
      PROVE  \/ d = c /\ pc'[d] # "status" /\ pc[d] \notin {"idle", "apply", "status"}
             \/ d # c /\ pc'[d] = pc[d]
  BY <1>1 DEF CoreTypeOK
<1>4. CacheFresh' /\ CopyHeld'
  BY <1>1, <1>3 DEF Fresh, CacheFresh, CopyHeld
<1>5. CopyFresh'
  <2> SUFFICES ASSUME NEW d \in Client, copy[d].cur
               PROVE  IF pc'[d] = "status"
                      THEN /\ store[copy[d].ns] \in Object
                           /\ copy[d].obj = [store[copy[d].ns] EXCEPT
                                               !.phase = DecodedPhase(store[copy[d].ns])]
                      ELSE copy[d].obj = store[copy[d].ns]
    BY <1>1 DEF CopyFresh, DecodedPhase
  <2> QED
    BY <1>3 DEF Fresh, CopyFresh
<1> QED
  BY <1>2, <1>4, <1>5 DEF Fresh

----------------------------------------------------------------------------
(* The steps of the specification preserve the inductive invariant.        *)

Rest ==
    /\ queue \in [Controller -> SUBSET Namespace]
    /\ arg \in [Caller -> Body]
    /\ published \in [Namespace -> Nat]
    /\ cost \in [TargetNamespace -> Cost]
    /\ currentCost \in Cost
    /\ effects \subseteq Effect
    /\ edits \in Nat
    /\ crashes \in Nat

\* The type invariant, split into what the handlers share and the rest.
LEMMA TypeParts == (TypeOK <=> CoreTypeOK /\ Rest) /\ (TypeOK' <=> CoreTypeOK' /\ Rest')
BY DEF TypeOK, StoreTypeOK, ManagerTypeOK, OrchestratorTypeOK, CoreTypeOK, Rest

\* The values chosen for idle calls and evaluations have their types.
LEMMA Constants == NoArg \in Body /\ NoCost \in Cost
BY NonEmpty DEF NoArg, NoCost

\* An object stored together with the publishes counted for it.
LEMMA ObjectStored ==
    ASSUME CoreTypeOK, ObjectsGood, NEW n \in Namespace, NEW obj,
           store' = [store EXCEPT ![n] = obj],
           \A m \in Namespace \ {n} : published'[m] = published[m],
           obj # Absent => GoodObject(obj, published'[n])
    PROVE  ObjectsGood'
<1> SUFFICES ASSUME NEW m \in Namespace, store'[m] # Absent
             PROVE  GoodObject(store'[m], published'[m])
  BY DEF ObjectsGood, Present, GoodObject, Contiguous, Consistent
<1>1. CASE m = n
  BY <1>1 DEF CoreTypeOK
<1>2. CASE m # n
  BY <1>2 DEF CoreTypeOK, ObjectsGood, Present
<1> QED
  BY <1>1, <1>2

\* A step that neither stores nor publishes leaves every object good.
LEMMA ObjectsUnchanged ==
    ASSUME ObjectsGood, UNCHANGED <<store, published>>
    PROVE  ObjectsGood'
BY DEF ObjectsGood, Present, GoodObject, Contiguous, Consistent

\* An accepted write starts from the stored object.
LEMMA AcceptedCopy ==
    ASSUME CoreTypeOK, Fresh, NEW c \in Client, Accepts(c), copy[c].obj # Absent
    PROVE  /\ copy[c].ns \in Namespace
           /\ store[copy[c].ns] \in Object
           /\ pc[c] # "status" => copy[c].obj = store[copy[c].ns]
           /\ pc[c] = "status" =>
                copy[c].obj = [store[copy[c].ns] EXCEPT !.phase = DecodedPhase(store[copy[c].ns])]
<1>1. copy[c].cur /\ copy[c] \in Copy /\ copy[c].ns \in Namespace /\ copy[c].obj \in Object
  BY DEF Accepts, CoreTypeOK, Copy
<1> QED
  BY <1>1 DEF Fresh, CopyFresh

\* An accepted status update, by whichever writer.
LEMMA StatusStep ==
    ASSUME CoreTypeOK, Fresh, ObjectsGood, NEW c \in Client, NEW moved,
           NEW s \in Object, Consistent(s), copy[c].obj # Absent, store[copy[c].ns] # Absent,
           UpdateStatus(c, s, moved), Goto(c, "idle"), UNCHANGED published
    PROVE  CoreTypeOK' /\ Fresh' /\ ObjectsGood'
<1> DEFINE n == copy[c].ns
           new == WithStatus(store[n], s)
<1>1. n \in Namespace /\ store[n] \in Object
  BY AcceptedCopy DEF UpdateStatus
<1>2. GoodObject(store[n], published[n])
  BY <1>1 DEF ObjectsGood, Present
<1>3. new \in Object /\ GoodObject(new, published[n])
  BY <1>1, <1>2, WithStatusIsGood
<1>4. NoCopy \in Copy /\ ~NoCopy.cur /\ "idle" \in PC
  BY NoCopyIsCopy DEF PC
<1>5. \/ Stored(c, n, new, NoCopy)
      \/ NotStored(c, NoCopy)
  BY DEF UpdateStatus
<1>6. CASE Stored(c, n, new, NoCopy)
  <2>1. CoreTypeOK' /\ Fresh'
    <3> HIDE DEF new
    <3> QED
      BY <1>1, <1>3, <1>4, <1>6, StoredStep
  <2>2. ObjectsGood'
    <3>1. store' = [store EXCEPT ![n] = new]
      BY <1>6 DEF Stored
    <3>2. published' = published
      OBVIOUS
    <3> HIDE DEF new
    <3> QED
      BY <3>1, <3>2, <1>1, <1>3, ObjectStored
  <2> QED
    BY <2>1, <2>2
<1>7. CASE NotStored(c, NoCopy)
  <2>1. CoreTypeOK' /\ Fresh'
    BY <1>7, NotStoredStep
  <2>2. UNCHANGED <<store, published>>
    BY <1>7 DEF NotStored
  <2> QED
    BY <2>1, <2>2, ObjectsUnchanged
<1> QED
  BY <1>5, <1>6, <1>7

\* ApplyPolicy and RollbackPolicy.
LEMMA ManagerStep ==
    ASSUME IInv, Calls
    PROVE  IInv'
<1>0. CoreTypeOK /\ Rest /\ Fresh /\ ObjectsGood
  BY TypeParts DEF IInv
<1>a. UNCHANGED <<cost, currentCost, effects, edits, crashes>> /\ UNCHANGED queue
  BY DEF Calls, orchestratorVars, budgetVars, ManagerNext, ApplyStart, ApplyCommit, RollbackStart,
         RollbackCommit, RollbackStatus, CallFails
<1> SUFFICES ASSUME NEW c \in Caller,
                    \/ \E n \in Namespace :
                          \/ \E b \in Body : ApplyStart(c, n, b)
                          \/ \E v \in 0..MaxPublish : RollbackStart(c, n, v)
                    \/ ApplyCommit(c)
                    \/ \E answered \in BOOLEAN : RollbackCommit(c, answered)
                    \/ RollbackStatus(c)
                    \/ CallFails(c)
             PROVE  /\ CoreTypeOK' /\ Fresh' /\ ObjectsGood'
                    /\ arg' \in [Caller -> Body] /\ published' \in [Namespace -> Nat]
  <2>1. PICK c \in Caller :
           \/ \E n \in Namespace :
                 \/ \E b \in Body : ApplyStart(c, n, b)
                 \/ \E v \in 0..MaxPublish : RollbackStart(c, n, v)
           \/ ApplyCommit(c)
           \/ \E answered \in BOOLEAN : RollbackCommit(c, answered)
           \/ RollbackStatus(c)
           \/ CallFails(c)
    BY DEF Calls, ManagerNext
  <2>2. CoreTypeOK' /\ Fresh' /\ ObjectsGood'
        /\ arg' \in [Caller -> Body] /\ published' \in [Namespace -> Nat]
    BY <2>1
  <2>3. Rest'
    BY <2>2, <1>0, <1>a DEF Rest
  <2> QED
    BY <2>2, <2>3, TypeParts DEF IInv
<1>b. c \in Client
  BY DEF Client
<1>c. arg[c] \in Body /\ arg \in [Caller -> Body] /\ published \in [Namespace -> Nat] /\ NoArg \in Body
  BY <1>0, Constants DEF Rest
<1>d. NoCopy \in Copy /\ ~NoCopy.cur /\ "idle" \in PC /\ "status" \in PC
  BY NoCopyIsCopy DEF PC
<1>e. copy[c] \in Copy /\ copy[c].ns \in Namespace /\ copy[c].obj \in Object \cup {Absent}
  BY <1>0, <1>b DEF CoreTypeOK, Copy
<1>1. ASSUME NEW n \in Namespace, NEW b \in Body, ApplyStart(c, n, b)
      PROVE  /\ CoreTypeOK' /\ Fresh' /\ ObjectsGood'
             /\ arg' \in [Caller -> Body] /\ published' \in [Namespace -> Nat]
  <2>1. /\ copy' = [copy EXCEPT ![c] = Get(n)] /\ Goto(c, "apply")
        /\ UNCHANGED <<store, cache, published>>
        /\ arg' = [arg EXCEPT ![c] = b]
    BY <1>1 DEF ApplyStart
  <2>2. CoreTypeOK' /\ Fresh'
    <3>1. "apply" \in PC /\ "apply" # "status"
      BY DEF PC
    <3> QED
      BY <2>1, <3>1, <1>0, <1>b, ReadStep
  <2>3. ObjectsGood'
    BY <2>1, <1>0, ObjectsUnchanged
  <2> QED
    BY <2>1, <2>2, <2>3, <1>c
<1>2. ASSUME NEW n \in Namespace, NEW v \in 0..MaxPublish, RollbackStart(c, n, v)
      PROVE  /\ CoreTypeOK' /\ Fresh' /\ ObjectsGood'
             /\ arg' \in [Caller -> Body] /\ published' \in [Namespace -> Nat]
  <2>1. /\ copy' = [copy EXCEPT ![c] = Get(n)] /\ Goto(c, "rollback")
        /\ UNCHANGED <<store, cache, published>>
        /\ cache[n].obj # Absent
    BY <1>2 DEF RollbackStart, findPolicyByName
  <2>2. cache[n].obj \in Object
    BY <2>1, <1>0 DEF CoreTypeOK, Cached
  <2>3. PICK i \in EntriesOf(cache[n].obj, v) : arg' = [arg EXCEPT ![c] = cache[n].obj.hist[i].body]
    BY <1>2 DEF RollbackStart, findPolicyByName
  <2>4. cache[n].obj.hist[i].body \in Body
    <3>1. cache[n].obj.hist \in Seq(Entry) /\ i \in DOMAIN cache[n].obj.hist
      BY <2>2 DEF Object, EntriesOf
    <3>2. cache[n].obj.hist[i] \in Entry
      BY <3>1
    <3> QED
      BY <3>2 DEF Entry
  <2>5. CoreTypeOK' /\ Fresh'
    <3>1. "rollback" \in PC /\ "rollback" # "status"
      BY DEF PC
    <3> QED
      BY <2>1, <2>2, <3>1, <1>0, <1>b, ReadStep
  <2>6. ObjectsGood'
    BY <2>1, <1>0, ObjectsUnchanged
  <2> QED
    BY <2>1, <2>3, <2>4, <2>5, <2>6, <1>c
<1>3. ASSUME ApplyCommit(c)
      PROVE  /\ CoreTypeOK' /\ Fresh' /\ ObjectsGood'
             /\ arg' \in [Caller -> Body] /\ published' \in [Namespace -> Nat]
  <2> DEFINE n == copy[c].ns
  <2>1. Goto(c, "idle") /\ arg' = [arg EXCEPT ![c] = NoArg] /\ Accepts(c) /\ pc[c] = "apply"
    BY <1>3 DEF ApplyCommit, Finish
  <2>2. CASE copy[c].obj = Absent
    <3>1. Stored(c, n, Created(arg[c]), NoCopy) /\ published' = [published EXCEPT ![n] = 1]
      BY <2>2, <1>3 DEF ApplyCommit
    <3>2. Created(arg[c]) \in Object /\ GoodObject(Created(arg[c]), 1)
      BY <1>c, CreatedIsGood
    <3>3. CoreTypeOK' /\ Fresh'
      BY <3>1, <3>2, <2>1, <1>0, <1>b, <1>d, <1>e, StoredStep
    <3>4. store' = [store EXCEPT ![n] = Created(arg[c])]
      BY <3>1 DEF Stored
    <3>5. published' \in [Namespace -> Nat] /\ published'[n] = 1
          /\ \A m \in Namespace \ {n} : published'[m] = published[m]
      BY <3>1, <1>c, <1>e
    <3>6. ObjectsGood'
      BY <3>2, <3>4, <3>5, <1>0, <1>e, ObjectStored
    <3> QED
      BY <3>3, <3>5, <3>6, <2>1, <1>c
  <2>3. CASE copy[c].obj # Absent
    <3> DEFINE new == WithStatus(Republished(copy[c].obj, arg[c]), store[n])
    <3>1. Stored(c, n, new, NoCopy) /\ published' = [published EXCEPT ![n] = @ + 1]
      BY <2>3, <1>3 DEF ApplyCommit
    <3>2. copy[c].obj = store[n] /\ store[n] \in Object
      BY <2>1, <2>3, <1>0, <1>b, AcceptedCopy
    <3>3. GoodObject(store[n], published[n])
      BY <3>2, <2>3, <1>0, <1>e DEF ObjectsGood, Present
    <3>4. new \in Object /\ GoodObject(new, published[n] + 1)
      BY <3>2, <3>3, <1>c, RepublishedIsGood
    <3>5. store' = [store EXCEPT ![n] = new]
      BY <3>1 DEF Stored
    <3>6. published' \in [Namespace -> Nat] /\ published'[n] = published[n] + 1
          /\ \A m \in Namespace \ {n} : published'[m] = published[m]
      BY <3>1, <1>c, <1>e
    <3> HIDE DEF new
    <3>7. CoreTypeOK' /\ Fresh'
      BY <3>1, <3>4, <2>1, <1>0, <1>b, <1>d, <1>e, StoredStep
    <3>8. ObjectsGood'
      BY <3>4, <3>5, <3>6, <1>0, <1>e, ObjectStored
    <3> QED
      BY <3>6, <3>7, <3>8, <2>1, <1>c
  <2> QED
    BY <2>2, <2>3
<1>4. ASSUME NEW answered \in BOOLEAN, RollbackCommit(c, answered)
      PROVE  /\ CoreTypeOK' /\ Fresh' /\ ObjectsGood'
             /\ arg' \in [Caller -> Body] /\ published' \in [Namespace -> Nat]
  <2> DEFINE n == copy[c].ns
             new == WithStatus(Republished(copy[c].obj, arg[c]), store[n])
             decoded == [new EXCEPT !.phase = DecodedPhase(new)]
             after == [ns |-> n, obj |-> decoded, cur |-> TRUE]
  <2>1. /\ pc[c] = "rollback" /\ Accepts(c) /\ published' = [published EXCEPT ![n] = @ + 1]
        /\ \/ Stored(c, n, new, after) /\ Goto(c, "status") /\ UNCHANGED arg
           \/ Stored(c, n, new, NoCopy) /\ Goto(c, "idle") /\ arg' = [arg EXCEPT ![c] = NoArg]
    BY <1>4 DEF RollbackCommit, Finish
  <2>2. copy[c].obj \in Object
    BY <2>1, <1>0, <1>b DEF Fresh, CopyHeld
  <2>3. copy[c].obj = store[n] /\ store[n] \in Object /\ store[n] # Absent
    BY <2>1, <2>2, <1>0, <1>b, AcceptedCopy, AbsentIsNoObject
  <2>4. GoodObject(store[n], published[n])
    BY <2>3, <1>0, <1>e DEF ObjectsGood, Present
  <2>5. new \in Object /\ GoodObject(new, published[n] + 1)
    BY <2>3, <2>4, <1>c, RepublishedIsGood
  <2>6. decoded \in Object
    BY <2>5, StatusesAreConsistent DEF GoodObject
  <2>7. published' \in [Namespace -> Nat] /\ published'[n] = published[n] + 1
        /\ \A m \in Namespace \ {n} : published'[m] = published[m]
    BY <2>1, <1>c, <1>e
  <2>8. after \in Copy /\ after.ns = n /\ after.obj = decoded
    BY <2>6, <1>e DEF Copy
  <2>9. CoreTypeOK' /\ Fresh'
    <3>1. CASE Stored(c, n, new, after) /\ Goto(c, "status")
      <4>1. after.obj = [new EXCEPT !.phase = DecodedPhase(new)]
        BY <2>8
      <4> HIDE DEF new, decoded, after
      <4> QED
        BY <4>1, <3>1, <2>5, <2>6, <2>8, <1>0, <1>b, <1>d, <1>e, StoredStep
    <3>2. CASE Stored(c, n, new, NoCopy) /\ Goto(c, "idle")
      <4> HIDE DEF new
      <4> QED
        BY <3>2, <2>5, <1>0, <1>b, <1>d, <1>e, StoredStep
    <3> QED
      BY <3>1, <3>2, <2>1
  <2>10. store' = [store EXCEPT ![n] = new] /\ arg' \in [Caller -> Body]
    BY <2>1, <1>c DEF Stored
  <2>11. ObjectsGood'
    <3> HIDE DEF new
    <3> QED
      BY <2>5, <2>7, <2>10, <1>0, <1>e, ObjectStored
  <2> QED
    BY <2>7, <2>9, <2>10, <2>11
<1>5. ASSUME RollbackStatus(c)
      PROVE  /\ CoreTypeOK' /\ Fresh' /\ ObjectsGood'
             /\ arg' \in [Caller -> Body] /\ published' \in [Namespace -> Nat]
  <2> DEFINE n == copy[c].ns
  <2>1. /\ pc[c] = "status" /\ UpdateStatus(c, copy[c].obj, FALSE) /\ Goto(c, "idle")
        /\ arg' = [arg EXCEPT ![c] = NoArg] /\ published' = published /\ Accepts(c)
    BY <1>5 DEF RollbackStatus, Finish, UpdateStatus
  <2>2. copy[c].obj \in Object
    BY <2>1, <1>0, <1>b DEF Fresh, CopyHeld
  <2>3. /\ copy[c].obj # Absent
        /\ store[n] \in Object /\ store[n] # Absent
        /\ copy[c].obj = [store[n] EXCEPT !.phase = DecodedPhase(store[n])]
    BY <2>1, <2>2, <1>0, <1>b, AcceptedCopy, AbsentIsNoObject
  <2>4. Consistent(store[n])
    BY <2>3, <1>0, <1>e DEF ObjectsGood, Present, GoodObject
  <2>5. Consistent(copy[c].obj)
    BY <2>3, <2>4, StatusesAreConsistent
  <2>6. CoreTypeOK' /\ Fresh' /\ ObjectsGood'
    <3>1. PICK s : s = copy[c].obj
      OBVIOUS
    <3>2. s \in Object /\ Consistent(s) /\ UpdateStatus(c, s, FALSE)
      BY <3>1, <2>1, <2>2, <2>5
    <3> QED
      BY <3>2, <2>1, <2>3, <1>0, <1>b, StatusStep
  <2> QED
    BY <2>1, <2>6, <1>c
<1>6. ASSUME CallFails(c)
      PROVE  /\ CoreTypeOK' /\ Fresh' /\ ObjectsGood'
             /\ arg' \in [Caller -> Body] /\ published' \in [Namespace -> Nat]
  <2>1. NotStored(c, NoCopy) /\ Goto(c, "idle") /\ arg' = [arg EXCEPT ![c] = NoArg]
        /\ UNCHANGED <<store, published>>
    BY <1>6 DEF CallFails, Finish, NotStored
  <2>2. CoreTypeOK' /\ Fresh'
    BY <2>1, <1>0, <1>b, NotStoredStep
  <2>3. ObjectsGood'
    BY <2>1, <1>0, ObjectsUnchanged
  <2> QED
    BY <2>1, <2>2, <2>3, <1>c
<1> QED
  BY <1>1, <1>2, <1>3, <1>4, <1>5, <1>6

\* A step that leaves objects, cache and handlers alone.
LEMMA CoreUnchanged ==
    ASSUME CoreTypeOK, Fresh, UNCHANGED <<store, cache, pc, copy>>
    PROVE  CoreTypeOK' /\ Fresh'
<1>1. CoreTypeOK'
  BY DEF CoreTypeOK
<1>2. CacheFresh' /\ CopyHeld'
  BY DEF Fresh, CacheFresh, CopyHeld
<1>3. CopyFresh'
  <2> SUFFICES ASSUME NEW d \in Client, copy[d].cur
               PROVE  IF pc[d] = "status"
                      THEN /\ store[copy[d].ns] \in Object
                           /\ copy[d].obj = [store[copy[d].ns] EXCEPT
                                               !.phase = DecodedPhase(store[copy[d].ns])]
                      ELSE copy[d].obj = store[copy[d].ns]
    BY DEF CopyFresh, DecodedPhase
  <2> QED
    BY DEF Fresh, CopyFresh
<1> QED
  BY <1>1, <1>2, <1>3 DEF Fresh

\* The cache catches up.
LEMMA SyncStep ==
    ASSUME IInv, NEW n \in Namespace, Sync(n)
    PROVE  IInv'
<1>0. CoreTypeOK /\ Rest /\ Fresh /\ ObjectsGood
  BY TypeParts DEF IInv
<1>1. /\ cache' = [cache EXCEPT ![n] = [obj |-> store[n], cur |-> TRUE]]
      /\ queue' = [c \in Controller |-> queue[c] \cup {n}]
      /\ store' = store /\ pc' = pc /\ copy' = copy
      /\ UNCHANGED <<arg, published, cost, currentCost, effects, edits, crashes>>
  BY DEF Sync, CacheSync, managerVars, orchestratorVars, budgetVars
<1>2. [obj |-> store[n], cur |-> TRUE] \in Cached
  BY <1>0 DEF CoreTypeOK, Cached
<1>3. CoreTypeOK'
  BY <1>0, <1>1, <1>2 DEF CoreTypeOK
<1>4. CacheFresh'
  <2> SUFFICES ASSUME NEW m \in Namespace, cache'[m].cur
               PROVE  cache'[m].obj = store[m]
    BY <1>1 DEF CacheFresh
  <2>1. CASE m = n
    BY <2>1, <1>0, <1>1 DEF CoreTypeOK
  <2>2. CASE m # n
    BY <2>2, <1>0, <1>1 DEF CoreTypeOK, Fresh, CacheFresh
  <2> QED
    BY <2>1, <2>2
<1>5. CopyHeld'
  BY <1>0, <1>1 DEF Fresh, CopyHeld
<1>6. CopyFresh'
  <2> SUFFICES ASSUME NEW d \in Client, copy[d].cur
               PROVE  IF pc[d] = "status"
                      THEN /\ store[copy[d].ns] \in Object
                           /\ copy[d].obj = [store[copy[d].ns] EXCEPT
                                               !.phase = DecodedPhase(store[copy[d].ns])]
                      ELSE copy[d].obj = store[copy[d].ns]
    <3>1. store' = store /\ pc' = pc /\ copy' = copy
      BY <1>1
    <3> QED
      BY <3>1 DEF CopyFresh, DecodedPhase
  <2> QED
    BY <1>0 DEF Fresh, CopyFresh
<1>7. Rest'
  <2>1. queue' \in [Controller -> SUBSET Namespace]
    BY <1>0, <1>1 DEF Rest
  <2> QED
    BY <2>1, <1>0, <1>1 DEF Rest
<1>8. ObjectsGood'
  BY <1>0, <1>1, ObjectsUnchanged
<1> QED
  BY <1>3, <1>4, <1>5, <1>6, <1>7, <1>8, TypeParts DEF IInv, Fresh

\* A reconciler's status update, of what it computed from the copy it read.
LEMMA ReconcilerWriteStep ==
    ASSUME CoreTypeOK, Fresh, ObjectsGood, NEW c \in Client, NEW moved, NEW s,
           pc[c] = "write", UpdateStatus(c, s, moved), Goto(c, "idle"), UNCHANGED published,
           copy[c].obj \in Object /\ Consistent(copy[c].obj) => s \in Object /\ Consistent(s)
    PROVE  CoreTypeOK' /\ Fresh' /\ ObjectsGood'
<1>1. copy[c].obj \in Object /\ copy[c].obj # Absent
  BY AbsentIsNoObject DEF Fresh, CopyHeld
<1>2. Accepts(c)
  BY DEF UpdateStatus
<1>3. copy[c].ns \in Namespace /\ store[copy[c].ns] \in Object /\ copy[c].obj = store[copy[c].ns]
  BY <1>1, <1>2, AcceptedCopy
<1>4. Consistent(copy[c].obj)
  BY <1>1, <1>3 DEF ObjectsGood, Present, GoodObject
<1> QED
  BY <1>1, <1>3, <1>4, StatusStep

\* PolicyReconciler.
LEMMA ValidationStep ==
    ASSUME IInv, Validation
    PROVE  IInv'
<1>0. CoreTypeOK /\ Rest /\ Fresh /\ ObjectsGood
  BY TypeParts DEF IInv
<1>a. /\ "policy" \in Controller /\ "policy" \in Client
      /\ UNCHANGED <<arg, published, cost, currentCost, effects, edits, crashes>>
  BY DEF Validation, PolicyReconcilerNext, managerVars, orchestratorVars, budgetVars, Client
<1>b. copy["policy"].ns \in Namespace
  BY <1>0, <1>a DEF CoreTypeOK, Copy
<1>1. ASSUME CoreTypeOK', Fresh', ObjectsGood', queue' \in [Controller -> SUBSET Namespace]
      PROVE  IInv'
  <2>1. Rest'
    BY <1>0, <1>a, <1>1 DEF Rest
  <2> QED
    BY <1>1, <2>1, TypeParts DEF IInv
<1>2. ASSUME NEW n \in Namespace, PolicyRead(n)
      PROVE  IInv'
  <2>1. store' = store /\ cache' = cache /\ published' = published
    BY <1>2, <1>a DEF PolicyRead
  <2>2. queue' \in [Controller -> SUBSET Namespace]
    BY <1>0, <1>2 DEF PolicyRead, Dequeue, Rest
  <2>3. CoreTypeOK' /\ Fresh'
    <3>1. CASE UNCHANGED <<copy, pc>>
      BY <3>1, <2>1, <1>0, CoreUnchanged
    <3>2. CASE /\ cache[n].obj # Absent
               /\ copy' = [copy EXCEPT !["policy"] = Get(n)]
               /\ Goto("policy", "write")
      <4>1. cache[n].obj \in Object
        BY <3>2, <1>0 DEF CoreTypeOK, Cached
      <4>2. "write" \in PC /\ "write" # "status"
        BY DEF PC
      <4> QED
        BY <4>1, <4>2, <3>2, <2>1, <1>0, <1>a, ReadStep
    <3> QED
      BY <3>1, <3>2, <1>2 DEF PolicyRead
  <2>4. ObjectsGood'
    BY <2>1, <1>0, ObjectsUnchanged
  <2> QED
    BY <2>2, <2>3, <2>4, <1>1
<1>3. ASSUME NEW moved \in BOOLEAN, NEW ok \in BOOLEAN, PolicyWrite(moved, ok)
      PROVE  IInv'
  <2>1. /\ pc["policy"] = "write" /\ Goto("policy", "idle")
        /\ UpdateStatus("policy", Judged(copy["policy"].obj), moved)
    BY <1>3 DEF PolicyWrite, Return
  <2>2. queue' \in [Controller -> SUBSET Namespace]
    BY <1>0, <1>3, <1>b DEF PolicyWrite, Return, Rest
  <2>3. PICK s : s = Judged(copy["policy"].obj)
    OBVIOUS
  <2>4. copy["policy"].obj \in Object /\ Consistent(copy["policy"].obj) => s \in Object /\ Consistent(s)
    BY <2>3, StatusesAreConsistent
  <2>5. CoreTypeOK' /\ Fresh' /\ ObjectsGood'
    BY <2>1, <2>3, <2>4, <1>0, <1>a, ReconcilerWriteStep
  <2> QED
    BY <2>2, <2>5, <1>1
<1>4. ASSUME PolicyWriteFails
      PROVE  IInv'
  <2>1. NotStored("policy", NoCopy) /\ Goto("policy", "idle") /\ UNCHANGED <<store, published>>
    BY <1>4, <1>a DEF PolicyWriteFails, Return, NotStored
  <2>2. queue' \in [Controller -> SUBSET Namespace]
    BY <1>0, <1>4, <1>b DEF PolicyWriteFails, Return, Rest
  <2>3. CoreTypeOK' /\ Fresh' /\ ObjectsGood'
    BY <2>1, <1>0, <1>a, NotStoredStep, ObjectsUnchanged
  <2> QED
    BY <2>2, <2>3, <1>1
<1> QED
  BY <1>2, <1>3, <1>4 DEF Validation, PolicyReconcilerNext

\* OrchestratorReconciler.
LEMMA EvaluatingStep ==
    ASSUME IInv, Evaluating
    PROVE  IInv'
<1> DEFINE O == "orchestrator"
<1>0. CoreTypeOK /\ Rest /\ Fresh /\ ObjectsGood
  BY TypeParts DEF IInv
<1>a. /\ O \in Controller /\ O \in Client
      /\ UNCHANGED <<arg, published, edits, crashes>>
  BY DEF Evaluating, OrchestratorNext, managerVars, budgetVars, Client
<1>b. copy[O].ns \in Namespace
  BY <1>0, <1>a DEF CoreTypeOK, Copy
<1>c. NoCost \in Cost
  BY Constants
<1>1. ASSUME CoreTypeOK', Fresh', ObjectsGood', queue' \in [Controller -> SUBSET Namespace],
             cost' = cost, currentCost' \in Cost, effects' \subseteq Effect
      PROVE  IInv'
  <2>1. Rest'
    BY <1>0, <1>a, <1>1 DEF Rest
  <2> QED
    BY <1>1, <2>1, TypeParts DEF IInv
<1>2. ASSUME NEW n \in Namespace, OrcRead(n)
      PROVE  IInv'
  <2>1. /\ store' = store /\ cache' = cache /\ published' = published
        /\ cost' = cost /\ currentCost' \in Cost /\ effects' \subseteq Effect
    BY <1>0, <1>2, <1>a DEF OrcRead, orchestratorVars, Rest
  <2>2. queue' \in [Controller -> SUBSET Namespace]
    BY <1>0, <1>2 DEF OrcRead, Dequeue, Rest
  <2>3. CoreTypeOK' /\ Fresh'
    <3>1. CASE UNCHANGED <<copy, pc>>
      BY <3>1, <2>1, <1>0, CoreUnchanged
    <3>2. CASE /\ cache[n].obj # Absent
               /\ copy' = [copy EXCEPT ![O] = Get(n)]
               /\ Goto(O, "query")
      <4>1. cache[n].obj \in Object
        BY <3>2, <1>0 DEF CoreTypeOK, Cached
      <4>2. "query" \in PC /\ "query" # "status"
        BY DEF PC
      <4> QED
        BY <4>1, <4>2, <3>2, <2>1, <1>0, <1>a, ReadStep
    <3> QED
      BY <3>1, <3>2, <1>2 DEF OrcRead
  <2>4. ObjectsGood'
    BY <2>1, <1>0, ObjectsUnchanged
  <2> QED
    BY <2>1, <2>2, <2>3, <2>4, <1>1
<1>3. ASSUME NEW l \in PC \ {"status"}, pc[O] \in {"query", "breach", "optimize"}, Goto(O, l),
             UNCHANGED <<store, cache, queue, copy, cost>>,
             currentCost' \in Cost, effects' \subseteq Effect
      PROVE  IInv'
  <2>1. CoreTypeOK' /\ Fresh'
    BY <1>0, <1>a, <1>3, MoveStep
  <2>2. ObjectsGood'
    BY <1>0, <1>a, <1>3, ObjectsUnchanged
  <2>3. queue' \in [Controller -> SUBSET Namespace]
    BY <1>0, <1>3 DEF Rest
  <2> QED
    BY <2>1, <2>2, <2>3, <1>1, <1>3
<1>4. ASSUME OrcQuery
      PROVE  IInv'
  <2>1. copy[O].obj \in Object
    BY <1>0, <1>4, <1>a DEF OrcQuery, Fresh, CopyHeld
  <2>2. orcBody \in Body
    BY <2>1 DEF orcBody, Object
  <2>3. cost[orcBody.targetNamespace] \in Cost
    BY <2>2, <1>0, TargetsKnown DEF Rest
  <2>4. /\ pc[O] = "query" /\ Goto(O, "breach") /\ UNCHANGED <<store, cache, queue, copy, cost>>
        /\ currentCost' \in Cost /\ effects' \subseteq Effect
    BY <2>3, <1>0, <1>4 DEF OrcQuery, Rest
  <2>5. "breach" \in PC \ {"status"}
    BY DEF PC
  <2> QED
    BY <2>4, <2>5, <1>3
<1>5. ASSUME OrcQueryFails
      PROVE  IInv'
  <2>1. /\ NotStored(O, NoCopy) /\ Goto(O, "idle") /\ UNCHANGED <<store, published, cost>>
        /\ currentCost' \in Cost /\ effects' \subseteq Effect
    BY <1>0, <1>5, <1>a DEF OrcQueryFails, Return, NotStored, orchestratorVars, Rest
  <2>2. queue' \in [Controller -> SUBSET Namespace]
    BY <1>0, <1>5, <1>b DEF OrcQueryFails, Return, Rest
  <2>3. CoreTypeOK' /\ Fresh' /\ ObjectsGood'
    BY <2>1, <1>0, <1>a, NotStoredStep, ObjectsUnchanged
  <2> QED
    BY <2>1, <2>2, <2>3, <1>1
<1>6. ASSUME NEW sent \in BOOLEAN, OrcBreach(sent)
      PROVE  IInv'
  <2>1. executeBreachAction(orcBody, sent) \subseteq Effect
    BY DEF executeBreachAction, IfWired, Effect
  <2>2. /\ pc[O] = "breach" /\ Goto(O, "optimize") /\ UNCHANGED <<store, cache, queue, copy, cost>>
        /\ currentCost' \in Cost /\ effects' \subseteq Effect
    BY <2>1, <1>0, <1>6 DEF OrcBreach, Rest
  <2>3. "optimize" \in PC \ {"status"}
    BY DEF PC
  <2> QED
    BY <2>2, <2>3, <1>3
<1>7. ASSUME NEW outcome \in {"no savings", "applied", "failed"}, NEW sent \in BOOLEAN,
             OrcOptimize(outcome, sent)
      PROVE  IInv'
  <2>1. applyAutomaticOptimization(outcome, sent) \subseteq Effect
    BY DEF applyAutomaticOptimization, handleOptimizationFailure, IfWired, Effect
  <2>2. effects \subseteq Effect /\ IfWired("AuditWriter", {"audit_evaluate"}) \subseteq Effect
    BY <1>0 DEF Rest, IfWired, Effect
  <2>3. /\ pc[O] = "optimize" /\ Goto(O, "write") /\ UNCHANGED <<store, cache, queue, copy, cost>>
        /\ currentCost' \in Cost /\ effects' \subseteq Effect
    BY <2>1, <2>2, <1>0, <1>7 DEF OrcOptimize, Rest
  <2>4. "write" \in PC \ {"status"}
    BY DEF PC
  <2> QED
    BY <2>3, <2>4, <1>3
<1>8. ASSUME NEW moved \in BOOLEAN, OrcWrite(moved)
      PROVE  IInv'
  <2>1. /\ pc[O] = "write" /\ Goto(O, "idle")
        /\ UpdateStatus(O, Evaluated(copy[O].obj, currentCost), moved)
        /\ cost' = cost /\ currentCost' \in Cost /\ effects' \subseteq Effect
    BY <1>8, <1>c DEF OrcWrite, Return
  <2>2. queue' \in [Controller -> SUBSET Namespace]
    BY <1>0, <1>8, <1>b DEF OrcWrite, Return, Rest
  <2>3. PICK s : s = Evaluated(copy[O].obj, currentCost)
    OBVIOUS
  <2>4. copy[O].obj \in Object /\ Consistent(copy[O].obj) => s \in Object /\ Consistent(s)
    BY <2>3, <1>0, StatusesAreConsistent DEF Rest
  <2>5. CoreTypeOK' /\ Fresh' /\ ObjectsGood'
    BY <2>1, <2>3, <2>4, <1>0, <1>a, ReconcilerWriteStep
  <2> QED
    BY <2>1, <2>2, <2>5, <1>1
<1>9. ASSUME OrcWriteFails
      PROVE  IInv'
  <2>1. /\ NotStored(O, NoCopy) /\ Goto(O, "idle") /\ UNCHANGED <<store, published, cost>>
        /\ currentCost' \in Cost /\ effects' \subseteq Effect
    BY <1>9, <1>a, <1>c DEF OrcWriteFails, Return, NotStored
  <2>2. queue' \in [Controller -> SUBSET Namespace]
    BY <1>0, <1>9, <1>b DEF OrcWriteFails, Return, Rest
  <2>3. CoreTypeOK' /\ Fresh' /\ ObjectsGood'
    BY <2>1, <1>0, <1>a, NotStoredStep, ObjectsUnchanged
  <2> QED
    BY <2>1, <2>2, <2>3, <1>1
<1> QED
  BY <1>2, <1>4, <1>5, <1>6, <1>7, <1>8, <1>9 DEF Evaluating, OrchestratorNext

\* Users, costs and restarts.
LEMMA EnvironmentStep ==
    ASSUME IInv, Environment
    PROVE  IInv'
<1>0. CoreTypeOK /\ Rest /\ Fresh /\ ObjectsGood
  BY TypeParts DEF IInv
<1>1. ASSUME NEW n \in Namespace, NEW obj \in Object \cup {Absent}, UserStep, StoredByUser(n, obj),
             NEW p \in Nat, published' = [published EXCEPT ![n] = p],
             obj # Absent => GoodObject(obj, p)
      PROVE  IInv'
  <2>1. UNCHANGED <<queue, pc, arg, cost, currentCost, effects, crashes>> /\ edits' = edits + 1
    BY <1>1 DEF UserStep, orchestratorVars
  <2>2. CoreTypeOK' /\ Fresh'
    BY <2>1, <1>0, <1>1, UserStoredStep
  <2>3. /\ published' \in [Namespace -> Nat] /\ published'[n] = p
        /\ \A m \in Namespace \ {n} : published'[m] = published[m]
    BY <1>0, <1>1 DEF Rest
  <2>4. store' = [store EXCEPT ![n] = obj]
    BY <1>1 DEF StoredByUser
  <2>5. ObjectsGood'
    BY <2>3, <2>4, <1>0, <1>1, ObjectStored
  <2>6. Rest'
    BY <2>1, <2>3, <1>0 DEF Rest
  <2> QED
    BY <2>2, <2>5, <2>6, TypeParts DEF IInv
<1>2. ASSUME NEW n \in Namespace, NEW b \in Body, UserCreates(n, b)
      PROVE  IInv'
  <2>1. PICK obj : obj = [Created(b) EXCEPT !.version = 0]
    OBVIOUS
  <2>2. obj \in Object /\ GoodObject(obj, 0)
    BY <2>1, CreatedIsGood
  <2>3. UserStep /\ StoredByUser(n, obj) /\ published' = [published EXCEPT ![n] = 0]
    BY <2>1, <1>2 DEF UserCreates
  <2> QED
    BY <2>2, <2>3, <1>1
<1>3. ASSUME NEW n \in Namespace, NEW b \in Body, UserEdits(n, b)
      PROVE  IInv'
  <2>1. PICK obj : obj = [store[n] EXCEPT !.body = b]
    OBVIOUS
  <2>2. UserStep /\ StoredByUser(n, obj) /\ published' = published /\ store[n] # Absent
    BY <2>1, <1>3 DEF UserEdits
  <2>3. store[n] \in Object /\ GoodObject(store[n], published[n]) /\ published[n] \in Nat
    BY <2>2, <1>0 DEF CoreTypeOK, ObjectsGood, Present, Rest
  <2>4. obj \in Object
    BY <2>1, <2>3 DEF Object
  <2>5. /\ obj.version = store[n].version /\ obj.hist = store[n].hist
        /\ obj.phase = store[n].phase /\ obj.cond = store[n].cond
    BY <2>1, <2>3 DEF Object
  <2>6. GoodObject(obj, published[n])
    BY <2>3, <2>5 DEF GoodObject, Consistent
  <2>7. published' = [published EXCEPT ![n] = published[n]]
    BY <2>2, <1>0 DEF Rest
  <2> QED
    BY <2>2, <2>3, <2>4, <2>6, <2>7, <1>1
<1>4. ASSUME NEW n \in Namespace, UserDeletes(n)
      PROVE  IInv'
  BY <1>1, <1>4 DEF UserDeletes
<1>5. ASSUME NEW t \in TargetNamespace, NEW k \in Cost, CostMoves(t, k)
      PROVE  IInv'
  <2>1. /\ UNCHANGED <<store, cache, queue, pc, copy, arg, published, currentCost, effects, crashes>>
        /\ cost' = [cost EXCEPT ![t] = k] /\ edits' = edits + 1
    BY <1>5 DEF CostMoves, storeVars, managerVars
  <2>2. CoreTypeOK' /\ Fresh' /\ ObjectsGood'
    BY <2>1, <1>0, CoreUnchanged, ObjectsUnchanged
  <2>3. Rest'
    BY <2>1, <1>0 DEF Rest
  <2> QED
    BY <2>2, <2>3, TypeParts DEF IInv
<1>6. ASSUME Restart
      PROVE  IInv'
  <2>1. /\ cache' = Listed /\ queue' = Enqueued
        /\ pc' = [c \in Client |-> "idle"] /\ copy' = [c \in Client |-> NoCopy]
        /\ arg' = [c \in Caller |-> NoArg] /\ currentCost' = NoCost /\ effects' = {}
        /\ crashes' = crashes + 1 /\ UNCHANGED <<store, published, cost, edits>>
    BY <1>6 DEF Restart
  <2>2. Listed \in [Namespace -> Cached] /\ \A n \in Namespace : Listed[n].obj = store[n]
    BY <1>0 DEF Listed, Cached, CoreTypeOK
  <2>3. CoreTypeOK'
    BY <2>1, <2>2, <1>0, NoCopyIsCopy DEF CoreTypeOK, PC
  <2>4. CacheFresh'
    BY <2>1, <2>2 DEF CacheFresh
  <2>5. \A c \in Client : pc'[c] = "idle" /\ ~copy'[c].cur
    BY <2>1, NoCopyIsCopy
  <2>6. CopyFresh' /\ CopyHeld'
    BY <2>5 DEF CopyFresh, CopyHeld
  <2>7. ObjectsGood'
    BY <2>1, <1>0, ObjectsUnchanged
  <2>8. Rest'
    BY <2>1, <1>0, Constants DEF Rest, Enqueued
  <2> QED
    BY <2>3, <2>4, <2>6, <2>7, <2>8, TypeParts DEF IInv, Fresh
<1> QED
  BY <1>2, <1>3, <1>4, <1>5, <1>6 DEF Environment

\* The empty cluster.
LEMMA InitiallyInductive ==
    ASSUME Init
    PROVE  IInv
<1>1. /\ store = [n \in Namespace |-> Absent] /\ cache = Listed /\ queue = Enqueued
      /\ pc = [c \in Client |-> "idle"] /\ copy = [c \in Client |-> NoCopy]
      /\ arg = [c \in Caller |-> NoArg] /\ published = [n \in Namespace |-> 0]
      /\ cost \in [TargetNamespace -> Cost] /\ currentCost = NoCost /\ effects = {}
      /\ edits = 0 /\ crashes = 0
  BY DEF Init, StoreInit, ManagerInit, OrchestratorInit
<1>2. Listed \in [Namespace -> Cached] /\ \A n \in Namespace : Listed[n].obj = store[n]
  BY <1>1 DEF Listed, Cached
<1>3. CoreTypeOK
  BY <1>1, <1>2, NoCopyIsCopy DEF CoreTypeOK, PC
<1>4. \A c \in Client : pc[c] = "idle" /\ ~copy[c].cur
  BY <1>1, NoCopyIsCopy
<1>5. Fresh
  BY <1>1, <1>2, <1>4 DEF Fresh, CacheFresh, CopyFresh, CopyHeld
<1>6. ObjectsGood
  BY <1>1 DEF ObjectsGood, Present
<1>7. Rest
  BY <1>1, Constants DEF Rest, Enqueued
<1> QED
  BY <1>3, <1>5, <1>6, <1>7, TypeParts DEF IInv

\* Every step keeps the inductive invariant.
LEMMA NextKeepsInvariant ==
    ASSUME IInv, [Next]_vars
    PROVE  IInv'
<1>1. CASE UNCHANGED vars
  <2>1. UNCHANGED <<store, cache, queue, pc, copy, arg, published, cost, currentCost, effects,
                    edits, crashes>>
    BY <1>1 DEF vars, storeVars, managerVars, orchestratorVars, budgetVars
  <2>2. CoreTypeOK /\ Rest /\ Fresh /\ ObjectsGood
    BY TypeParts DEF IInv
  <2>3. CoreTypeOK' /\ Fresh' /\ ObjectsGood'
    BY <2>1, <2>2, CoreUnchanged, ObjectsUnchanged
  <2>4. Rest'
    BY <2>1, <2>2 DEF Rest
  <2> QED
    BY <2>3, <2>4, TypeParts DEF IInv
<1> QED
  BY <1>1, SyncStep, ManagerStep, ValidationStep, EvaluatingStep, EnvironmentStep DEF Next

\* The inductive invariant implies the invariants of the runs.
LEMMA InvariantImplies ==
    ASSUME IInv
    PROVE  TypeOK /\ HistoryContiguous /\ VersionCountsPublishes /\ PhaseAgreesWithCondition
BY DEF IInv, ObjectsGood, GoodObject, Contiguous, Consistent, HistoryContiguous,
       VersionCountsPublishes, PhaseAgreesWithCondition

----------------------------------------------------------------------------
(* The theorems.                                                           *)

\* The inductive invariant holds in every reachable state.
THEOREM Inductive == Spec => []IInv
<1>1. Init => IInv
  BY InitiallyInductive
<1>2. IInv /\ [Next]_vars => IInv'
  BY NextKeepsInvariant
<1> QED
  BY <1>1, <1>2, PTL DEF Spec

\* Every object, cached object and handler's copy is well-formed in every reachable
\* state, for any number of callers and namespaces.
THEOREM TypeCorrect == Spec => []TypeOK
<1>1. IInv => TypeOK
  BY InvariantImplies
<1> QED
  BY <1>1, Inductive, PTL

\* The history annotation that ApplyPolicy and RollbackPolicy maintain is always the
\* unbroken line of the newest versions, for every history length and any number of
\* concurrent callers.
THEOREM HistoryIsContiguous == Spec => []HistoryContiguous
<1>1. IInv => HistoryContiguous
  BY InvariantImplies
<1> QED
  BY <1>1, Inductive, PTL

\* No publish is lost: the version of a policy counts the ApplyPolicy and
\* RollbackPolicy writes carried out on it, for any number of concurrent callers.
THEOREM NoPublishLost == Spec => []VersionCountsPublishes
<1>1. IInv => VersionCountsPublishes
  BY InvariantImplies
<1> QED
  BY <1>1, Inductive, PTL

\* Phase and Valid condition of a policy agree at all times, whichever of the three
\* writers of the status wrote last.
THEOREM StatusIsConsistent == Spec => []PhaseAgreesWithCondition
<1>1. IInv => PhaseAgreesWithCondition
  BY InvariantImplies
<1> QED
  BY <1>1, Inductive, PTL

----------------------------------------------------------------------------
(* What a step may do to a status.                                         *)

SameStatus(o, p) == p.phase = o.phase /\ p.cond = o.cond /\ p.eval = o.eval

\* The orchestrator is about to write what it found of o.
OrcHasEvaluated(o) ==
    /\ "orchestrator" \in Controller
    /\ pc["orchestrator"] = "write"
    /\ copy["orchestrator"].obj = o

\* The ways a status changes from o to p: each writer computes its part from the
\* stored object itself.
StatusMove(o, p) ==
    \/ SameStatus(o, p)
    \/ p = WithStatus(o, Judged(o))
    \/ OrcHasEvaluated(o) /\ p = WithStatus(o, Evaluated(o, currentCost))
    \/ p = WithStatus(o, [o EXCEPT !.phase = DecodedPhase(o)])

\* An accepted status update changes one object, to the status it carries.
LEMMA StatusWritten ==
    ASSUME CoreTypeOK, NEW c \in Client, NEW s, NEW moved, UpdateStatus(c, s, moved),
           NEW n \in Namespace
    PROVE  \/ store'[n] = store[n]
           \/ n = copy[c].ns /\ store'[n] = WithStatus(store[n], s)
<1>1. \/ store' = store
      \/ store' = [store EXCEPT ![copy[c].ns] = WithStatus(store[copy[c].ns], s)]
  BY DEF UpdateStatus, Stored, NotStored
<1>2. PICK w : w = WithStatus(store[copy[c].ns], s)
  OBVIOUS
<1>3. store' = store \/ store' = [store EXCEPT ![copy[c].ns] = w]
  BY <1>1, <1>2
<1>4. store'[n] = store[n] \/ (n = copy[c].ns /\ store'[n] = w)
  BY <1>3 DEF CoreTypeOK
<1> QED
  BY <1>2, <1>4

\* A publish leaves the status as it is stored.
LEMMA PublishKeepsStatus ==
    ASSUME CoreTypeOK, Fresh, ObjectsGood, NEW c \in Client, NEW b \in Body, NEW after,
           Accepts(c), copy[c].obj \in Object, pc[c] # "status",
           Stored(c, copy[c].ns, WithStatus(Republished(copy[c].obj, b), store[copy[c].ns]), after),
           NEW n \in Namespace
    PROVE  SameStatus(store[n], store'[n])
<1>1. PICK w : w = WithStatus(Republished(copy[c].obj, b), store[copy[c].ns])
  OBVIOUS
<1>2. store' = [store EXCEPT ![copy[c].ns] = w]
  BY <1>1 DEF Stored
<1>3. CASE n # copy[c].ns
  BY <1>2, <1>3 DEF CoreTypeOK, SameStatus
<1>4. CASE n = copy[c].ns
  <2>1. copy[c].obj = store[n] /\ store[n] \in Object
    BY <1>4, AcceptedCopy, AbsentIsNoObject
  <2>2. GoodObject(store[n], published[n])
    BY <2>1, AbsentIsNoObject DEF ObjectsGood, Present
  <2>3. w = Republished(store[n], b)
    BY <1>1, <1>4, <2>1, <2>2, RepublishedIsGood
  <2>4. store'[n] = w
    BY <1>2, <1>4 DEF CoreTypeOK
  <2> QED
    BY <2>1, <2>3, <2>4 DEF Republished, SameStatus, Object
<1> QED
  BY <1>3, <1>4

\* An object that stays keeps its status or gets one computed from itself.
LEMMA StatusMoves ==
    ASSUME IInv, [Next]_vars, NEW n \in Namespace, Present(n), Present(n)'
    PROVE  store[n] \in Object /\ StatusMove(store[n], store'[n])
<1>0. CoreTypeOK /\ Rest /\ Fresh /\ ObjectsGood /\ store[n] \in Object /\ store[n] # Absent
  BY TypeParts DEF IInv, CoreTypeOK, Present
<1> SUFFICES StatusMove(store[n], store'[n])
  BY <1>0
<1>1. ASSUME store' = store
      PROVE  StatusMove(store[n], store'[n])
  BY <1>1 DEF StatusMove, SameStatus
<1>2. CASE UNCHANGED vars
  BY <1>1, <1>2 DEF vars, storeVars
<1>3. ASSUME NEW m \in Namespace, Sync(m)
      PROVE  StatusMove(store[n], store'[n])
  BY <1>1, <1>3 DEF Sync, CacheSync
<1>4. CASE Validation
  <2>1. "policy" \in Client
    BY <1>4 DEF Validation, PolicyReconcilerNext, Client
  <2>2. ASSUME NEW moved \in BOOLEAN, NEW ok \in BOOLEAN, PolicyWrite(moved, ok)
        PROVE  StatusMove(store[n], store'[n])
    <3>1. pc["policy"] = "write" /\ UpdateStatus("policy", Judged(copy["policy"].obj), moved)
          /\ Accepts("policy")
      BY <2>2 DEF PolicyWrite, UpdateStatus
    <3>2. copy["policy"].obj \in Object
      BY <3>1, <2>1, <1>0 DEF Fresh, CopyHeld
    <3>3. copy["policy"].obj = store[copy["policy"].ns]
      BY <3>1, <3>2, <2>1, <1>0, AcceptedCopy, AbsentIsNoObject
    <3>4. store'[n] = store[n] \/ store'[n] = WithStatus(store[n], Judged(store[n]))
      BY <3>1, <3>3, <2>1, <1>0, StatusWritten
    <3> QED
      BY <3>4 DEF StatusMove, SameStatus
  <2>3. ASSUME NEW m \in Namespace, PolicyRead(m)
        PROVE  store' = store
    BY <2>3 DEF PolicyRead
  <2>4. PolicyWriteFails => store' = store
    BY DEF PolicyWriteFails, NotStored
  <2> QED
    BY <1>1, <1>4, <2>2, <2>3, <2>4 DEF Validation, PolicyReconcilerNext
<1>5. CASE Evaluating
  <2> DEFINE O == "orchestrator"
  <2>1. O \in Client
    BY <1>5 DEF Evaluating, OrchestratorNext, Client
  <2>2. ASSUME NEW moved \in BOOLEAN, OrcWrite(moved)
        PROVE  StatusMove(store[n], store'[n])
    <3>1. pc[O] = "write" /\ UpdateStatus(O, Evaluated(copy[O].obj, currentCost), moved)
          /\ Accepts(O)
      BY <2>2 DEF OrcWrite, UpdateStatus
    <3>2. copy[O].obj \in Object
      BY <3>1, <2>1, <1>0 DEF Fresh, CopyHeld
    <3>3. copy[O].obj = store[copy[O].ns]
      BY <3>1, <3>2, <2>1, <1>0, AcceptedCopy, AbsentIsNoObject
    <3>4. \/ store'[n] = store[n]
          \/ /\ n = copy[O].ns
             /\ store'[n] = WithStatus(store[n], Evaluated(store[n], currentCost))
      BY <3>1, <3>3, <2>1, <1>0, StatusWritten
    <3>5. n = copy[O].ns => OrcHasEvaluated(store[n])
      BY <3>1, <3>3, <1>5 DEF OrcHasEvaluated, Evaluating, OrchestratorNext
    <3> QED
      BY <3>4, <3>5 DEF StatusMove, SameStatus
  <2>3. ASSUME NEW m \in Namespace, OrcRead(m)
        PROVE  store' = store
    BY <2>3 DEF OrcRead
  <2>4. OrcQuery \/ OrcQueryFails \/ OrcWriteFails => store' = store
    BY DEF OrcQuery, OrcQueryFails, OrcWriteFails, NotStored
  <2>5. ASSUME NEW sent \in BOOLEAN
        PROVE  /\ OrcBreach(sent) => store' = store
               /\ \A outcome \in {"no savings", "applied", "failed"} :
                     OrcOptimize(outcome, sent) => store' = store
    BY DEF OrcBreach, OrcOptimize
  <2> QED
    BY <1>1, <1>5, <2>2, <2>3, <2>4, <2>5 DEF Evaluating, OrchestratorNext
<1>6. CASE Calls
  <2>1. ASSUME NEW c \in Caller, ApplyCommit(c)
        PROVE  StatusMove(store[n], store'[n])
    <3>1. Accepts(c) /\ c \in Client /\ pc[c] = "apply" /\ arg[c] \in Body
          /\ copy[c].ns \in Namespace /\ copy[c].obj \in Object \cup {Absent}
      BY <2>1, <1>0 DEF ApplyCommit, Client, Rest, CoreTypeOK, Copy
    <3>2. CASE copy[c].obj = Absent
      <4>1. store[copy[c].ns] = Absent /\ copy[c].ns # n
        BY <3>1, <3>2, <1>0 DEF Accepts
      <4>2. PICK w : store' = [store EXCEPT ![copy[c].ns] = w]
        BY <2>1, <3>2 DEF ApplyCommit, Stored
      <4>3. store'[n] = store[n]
        BY <4>1, <4>2, <1>0 DEF CoreTypeOK
      <4> QED
        BY <4>3 DEF StatusMove, SameStatus
    <3>3. CASE copy[c].obj # Absent
      <4>1. Stored(c, copy[c].ns,
                   WithStatus(Republished(copy[c].obj, arg[c]), store[copy[c].ns]), NoCopy)
        BY <2>1, <3>3 DEF ApplyCommit
      <4>2. copy[c].obj \in Object /\ pc[c] # "status"
        BY <3>1, <3>3
      <4>3. SameStatus(store[n], store'[n])
        BY <4>1, <4>2, <3>1, <1>0, PublishKeepsStatus
      <4> QED
        BY <4>3 DEF StatusMove
    <3> QED
      BY <3>2, <3>3
  <2>2. ASSUME NEW c \in Caller, NEW answered \in BOOLEAN, RollbackCommit(c, answered)
        PROVE  StatusMove(store[n], store'[n])
    <3>1. Accepts(c) /\ c \in Client /\ pc[c] = "rollback" /\ arg[c] \in Body
      BY <2>2, <1>0 DEF RollbackCommit, Client, Rest
    <3>2. copy[c].obj \in Object /\ pc[c] # "status"
      BY <3>1, <1>0 DEF Fresh, CopyHeld
    <3>3. PICK after : Stored(c, copy[c].ns,
                 WithStatus(Republished(copy[c].obj, arg[c]), store[copy[c].ns]), after)
      BY <2>2 DEF RollbackCommit
    <3>4. SameStatus(store[n], store'[n])
      BY <3>1, <3>2, <3>3, <1>0, PublishKeepsStatus
    <3> QED
      BY <3>4 DEF StatusMove
  <2>3. ASSUME NEW c \in Caller, RollbackStatus(c)
        PROVE  StatusMove(store[n], store'[n])
    <3>1. pc[c] = "status" /\ UpdateStatus(c, copy[c].obj, FALSE) /\ Accepts(c) /\ c \in Client
      BY <2>3 DEF RollbackStatus, UpdateStatus, Client
    <3>2. copy[c].obj \in Object
      BY <3>1, <1>0 DEF Fresh, CopyHeld
    <3>3. copy[c].obj = [store[copy[c].ns] EXCEPT !.phase = DecodedPhase(store[copy[c].ns])]
      BY <3>1, <3>2, <1>0, AcceptedCopy, AbsentIsNoObject
    <3>4. PICK s : s = copy[c].obj
      OBVIOUS
    <3>5. store'[n] = store[n] \/ (n = copy[c].ns /\ store'[n] = WithStatus(store[n], s))
      BY <3>1, <3>4, <1>0, StatusWritten
    <3>6. CASE n = copy[c].ns
      <4>1. s = [store[n] EXCEPT !.phase = DecodedPhase(store[n])]
        BY <3>3, <3>4, <3>6
      <4> QED
        BY <3>5, <4>1 DEF StatusMove, SameStatus
    <3> QED
      BY <3>5, <3>6 DEF StatusMove, SameStatus
  <2>4. ASSUME NEW c \in Caller
        PROVE  /\ CallFails(c) => store' = store
               /\ \A m \in Namespace :
                     /\ \A b \in Body : ApplyStart(c, m, b) => store' = store
                     /\ \A v \in 0..MaxPublish : RollbackStart(c, m, v) => store' = store
    BY DEF CallFails, ApplyStart, RollbackStart, NotStored
  <2> QED
    BY <1>1, <1>6, <2>1, <2>2, <2>3, <2>4 DEF Calls, ManagerNext
<1>7. CASE Environment
  <2>1. ASSUME NEW m \in Namespace, NEW b \in Body, UserCreates(m, b)
        PROVE  StatusMove(store[n], store'[n])
    <3>1. m # n /\ \E w : store' = [store EXCEPT ![m] = w]
      BY <2>1, <1>0 DEF UserCreates, StoredByUser
    <3>2. store'[n] = store[n]
      BY <3>1, <1>0 DEF CoreTypeOK
    <3> QED
      BY <3>2 DEF StatusMove, SameStatus
  <2>2. ASSUME NEW m \in Namespace, NEW b \in Body, UserEdits(m, b)
        PROVE  StatusMove(store[n], store'[n])
    <3>1. store' = [store EXCEPT ![m] = [store[m] EXCEPT !.body = b]]
      BY <2>2 DEF UserEdits, StoredByUser
    <3>2. store'[n] = store[n] \/ store'[n] = [store[n] EXCEPT !.body = b]
      BY <3>1, <1>0 DEF CoreTypeOK
    <3>3. SameStatus(store[n], store'[n])
      BY <3>2, <1>0 DEF SameStatus, Object
    <3> QED
      BY <3>3 DEF StatusMove
  <2>3. ASSUME NEW m \in Namespace, UserDeletes(m)
        PROVE  StatusMove(store[n], store'[n])
    <3>1. store' = [store EXCEPT ![m] = Absent] /\ store'[n] # Absent
      BY <2>3 DEF UserDeletes, StoredByUser, Present
    <3>2. store'[n] = store[n]
      BY <3>1, <1>0 DEF CoreTypeOK
    <3> QED
      BY <3>2 DEF StatusMove, SameStatus
  <2>4. ASSUME NEW t \in TargetNamespace, NEW k \in Cost, CostMoves(t, k)
        PROVE  store' = store
    BY <2>4 DEF CostMoves, storeVars
  <2>5. Restart => store' = store
    BY DEF Restart
  <2> QED
    BY <1>1, <1>7, <2>1, <2>2, <2>3, <2>4, <2>5 DEF Environment
<1> QED
  BY <1>0, <1>2, <1>3, <1>4, <1>5, <1>6, <1>7 DEF Next

\* A policy is declared Active or Error only on the merits of the spec stored at that
\* moment: a PolicyReconciler that read an older one from its cache writes nothing.
THEOREM VerdictsAreOfStoredSpec == Spec => VerdictIsOfStoredSpec
<1> DEFINE A == \A n \in Namespace :
                   /\ Present(n) /\ Present(n)'
                   /\ store'[n].phase # store[n].phase
                   /\ store'[n].phase \in {"Active", "Error"}
                   => (store'[n].phase = "Active" <=> IsValid(store'[n].body))
<1>1. ASSUME IInv, [Next]_vars
      PROVE  A
  <2> SUFFICES ASSUME NEW n \in Namespace, Present(n), Present(n)',
                      store'[n].phase # store[n].phase, store'[n].phase \in {"Active", "Error"}
               PROVE  store'[n].phase = "Active" <=> IsValid(store'[n].body)
    OBVIOUS
  <2>1. PICK o, p : o = store[n] /\ p = store'[n]
    OBVIOUS
  <2>2. o \in Object /\ StatusMove(o, p)
    BY <1>1, <2>1, StatusMoves
  <2>3. p.phase # o.phase /\ p.phase \in {"Active", "Error"}
    BY <2>1
  <2>4. p = WithStatus(o, Judged(o))
    BY <2>2, <2>3 DEF StatusMove, SameStatus, WithStatus, Evaluated, DecodedPhase, Object
  <2>5. p.body = o.body /\ p.phase = Judged(o).phase
    BY <2>2, <2>4 DEF WithStatus, Object
  <2>6. Judged(o).phase = IF IsValid(o.body) THEN "Active" ELSE "Error"
    BY <2>2 DEF Judged, Object
  <2> QED
    BY <2>1, <2>5, <2>6
<1>2. IInv /\ [Next]_vars => [A]_vars
  BY <1>1
<1> HIDE DEF A
<1>3. Spec => [][A]_vars
  BY <1>2, Inductive, PTL DEF Spec
<1> QED
  BY <1>3 DEF A, VerdictIsOfStoredSpec

\* The two reconcilers share one status without losing each other's part: an
\* evaluation keeps the verdict and is of the stored limit, a verdict keeps the
\* evaluation.
THEOREM StatusPartsAreKept == Spec => NoStatusLost
<1> DEFINE A == \A n \in Namespace : Present(n) /\ Present(n)' =>
                   /\ store'[n].eval # store[n].eval =>
                         /\ store'[n].phase = store[n].phase
                         /\ store'[n].cond = store[n].cond
                         /\ \A e \in store'[n].eval : e.limit = store[n].body.monthlyLimit
                   /\ store'[n].phase # store[n].phase => store'[n].eval = store[n].eval
<1>1. ASSUME IInv, [Next]_vars
      PROVE  A
  <2> SUFFICES ASSUME NEW n \in Namespace, Present(n), Present(n)'
               PROVE  /\ store'[n].eval # store[n].eval =>
                         /\ store'[n].phase = store[n].phase
                         /\ store'[n].cond = store[n].cond
                         /\ \A e \in store'[n].eval : e.limit = store[n].body.monthlyLimit
                      /\ store'[n].phase # store[n].phase => store'[n].eval = store[n].eval
    OBVIOUS
  <2>1. PICK o, p : o = store[n] /\ p = store'[n]
    OBVIOUS
  <2>2. o \in Object /\ StatusMove(o, p)
    BY <1>1, <2>1, StatusMoves
  <2>3. CASE SameStatus(o, p)
    BY <2>1, <2>3 DEF SameStatus
  <2>4. CASE p = WithStatus(o, Judged(o))
    <3>1. p.eval = o.eval
      BY <2>2, <2>4 DEF WithStatus, Judged, Object
    <3> QED
      BY <2>1, <3>1
  <2>5. ASSUME p = WithStatus(o, Evaluated(o, currentCost))
        PROVE  /\ p.phase = o.phase /\ p.cond = o.cond
               /\ \A e \in p.eval : e.limit = o.body.monthlyLimit
    <3>1. /\ p.phase = o.phase /\ p.cond = o.cond
          /\ p.eval = {[limit |-> o.body.monthlyLimit, cost |-> currentCost]}
      BY <2>2, <2>5 DEF WithStatus, Evaluated, Object
    <3> QED
      BY <3>1
  <2>6. CASE p = WithStatus(o, [o EXCEPT !.phase = DecodedPhase(o)])
    <3>1. p.eval = o.eval
      BY <2>2, <2>6 DEF WithStatus, Object
    <3> QED
      BY <2>1, <3>1
  <2> QED
    BY <2>1, <2>2, <2>3, <2>4, <2>5, <2>6 DEF StatusMove
<1>2. IInv /\ [Next]_vars => [A]_vars
  BY <1>1
<1> HIDE DEF A
<1>3. Spec => [][A]_vars
  BY <1>2, Inductive, PTL DEF Spec
<1> QED
  BY <1>3 DEF A, NoStatusLost

----------------------------------------------------------------------------
(***************************************************************************)
(* What a handler still knows when its write is accepted, and what follows *)
(* for the steps: an evaluation is of a policy that is not in phase Error  *)
(* and comes after its breach action, and the versions of a policy move as *)
(* VersionedPolicy says.                                                   *)
(*                                                                         *)
(* The argument: the guards of a handler's first steps are about its copy, *)
(* which other clients can outdate but not change (Memory).  The copy of   *)
(* an accepted write is the stored object (Fresh), so the guards hold of   *)
(* the stored object at the moment of the write.                           *)
(***************************************************************************)

\* Past its read the orchestrator holds a policy that was not in phase Error, and
\* past its breach step it has acted on the breach it found, if any.
OrcMemory ==
    "orchestrator" \in Controller =>
       /\ pc["orchestrator"] \in {"query", "breach", "optimize", "write"} =>
             copy["orchestrator"].obj.phase # "Error"
       /\ pc["orchestrator"] \in {"optimize", "write"} =>
             (Breached(orcBody, currentCost) => "breach" \in effects)

\* ApplyPolicy is about to publish a valid spec, RollbackPolicy one of the history.
ArgOK(c) ==
    /\ pc[c] = "apply" => IsValid(arg[c])
    /\ pc[c] = "rollback" =>
          \E i \in DOMAIN copy[c].obj.hist : copy[c].obj.hist[i].body = arg[c]

CallMemory == \A c \in Caller : ArgOK(c)

Memory == OrcMemory /\ CallMemory

----------------------------------------------------------------------------
(* The other handlers.                                                     *)

\* A step of client c leaves where the others are and the objects they hold.
Others(c) == \A d \in Client \ {c} : pc'[d] = pc[d] /\ copy'[d].obj = copy[d].obj

Everybody == \A d \in Client : pc'[d] = pc[d] /\ copy'[d].obj = copy[d].obj

\* A request that is carried out outdates copies, and changes no object in them.
LEMMA StoredLeaves ==
    ASSUME CoreTypeOK, NEW c \in Client, NEW n, NEW obj, NEW after, Stored(c, n, obj, after)
    PROVE  \A d \in Client \ {c} : copy'[d].obj = copy[d].obj
<1> SUFFICES ASSUME NEW d \in Client, d # c
             PROVE  copy'[d].obj = copy[d].obj
  OBVIOUS
<1>1. copy'[d] = Outdated(n)[d]
  BY DEF Stored, Outdated
<1>2. copy'[d] = IF copy[d].ns = n THEN [copy[d] EXCEPT !.cur = FALSE] ELSE copy[d]
  BY <1>1 DEF Outdated
<1>3. copy[d] \in Copy
  BY DEF CoreTypeOK
<1> QED
  BY <1>2, <1>3 DEF Copy

\* So does a user's own write.
LEMMA UserLeaves ==
    ASSUME CoreTypeOK, NEW n, NEW obj, StoredByUser(n, obj)
    PROVE  \A d \in Client : copy'[d].obj = copy[d].obj
<1> SUFFICES ASSUME NEW d \in Client
             PROVE  copy'[d].obj = copy[d].obj
  OBVIOUS
<1>1. copy'[d] = IF copy[d].ns = n THEN [copy[d] EXCEPT !.cur = FALSE] ELSE copy[d]
  BY DEF StoredByUser, Outdated
<1>2. copy[d] \in Copy
  BY DEF CoreTypeOK
<1> QED
  BY <1>1, <1>2 DEF Copy

\* A step that only replaces c's copy and moves c leaves the others.
LEMMA ReplacedLeaves ==
    ASSUME CoreTypeOK, NEW c \in Client, NEW after, NEW l,
           copy' = [copy EXCEPT ![c] = after], Goto(c, l)
    PROVE  Others(c) /\ pc'[c] = l /\ copy'[c] = after
BY DEF CoreTypeOK, Goto, Others

\* An accepted status update leaves the other handlers alone.
LEMMA UpdateLeaves ==
    ASSUME CoreTypeOK, NEW c \in Client, NEW s, NEW moved, UpdateStatus(c, s, moved),
           NEW l, Goto(c, l)
    PROVE  Others(c) /\ pc'[c] = l
<1>1. pc'[c] = l /\ \A d \in Client \ {c} : pc'[d] = pc[d]
  BY DEF Goto, CoreTypeOK
<1>2. \A d \in Client \ {c} : copy'[d].obj = copy[d].obj
  <2>1. \/ Stored(c, copy[c].ns, WithStatus(store[copy[c].ns], s), NoCopy)
        \/ NotStored(c, NoCopy)
    BY DEF UpdateStatus
  <2>2. CASE Stored(c, copy[c].ns, WithStatus(store[copy[c].ns], s), NoCopy)
    BY <2>2, StoredLeaves
  <2>3. CASE NotStored(c, NoCopy)
    BY <2>3 DEF NotStored, CoreTypeOK
  <2> QED
    BY <2>1, <2>2, <2>3
<1> QED
  BY <1>1, <1>2 DEF Others

\* The orchestrator remembers across steps of others.
LEMMA OrcRemembers ==
    ASSUME OrcMemory, UNCHANGED <<currentCost, effects>>,
           "orchestrator" \in Controller =>
              /\ pc'["orchestrator"] = pc["orchestrator"]
              /\ copy'["orchestrator"].obj = copy["orchestrator"].obj
    PROVE  OrcMemory'
BY DEF OrcMemory, orcBody, Breached

\* A call remembers across steps of others.
LEMMA CallRemembers ==
    ASSUME NEW c, ArgOK(c), pc'[c] = pc[c], copy'[c].obj = copy[c].obj, arg'[c] = arg[c]
    PROVE  ArgOK(c)'
BY DEF ArgOK

\* A call's step that leaves the others and itself in order.
LEMMA CallerStep ==
    ASSUME Memory, NEW c \in Caller, Others(c), \A d \in Caller \ {c} : arg'[d] = arg[d],
           UNCHANGED <<currentCost, effects>>, ArgOK(c)'
    PROVE  Memory'
<1>1. "orchestrator" \in Controller => "orchestrator" \in Client \ {c}
  BY ClientsDisjoint DEF Client
<1>2. OrcMemory'
  BY <1>1, OrcRemembers DEF Others, Memory
<1>3. ASSUME NEW d \in Caller
      PROVE  ArgOK(d)'
  <2>1. CASE d = c
    BY <2>1
  <2>2. CASE d # c
    <3>1. d \in Client \ {c} /\ ArgOK(d)
      BY <2>2 DEF Client, Memory, CallMemory
    <3> QED
      BY <3>1, <2>2, CallRemembers DEF Others
  <2> QED
    BY <2>1, <2>2
<1> QED
  BY <1>2, <1>3 DEF Memory, CallMemory

\* A reconciler's step leaves every call as it was.
LEMMA ReconcilerStep ==
    ASSUME CallMemory, NEW r \in {"policy", "orchestrator"}, Others(r), UNCHANGED arg
    PROVE  CallMemory'
<1> SUFFICES ASSUME NEW d \in Caller
             PROVE  ArgOK(d)'
  BY DEF CallMemory
<1>1. d \in Client \ {r} /\ ArgOK(d)
  BY ClientsDisjoint DEF Client, CallMemory
<1> QED
  BY <1>1, CallRemembers DEF Others

----------------------------------------------------------------------------
(* Memory is kept.                                                         *)

\* The calls: ApplyPolicy validates, and RollbackPolicy looks the version up, before
\* either can write.
LEMMA CallsKeepMemory ==
    ASSUME IInv, Memory, Calls
    PROVE  Memory'
<1>0. CoreTypeOK /\ Rest /\ UNCHANGED <<currentCost, effects>>
  BY TypeParts DEF IInv, Calls, orchestratorVars
<1>1. ASSUME NEW c \in Caller, NEW n \in Namespace, NEW b \in Body, ApplyStart(c, n, b)
      PROVE  Memory'
  <2>1. c \in Client /\ Others(c) /\ pc'[c] = "apply"
    BY <1>0, <1>1, ReplacedLeaves DEF ApplyStart, Client
  <2>2. arg'[c] = b /\ IsValid(b) /\ \A d \in Caller \ {c} : arg'[d] = arg[d]
    BY <1>0, <1>1 DEF ApplyStart, Rest
  <2>3. ArgOK(c)'
    BY <2>1, <2>2 DEF ArgOK
  <2> QED
    BY <2>1, <2>2, <2>3, <1>0, CallerStep
<1>2. ASSUME NEW c \in Caller, NEW n \in Namespace, NEW v \in 0..MaxPublish, RollbackStart(c, n, v)
      PROVE  Memory'
  <2>1. c \in Client /\ Others(c) /\ pc'[c] = "rollback" /\ copy'[c] = Get(n)
    BY <1>0, <1>2, ReplacedLeaves DEF RollbackStart, Client
  <2>2. PICK i \in EntriesOf(cache[n].obj, v) :
              arg' = [arg EXCEPT ![c] = cache[n].obj.hist[i].body]
    BY <1>2 DEF RollbackStart
  <2>3. i \in DOMAIN cache[n].obj.hist /\ copy'[c].obj = cache[n].obj
    BY <2>1, <2>2 DEF EntriesOf, Get
  <2>4. arg'[c] = cache[n].obj.hist[i].body /\ \A d \in Caller \ {c} : arg'[d] = arg[d]
    BY <2>2, <1>0 DEF Rest
  <2>5. ArgOK(c)'
    BY <2>1, <2>3, <2>4 DEF ArgOK
  <2> QED
    BY <2>1, <2>4, <2>5, <1>0, CallerStep
<1>3. ASSUME NEW c \in Caller, NEW l \in {"idle", "status"}, c \in Client, Goto(c, l),
             \A d \in Client \ {c} : copy'[d].obj = copy[d].obj,
             \A d \in Caller \ {c} : arg'[d] = arg[d]
      PROVE  Memory'
  <2>1. pc'[c] = l /\ Others(c)
    BY <1>0, <1>3 DEF Goto, CoreTypeOK, Others
  <2>2. ArgOK(c)'
    BY <2>1 DEF ArgOK
  <2> QED
    BY <2>1, <2>2, <1>0, <1>3, CallerStep
<1>4. ASSUME NEW c \in Caller, Finish(c)
      PROVE  Goto(c, "idle") /\ \A d \in Caller \ {c} : arg'[d] = arg[d]
  BY <1>0, <1>4 DEF Finish, Rest
<1>5. ASSUME NEW c \in Caller, ApplyCommit(c)
      PROVE  Memory'
  <2>1. c \in Client /\ Finish(c) /\ \E obj : Stored(c, copy[c].ns, obj, NoCopy)
    BY <1>5 DEF ApplyCommit, Client
  <2> QED
    BY <2>1, <1>0, <1>3, <1>4, StoredLeaves
<1>6. ASSUME NEW c \in Caller, NEW answered \in BOOLEAN, RollbackCommit(c, answered)
      PROVE  Memory'
  <2>1. /\ c \in Client
        /\ \E obj, after : Stored(c, copy[c].ns, obj, after)
        /\ Finish(c) \/ (Goto(c, "status") /\ UNCHANGED arg)
    BY <1>6 DEF RollbackCommit, Client
  <2>2. \A d \in Client \ {c} : copy'[d].obj = copy[d].obj
    BY <2>1, <1>0, StoredLeaves
  <2> QED
    BY <2>1, <2>2, <1>3, <1>4
<1>7. ASSUME NEW c \in Caller, RollbackStatus(c)
      PROVE  Memory'
  <2>1. c \in Client /\ Finish(c) /\ UpdateStatus(c, copy[c].obj, FALSE)
    BY <1>7 DEF RollbackStatus, Client
  <2>2. \A d \in Client \ {c} : copy'[d].obj = copy[d].obj
    BY <2>1, <1>0, <1>4, UpdateLeaves DEF Others
  <2> QED
    BY <2>1, <2>2, <1>3, <1>4
<1>8. ASSUME NEW c \in Caller, CallFails(c)
      PROVE  Memory'
  <2>1. c \in Client /\ Finish(c) /\ copy' = [copy EXCEPT ![c] = NoCopy]
    BY <1>8 DEF CallFails, NotStored, Client
  <2>2. \A d \in Client \ {c} : copy'[d].obj = copy[d].obj
    BY <2>1, <1>0 DEF CoreTypeOK
  <2> QED
    BY <2>1, <2>2, <1>3, <1>4
<1> QED
  BY <1>1, <1>2, <1>5, <1>6, <1>7, <1>8 DEF Calls, ManagerNext

\* The PolicyReconciler.
LEMMA ValidationKeepsMemory ==
    ASSUME IInv, Memory, Validation
    PROVE  Memory'
<1>0. CoreTypeOK /\ UNCHANGED <<arg, currentCost, effects>> /\ "policy" \in Client
  BY TypeParts DEF IInv, Validation, managerVars, orchestratorVars, PolicyReconcilerNext, Client
<1>1. ASSUME Others("policy")
      PROVE  Memory'
  <2>1. "orchestrator" \in Controller => "orchestrator" \in Client \ {"policy"}
    BY DEF Client
  <2>2. OrcMemory'
    BY <2>1, <1>0, <1>1, OrcRemembers DEF Others, Memory
  <2>3. CallMemory'
    BY <1>0, <1>1, ReconcilerStep DEF Memory
  <2> QED
    BY <2>2, <2>3 DEF Memory
<1>2. ASSUME NEW n \in Namespace, PolicyRead(n)
      PROVE  Others("policy")
  <2>1. CASE UNCHANGED <<copy, pc>>
    BY <2>1 DEF Others
  <2>2. CASE copy' = [copy EXCEPT !["policy"] = Get(n)] /\ Goto("policy", "write")
    BY <2>2, <1>0, ReplacedLeaves
  <2> QED
    BY <1>2, <2>1, <2>2 DEF PolicyRead
<1>3. ASSUME NEW moved \in BOOLEAN, NEW ok \in BOOLEAN, PolicyWrite(moved, ok)
      PROVE  Others("policy")
  BY <1>0, <1>3, UpdateLeaves DEF PolicyWrite, Return
<1>4. ASSUME PolicyWriteFails
      PROVE  Others("policy")
  BY <1>0, <1>4, ReplacedLeaves DEF PolicyWriteFails, Return, NotStored
<1> QED
  BY <1>1, <1>2, <1>3, <1>4 DEF Validation, PolicyReconcilerNext

\* The orchestrator: its read skips phase Error, and its breach step acts on a breach
\* before anything later in the handler.
LEMMA EvaluatingKeepsMemory ==
    ASSUME IInv, Memory, Evaluating
    PROVE  Memory'
<1> DEFINE O == "orchestrator"
<1>0. CoreTypeOK /\ UNCHANGED arg /\ O \in Client /\ O \in Controller /\ OrcMemory
  BY TypeParts DEF IInv, Evaluating, managerVars, OrchestratorNext, Client, Memory
<1>1. ASSUME Others(O), pc'[O] = "idle"
      PROVE  Memory'
  <2>1. OrcMemory'
    BY <1>1 DEF OrcMemory
  <2> QED
    BY <2>1, <1>0, <1>1, ReconcilerStep DEF Memory
<1>2. ASSUME NEW n \in Namespace, OrcRead(n)
      PROVE  Memory'
  <2>1. CASE UNCHANGED <<copy, pc>>
    <3>1. UNCHANGED <<currentCost, effects>>
      BY <1>2 DEF OrcRead, orchestratorVars
    <3>2. OrcMemory' /\ Others(O)
      BY <2>1, <3>1, <1>0, OrcRemembers DEF Others
    <3> QED
      BY <3>2, <1>0, ReconcilerStep DEF Memory
  <2>2. CASE /\ copy' = [copy EXCEPT ![O] = Get(n)] /\ Goto(O, "query")
             /\ cache[n].obj.phase # "Error"
    <3>1. Others(O) /\ pc'[O] = "query" /\ copy'[O] = Get(n)
      BY <2>2, <1>0, ReplacedLeaves
    <3>2. OrcMemory'
      BY <3>1, <2>2 DEF OrcMemory, Get
    <3> QED
      BY <3>1, <3>2, <1>0, ReconcilerStep DEF Memory
  <2> QED
    BY <1>2, <2>1, <2>2 DEF OrcRead
<1>3. ASSUME NEW l, Goto(O, l), UNCHANGED copy
      PROVE  Others(O) /\ pc'[O] = l /\ CallMemory'
  <2>1. Others(O) /\ pc'[O] = l
    BY <1>3, <1>0 DEF Goto, CoreTypeOK, Others
  <2> QED
    BY <2>1, <1>0, ReconcilerStep DEF Memory
<1>4. ASSUME OrcQuery
      PROVE  Memory'
  <2>1. pc[O] = "query" /\ pc'[O] = "breach" /\ copy' = copy /\ CallMemory'
    BY <1>4, <1>3 DEF OrcQuery
  <2>2. OrcMemory'
    BY <2>1, <1>0 DEF OrcMemory
  <2> QED
    BY <2>1, <2>2 DEF Memory
<1>5. ASSUME NEW sent \in BOOLEAN, OrcBreach(sent)
      PROVE  Memory'
  <2>1. /\ pc[O] = "breach" /\ pc'[O] = "optimize" /\ copy' = copy /\ CallMemory'
        /\ currentCost' = currentCost
    BY <1>5, <1>3 DEF OrcBreach
  <2>2. Breached(orcBody, currentCost) => "breach" \in effects'
    BY <1>5 DEF OrcBreach, executeBreachAction
  <2>3. Breached(orcBody, currentCost)' <=> Breached(orcBody, currentCost)
    BY <2>1 DEF Breached, orcBody
  <2>4. OrcMemory'
    BY <2>1, <2>2, <2>3, <1>0 DEF OrcMemory
  <2> QED
    BY <2>1, <2>4 DEF Memory
<1>6. ASSUME NEW outcome \in {"no savings", "applied", "failed"}, NEW sent \in BOOLEAN,
             OrcOptimize(outcome, sent)
      PROVE  Memory'
  <2>1. /\ pc[O] = "optimize" /\ pc'[O] = "write" /\ copy' = copy /\ CallMemory'
        /\ currentCost' = currentCost /\ effects \subseteq effects'
    BY <1>6, <1>3 DEF OrcOptimize
  <2>2. Breached(orcBody, currentCost)' <=> Breached(orcBody, currentCost)
    BY <2>1 DEF Breached, orcBody
  <2>3. OrcMemory'
    BY <2>1, <2>2, <1>0 DEF OrcMemory
  <2> QED
    BY <2>1, <2>3 DEF Memory
<1>7. ASSUME NEW moved \in BOOLEAN, OrcWrite(moved)
      PROVE  Memory'
  <2>1. Others(O) /\ pc'[O] = "idle"
    BY <1>0, <1>7, UpdateLeaves DEF OrcWrite, Return
  <2> QED
    BY <2>1, <1>1
<1>8. ASSUME OrcQueryFails \/ OrcWriteFails
      PROVE  Memory'
  <2>1. Others(O) /\ pc'[O] = "idle"
    BY <1>0, <1>8, ReplacedLeaves DEF OrcQueryFails, OrcWriteFails, NotStored, Return
  <2> QED
    BY <2>1, <1>1
<1> QED
  BY <1>2, <1>4, <1>5, <1>6, <1>7, <1>8 DEF Evaluating, OrchestratorNext

\* Users, the cost and the crash: a restart forgets everything, the rest nothing.
LEMMA EnvironmentKeepsMemory ==
    ASSUME IInv, Memory, Environment
    PROVE  Memory'
<1>0. CoreTypeOK
  BY TypeParts DEF IInv
<1>1. ASSUME Everybody, UNCHANGED <<arg, currentCost, effects>>
      PROVE  Memory'
  <2>1. OrcMemory'
    BY <1>1, OrcRemembers DEF Everybody, Memory, Client
  <2>2. ASSUME NEW d \in Caller
        PROVE  ArgOK(d)'
    BY <1>1, CallRemembers DEF Everybody, Memory, CallMemory, Client
  <2> QED
    BY <2>1, <2>2 DEF Memory, CallMemory
<1>2. ASSUME NEW n \in Namespace, NEW obj, UserStep, StoredByUser(n, obj)
      PROVE  Memory'
  <2>1. UNCHANGED <<pc, arg, currentCost, effects>>
    BY <1>2 DEF UserStep, orchestratorVars
  <2>2. Everybody
    BY <1>0, <1>2, <2>1, UserLeaves DEF Everybody
  <2> QED
    BY <2>1, <2>2, <1>1
<1>3. ASSUME NEW n \in Namespace, NEW b \in Body, UserCreates(n, b) \/ UserEdits(n, b)
      PROVE  Memory'
  BY <1>2, <1>3 DEF UserCreates, UserEdits
<1>4. ASSUME NEW n \in Namespace, UserDeletes(n)
      PROVE  Memory'
  BY <1>2, <1>4 DEF UserDeletes
<1>5. ASSUME NEW t \in TargetNamespace, NEW k \in Cost, CostMoves(t, k)
      PROVE  Memory'
  BY <1>1, <1>5 DEF CostMoves, storeVars, managerVars, Everybody
<1>6. ASSUME Restart
      PROVE  Memory'
  <2>1. \A c \in Client : pc'[c] = "idle"
    BY <1>6 DEF Restart
  <2>2. OrcMemory'
    BY <2>1 DEF OrcMemory, Client
  <2>3. CallMemory'
    BY <2>1 DEF CallMemory, ArgOK, Client
  <2> QED
    BY <2>2, <2>3 DEF Memory
<1> QED
  BY <1>3, <1>4, <1>5, <1>6 DEF Environment

\* Memory holds in every reachable state, on top of the invariant of ControlPlaneProofs.
THEOREM HandlersRemember == Spec => []Memory
<1>1. ASSUME Init
      PROVE  Memory
  <2>1. \A c \in Client : pc[c] = "idle"
    BY <1>1 DEF Init, StoreInit
  <2> QED
    BY <2>1 DEF Memory, OrcMemory, CallMemory, ArgOK, Client
<1>2. ASSUME IInv, Memory, [Next]_vars
      PROVE  Memory'
  <2>1. CASE UNCHANGED vars
    BY <1>2, <2>1 DEF vars, storeVars, managerVars, orchestratorVars, Memory, OrcMemory, orcBody,
                      Breached, CallMemory, ArgOK
  <2>2. ASSUME NEW n \in Namespace, Sync(n)
        PROVE  Memory'
    <3>1. UNCHANGED <<pc, copy, arg, currentCost, effects>>
      BY <2>2 DEF Sync, CacheSync, managerVars, orchestratorVars
    <3> QED
      BY <1>2, <3>1 DEF Memory, OrcMemory, orcBody, Breached, CallMemory, ArgOK
  <2> QED
    BY <1>2, <2>1, <2>2, CallsKeepMemory, ValidationKeepsMemory, EvaluatingKeepsMemory,
       EnvironmentKeepsMemory DEF Next
<1>3. IInv /\ Memory /\ [Next]_vars => Memory'
  BY <1>2
<1>4. Init => Memory
  BY <1>1
<1> QED
  BY <1>3, <1>4, Inductive, PTL DEF Spec

----------------------------------------------------------------------------
(* Evaluations.                                                            *)

\* An evaluation that reaches the status was made of the stored object, which is not in
\* phase Error, and after the breach action if the cost breaches a threshold.
LEMMA EvaluationMoves ==
    ASSUME IInv, Memory, [Next]_vars, NEW n \in Namespace, Present(n), Present(n)',
           store'[n].eval # store[n].eval
    PROVE  /\ store[n].phase # "Error"
           /\ store'[n].body = store[n].body
           /\ store'[n].eval = {[limit |-> store[n].body.monthlyLimit, cost |-> currentCost]}
           /\ Breached(store[n].body, currentCost) => "breach" \in effects
<1>1. PICK o, p : o = store[n] /\ p = store'[n]
  OBVIOUS
<1>2. o \in Object /\ StatusMove(o, p) /\ p.eval # o.eval
  BY <1>1, StatusMoves
<1>3. OrcHasEvaluated(o) /\ p = WithStatus(o, Evaluated(o, currentCost))
  BY <1>2 DEF StatusMove, SameStatus, WithStatus, Judged, Object
<1>4. /\ p.body = o.body
      /\ p.eval = {[limit |-> o.body.monthlyLimit, cost |-> currentCost]}
  BY <1>2, <1>3 DEF WithStatus, Evaluated, Object
<1>5. o.phase # "Error" /\ (Breached(o.body, currentCost) => "breach" \in effects)
  BY <1>3 DEF OrcHasEvaluated, Memory, OrcMemory, orcBody
<1> QED
  BY <1>1, <1>4, <1>5

\* A policy in phase Error gets no evaluation, however long ago the orchestrator read the
\* phase: a verdict written since then makes its status update a conflict.
THEOREM ErrorsAreNotEvaluated == Spec => ErrorIsNotEvaluated
<1> DEFINE A == \A n \in Namespace : Present(n) /\ Present(n)' /\ store'[n].eval # store[n].eval =>
                   store[n].phase # "Error"
<1>1. IInv /\ Memory /\ [Next]_vars => [A]_vars
  BY EvaluationMoves
<1> HIDE DEF A
<1>2. Spec => [][A]_vars
  BY <1>1, Inductive, HandlersRemember, PTL DEF Spec
<1> QED
  BY <1>2 DEF A, ErrorIsNotEvaluated

\* Usage at or over a stored threshold shows in a status only after the breach action of
\* that evaluation was attempted, for all limits, thresholds and costs.
THEOREM BreachesAreActedOn == Spec => ReportedBreachWasActedOn
<1> DEFINE A == \A n \in Namespace : Present(n) /\ Present(n)' /\ store'[n].eval # store[n].eval =>
                   \A e \in store'[n].eval :
                      ReachesThreshold(store'[n].body, e) => "breach" \in effects
<1>1. ASSUME IInv, Memory, [Next]_vars
      PROVE  A
  <2> SUFFICES ASSUME NEW n \in Namespace, Present(n), Present(n)', store'[n].eval # store[n].eval,
                      NEW e \in store'[n].eval, ReachesThreshold(store'[n].body, e)
               PROVE  "breach" \in effects
    OBVIOUS
  <2>1. PICK b : b = store[n].body
    OBVIOUS
  <2>2. /\ store'[n].body = b
        /\ e = [limit |-> b.monthlyLimit, cost |-> currentCost]
        /\ Breached(b, currentCost) => "breach" \in effects
    BY <1>1, <2>1, EvaluationMoves
  <2>3. ReachesThreshold(b, e)
    BY <2>2
  <2>4. Breached(b, currentCost)
    BY <2>2, <2>3 DEF ReachesThreshold, Breached
  <2> QED
    BY <2>2, <2>4
<1>2. IInv /\ Memory /\ [Next]_vars => [A]_vars
  BY <1>1
<1> HIDE DEF A
<1>3. Spec => [][A]_vars
  BY <1>2, Inductive, HandlersRemember, PTL DEF Spec
<1> QED
  BY <1>3 DEF A, ReportedBreachWasActedOn

----------------------------------------------------------------------------
(* The refinement of VersionedPolicy.                                      *)

\* What is seen of one object, and of all: the refinement mapping.
Seen(o) == IF o = Absent THEN << >> ELSE Window(o)
Number(o) == IF o = Absent THEN 0 ELSE o.version
Specs == [n \in Namespace |-> Seen(store[n])]
Numbers == [n \in Namespace |-> Number(store[n])]

\* The window of an object is a sequence of its earlier specs and its spec.
LEMMA WindowIsSequence ==
    ASSUME NEW o \in Object
    PROVE  /\ Window(o) \in Seq(Body)
           /\ Len(Window(o)) = Len(o.hist) + 1
           /\ \A i \in 1..Len(o.hist) : Window(o)[i] = o.hist[i].body
           /\ Window(o)[Len(o.hist) + 1] = o.body
<1> DEFINE L == Len(o.hist)
           e(i) == IF i <= L THEN o.hist[i].body ELSE o.body
<1>1. o.hist \in Seq(Entry) /\ L \in Nat /\ o.body \in Body
  BY DEF Object
<1>2. \A i \in 1..L : o.hist[i] \in Entry
  BY <1>1
<1>3. \A i \in 1..(L + 1) : e(i) \in Body
  BY <1>1, <1>2 DEF Entry
<1>4. Window(o) = [i \in 1..(L + 1) |-> e(i)]
  BY DEF Window
<1>5. Window(o) \in [1..(L + 1) -> Body]
  BY <1>3, <1>4
<1>6. Window(o) \in Seq(Body)
  BY <1>1, <1>5
<1>7. Len(Window(o)) = L + 1
  BY <1>1, <1>5, <1>6
<1> QED
  BY <1>1, <1>4, <1>6, <1>7

\* The next version joins the window, which drops its oldest spec when it is full.
LEMMA PublishedWindow ==
    ASSUME NEW o \in Object, NEW b \in Body, Len(o.hist) <= maxVersionHistory,
           Republished(o, b) \in Object
    PROVE  Window(Republished(o, b)) =
              Versioned!Newest(Append(Window(o), b), maxVersionHistory + 1)
<1> DEFINE K == maxVersionHistory
           L == Len(o.hist)
           all == Append(o.hist, [version |-> o.version, body |-> o.body])
           p == Republished(o, b)
           W == Window(o)
           A == Append(W, b)
           P == Window(p)
<1>1. K \in Nat /\ K # 0 /\ L \in Nat /\ o.hist \in Seq(Entry) /\ o.body \in Body /\ L <= K
  BY MaxVersionHistoryPositive DEF Object
<1>2. [version |-> o.version, body |-> o.body] \in Entry
  BY DEF Object, Entry
<1>3. /\ all \in Seq(Entry) /\ Len(all) = L + 1
      /\ \A i \in 1..L : all[i] = o.hist[i]
      /\ all[L + 1] = [version |-> o.version, body |-> o.body]
  BY <1>1, <1>2
<1>4. p.hist = Suffix(all, K) /\ p.body = b
  BY DEF Republished, appendVersionHistory, Object
<1>5. /\ W \in Seq(Body) /\ Len(W) = L + 1 /\ W[L + 1] = o.body
      /\ \A i \in 1..L : W[i] = o.hist[i].body
  BY WindowIsSequence
<1>6. /\ A \in Seq(Body) /\ Len(A) = L + 2 /\ A[L + 2] = b
      /\ \A i \in 1..(L + 1) : A[i] = W[i]
  BY <1>1, <1>5
<1>7. \A i \in 1..(L + 1) : A[i] = all[i].body
  BY <1>1, <1>3, <1>5, <1>6
<1>8. /\ P \in Seq(Body) /\ Len(P) = Len(p.hist) + 1 /\ P[Len(p.hist) + 1] = b
      /\ \A i \in 1..Len(p.hist) : P[i] = p.hist[i].body
  BY <1>4, WindowIsSequence
<1> HIDE DEF K, L, all, p, W, A, P
<1>9. CASE L < K
  <2>1. p.hist = all /\ Versioned!Newest(A, K + 1) = A
    BY <1>1, <1>3, <1>4, <1>6, <1>9 DEF Suffix, Versioned!Newest
  <2>2. Len(P) = Len(A) /\ \A i \in 1..Len(A) : P[i] = A[i]
    BY <1>1, <1>3, <1>6, <1>7, <1>8, <2>1
  <2>3. P = A
    BY <2>2, <1>6, <1>8, SeqEqual
  <2> QED
    BY <2>1, <2>3 DEF K, A, W, P, p
<1>10. CASE L = K
  <2>1. p.hist = SubSeq(all, 2, L + 1) /\ Versioned!Newest(A, K + 1) = SubSeq(A, 2, L + 2)
    BY <1>1, <1>3, <1>4, <1>6, <1>10 DEF Suffix, Versioned!Newest
  <2>2. Len(p.hist) = L /\ \A i \in 1..L : p.hist[i] = all[i + 1]
    BY <1>1, <1>3, <2>1
  <2>3. /\ SubSeq(A, 2, L + 2) \in Seq(Body) /\ Len(SubSeq(A, 2, L + 2)) = L + 1
        /\ \A i \in 1..(L + 1) : SubSeq(A, 2, L + 2)[i] = A[i + 1]
    BY <1>1, <1>6
  <2>4. \A i \in 1..(L + 1) : P[i] = A[i + 1]
    BY <1>1, <1>6, <1>7, <1>8, <2>2
  <2>5. P = SubSeq(A, 2, L + 2)
    <3>1. PICK s : s = SubSeq(A, 2, L + 2)
      OBVIOUS
    <3>2. s \in Seq(Body) /\ Len(s) = Len(P) /\ \A i \in 1..Len(P) : P[i] = s[i]
      BY <3>1, <1>8, <2>2, <2>3, <2>4
    <3> QED
      BY <3>1, <3>2, <1>8, SeqEqual
  <2> QED
    BY <2>1, <2>5 DEF K, A, W, P, p
<1> QED
  BY <1>1, <1>9, <1>10

\* One object stored changes one window and one number.
LEMMA OneLine ==
    ASSUME CoreTypeOK, NEW n \in Namespace, NEW w, store' = [store EXCEPT ![n] = w]
    PROVE  /\ Specs' = [Specs EXCEPT ![n] = Seen(w)]
           /\ Numbers' = [Numbers EXCEPT ![n] = Number(w)]
<1>1. \A m \in Namespace : store'[m] = IF m = n THEN w ELSE store[m]
  BY DEF CoreTypeOK
<1>2. /\ Specs' = [m \in Namespace |-> Seen(store'[m])]
      /\ Numbers' = [m \in Namespace |-> Number(store'[m])]
  BY DEF Specs, Numbers, Seen, Number, Window
<1>3. /\ \A m \in Namespace : Seen(store'[m]) = IF m = n THEN Seen(w) ELSE Seen(store[m])
      /\ \A m \in Namespace : Number(store'[m]) = IF m = n THEN Number(w) ELSE Number(store[m])
  BY <1>1
<1> QED
  BY <1>2, <1>3 DEF Specs, Numbers

\* A status is no part of the line of versions.
LEMMA StatusIsNotSeen ==
    ASSUME NEW o \in Object, NEW s
    PROVE  WithStatus(o, s) \in Object => Seen(WithStatus(o, s)) = Seen(o)
                                          /\ Number(WithStatus(o, s)) = Number(o)
<1> SUFFICES ASSUME WithStatus(o, s) \in Object
             PROVE  Seen(WithStatus(o, s)) = Seen(o) /\ Number(WithStatus(o, s)) = Number(o)
  OBVIOUS
<1>1. PICK p : p = WithStatus(o, s)
  OBVIOUS
<1>2. p.hist = o.hist /\ p.body = o.body /\ p.version = o.version /\ p # Absent /\ o # Absent
  BY <1>1, AbsentIsNoObject DEF WithStatus, Object
<1>3. Seen(p) = Seen(o) /\ Number(p) = Number(o)
  BY <1>2 DEF Seen, Number, Window
<1> QED
  BY <1>1, <1>3

\* A write of a status leaves the line of versions as it is.
LEMMA StatusStepStutters ==
    ASSUME IInv, NEW c \in Client, NEW s \in Object, NEW moved, UpdateStatus(c, s, moved),
           copy[c].obj \in Object
    PROVE  UNCHANGED <<Specs, Numbers>>
<1>0. CoreTypeOK /\ Fresh
  BY TypeParts DEF IInv
<1> DEFINE n == copy[c].ns
<1>1. n \in Namespace /\ store[n] \in Object
  BY <1>0, AcceptedCopy, AbsentIsNoObject DEF UpdateStatus
<1>2. PICK w : w = WithStatus(store[n], s)
  OBVIOUS
<1>3. store' = store \/ store' = [store EXCEPT ![n] = w]
  BY <1>2 DEF UpdateStatus, Stored, NotStored
<1>4. CASE store' = store
  BY <1>4 DEF Specs, Numbers
<1>5. CASE store' = [store EXCEPT ![n] = w]
  <2>1. w \in Object
    BY <1>1, <1>2 DEF WithStatus, Object
  <2>2. Seen(w) = Specs[n] /\ Number(w) = Numbers[n]
    BY <2>1, <1>1, <1>2, StatusIsNotSeen DEF Specs, Numbers
  <2>3. Specs' = [Specs EXCEPT ![n] = Specs[n]] /\ Numbers' = [Numbers EXCEPT ![n] = Numbers[n]]
    BY <2>2, <1>0, <1>1, <1>5, OneLine
  <2> QED
    BY <2>3, <1>1 DEF Specs, Numbers
<1> QED
  BY <1>3, <1>4, <1>5

\* The update both calls send adds one spec and one number to the stored policy.
LEMMA PublishExtends ==
    ASSUME IInv, NEW c \in Client, NEW n, NEW b \in Body, NEW after, n = copy[c].ns,
           Accepts(c), copy[c].obj \in Object, pc[c] # "status",
           Stored(c, n, WithStatus(Republished(copy[c].obj, b), store[n]), after)
    PROVE  /\ n \in Namespace
           /\ store[n] = copy[c].obj
           /\ Versioned!Extend(n, b)
<1>0. CoreTypeOK /\ Fresh /\ ObjectsGood
  BY TypeParts DEF IInv
<1>1. PICK o : o = store[n]
  OBVIOUS
<1>2. n \in Namespace /\ o \in Object /\ o # Absent /\ copy[c].obj = o
  BY <1>0, <1>1, AcceptedCopy, AbsentIsNoObject
<1>3. GoodObject(o, published[n])
  BY <1>0, <1>1, <1>2 DEF ObjectsGood, Present
<1>4. PICK w : w = Republished(o, b)
  OBVIOUS
<1>5. w \in Object /\ w # Absent /\ w = WithStatus(Republished(o, b), o)
  BY <1>2, <1>3, <1>4, RepublishedIsGood, AbsentIsNoObject
<1>6. store' = [store EXCEPT ![n] = w]
  BY <1>1, <1>2, <1>5 DEF Stored
<1>7. Specs' = [Specs EXCEPT ![n] = Seen(w)] /\ Numbers' = [Numbers EXCEPT ![n] = Number(w)]
  BY <1>0, <1>2, <1>6, OneLine
<1>8. Seen(w) = Versioned!Newest(Append(Specs[n], b), maxVersionHistory + 1)
  <2>1. Len(o.hist) <= maxVersionHistory
    BY <1>3 DEF GoodObject, Contiguous
  <2>2. Window(w) = Versioned!Newest(Append(Window(o), b), maxVersionHistory + 1)
    BY <1>2, <1>4, <1>5, <2>1, PublishedWindow
  <2>3. Specs[n] = Window(o) /\ Seen(w) = Window(w)
    BY <1>1, <1>2, <1>5 DEF Specs, Seen
  <2> QED
    BY <2>2, <2>3
<1>9. Number(w) = Numbers[n] + 1
  BY <1>1, <1>2, <1>4, <1>5 DEF Numbers, Number, Republished, Object
<1>10. Versioned!Extend(n, b)
  <2>1. /\ Specs' = [Specs EXCEPT ![n] = Versioned!Newest(Append(@, b), maxVersionHistory + 1)]
        /\ Numbers' = [Numbers EXCEPT ![n] = @ + 1]
    BY <1>7, <1>8, <1>9
  <2> QED
    BY <2>1 DEF Versioned!Extend, Specs, Numbers, Seen, Number, Present
<1> QED
  BY <1>1, <1>2, <1>10

\* ApplyPolicy publishes a valid spec, the first of a new policy or the next of the
\* stored one.
LEMMA ApplyRefines ==
    ASSUME IInv, Memory, NEW c \in Caller, ApplyCommit(c)
    PROVE  Versioned!Next
<1>0. CoreTypeOK /\ Rest /\ Fresh
  BY TypeParts DEF IInv
<1>a. PICK n, b : n = copy[c].ns /\ b = arg[c]
  OBVIOUS
<1>1. /\ c \in Client /\ pc[c] = "apply" /\ Accepts(c) /\ n \in Namespace
      /\ copy[c].obj \in Object \cup {Absent} /\ b \in Body /\ IsValid(b)
  BY <1>0, <1>a DEF ApplyCommit, Client, CoreTypeOK, Copy, Rest, Memory, CallMemory, ArgOK
<1>2. Versioned!Extend(n, b)
  <2>1. CASE copy[c].obj = Absent
    <3>1. store[n] = Absent
      BY <1>1, <1>a, <2>1 DEF Accepts
    <3>2. PICK w : w = Created(b)
      OBVIOUS
    <3>3. store' = [store EXCEPT ![n] = w]
      BY <1>a, <2>1, <3>2 DEF ApplyCommit, Stored
    <3>4. w \in Object
      BY <1>1, <3>2, CreatedIsGood
    <3>5. Specs' = [Specs EXCEPT ![n] = Seen(w)] /\ Numbers' = [Numbers EXCEPT ![n] = Number(w)]
      BY <1>0, <1>1, <3>3, OneLine
    <3>6. Specs[n] = << >> /\ Numbers[n] = 0
      BY <1>1, <3>1 DEF Specs, Numbers, Seen, Number
    <3>7. w.hist = << >> /\ w.body = b /\ w.version = 1 /\ w # Absent
      BY <3>2, <3>4, AbsentIsNoObject DEF Created
    <3>8. Seen(w) = <<b>> /\ Number(w) = 1
      BY <3>7 DEF Seen, Number, Window
    <3>9. Versioned!Newest(Append(<< >>, b), maxVersionHistory + 1) = <<b>>
      BY MaxVersionHistoryPositive DEF Versioned!Newest
    <3>10. /\ Specs' = [Specs EXCEPT ![n] = Versioned!Newest(Append(@, b), maxVersionHistory + 1)]
           /\ Numbers' = [Numbers EXCEPT ![n] = @ + 1]
      <4>1. Versioned!Newest(Append(Specs[n], b), maxVersionHistory + 1) = Seen(w)
        BY <3>6, <3>8, <3>9
      <4>2. Numbers[n] + 1 = Number(w)
        BY <3>6, <3>8
      <4> QED
        BY <3>5, <4>1, <4>2
    <3> QED
      BY <3>10 DEF Versioned!Extend, Specs, Numbers, Seen, Number, Present
  <2>2. CASE copy[c].obj # Absent
    <3>1. Stored(c, n, WithStatus(Republished(copy[c].obj, b), store[n]), NoCopy)
      BY <1>a, <2>2 DEF ApplyCommit
    <3> QED
      BY <3>1, <2>2, <1>1, <1>a, PublishExtends
  <2> QED
    BY <2>1, <2>2
<1>3. Versioned!Publish(n, b)
  BY <1>1, <1>2 DEF Versioned!Publish
<1> QED
  BY <1>1, <1>3 DEF Versioned!Next

\* RollbackPolicy restores a spec that can be seen when its update is accepted, though
\* it was looked up in the cached history.
LEMMA RollbackRefines ==
    ASSUME IInv, Memory, NEW c \in Caller, NEW answered \in BOOLEAN, RollbackCommit(c, answered)
    PROVE  Versioned!Next
<1>0. CoreTypeOK /\ Rest /\ Fresh /\ ObjectsGood
  BY TypeParts DEF IInv
<1>a. PICK n, b : n = copy[c].ns /\ b = arg[c]
  OBVIOUS
<1>1. c \in Client /\ pc[c] = "rollback" /\ Accepts(c) /\ b \in Body
  BY <1>0, <1>a DEF RollbackCommit, Client, Rest
<1>2. copy[c].obj \in Object
  BY <1>0, <1>1 DEF Fresh, CopyHeld
<1>3. PICK i \in DOMAIN copy[c].obj.hist : copy[c].obj.hist[i].body = b
  BY <1>1, <1>a DEF Memory, CallMemory, ArgOK
<1>4. PICK after : Stored(c, n, WithStatus(Republished(copy[c].obj, b), store[n]), after)
  BY <1>a DEF RollbackCommit
<1>5. n \in Namespace /\ store[n] = copy[c].obj /\ Versioned!Extend(n, b)
  BY <1>1, <1>2, <1>4, <1>a, PublishExtends
<1>6. PICK o : o = store[n]
  OBVIOUS
<1>7. o \in Object /\ o # Absent /\ o.hist \in Seq(Entry) /\ i \in 1..Len(o.hist)
  BY <1>2, <1>3, <1>5, <1>6, AbsentIsNoObject DEF Object
<1>8. Len(o.hist) <= maxVersionHistory /\ Len(o.hist) \in Nat
  BY <1>0, <1>5, <1>6, <1>7 DEF ObjectsGood, Present, GoodObject, Contiguous
<1>9. Specs[n] = Window(o) /\ Len(Specs[n]) = Len(o.hist) + 1 /\ Specs[n][i] = b
  BY <1>3, <1>5, <1>6, <1>7, WindowIsSequence DEF Specs, Seen
<1>10. i \in 1..maxVersionHistory /\ i \in 1..(Len(Specs[n]) - 1)
  BY <1>7, <1>8, <1>9, MaxVersionHistoryPositive
<1>11. Versioned!Restore(n, i)
  <2>1. PICK W : W = [m \in Namespace |-> IF Present(m) THEN Window(store[m]) ELSE << >>]
    OBVIOUS
  <2>2. W = Specs
    BY <2>1 DEF Specs, Seen, Present
  <2>3. W[n][i] = b /\ i \in 1..(Len(W[n]) - 1)
    BY <2>2, <1>9, <1>10
  <2> QED
    BY <2>1, <2>3, <1>5 DEF Versioned!Restore, Versioned!Extend
<1> QED
  BY <1>5, <1>10, <1>11 DEF Versioned!Next

\* A user's create, edit and delete.
LEMMA UserRefines ==
    ASSUME IInv, NEW n \in Namespace
    PROVE  /\ \A b \in Body : UserCreates(n, b) \/ UserEdits(n, b) => Versioned!Next
           /\ UserDeletes(n) => Versioned!Next
<1>0. CoreTypeOK
  BY TypeParts DEF IInv
<1>1. ASSUME NEW b \in Body, UserCreates(n, b)
      PROVE  Versioned!Next
  <2>1. PICK w : w = [Created(b) EXCEPT !.version = 0]
    OBVIOUS
  <2>2. store[n] = Absent /\ store' = [store EXCEPT ![n] = w]
    BY <1>1, <2>1 DEF UserCreates, StoredByUser
  <2>3. w \in Object /\ w.hist = << >> /\ w.body = b /\ w.version = 0
    BY <2>1, CreatedIsGood DEF Created
  <2>4. w # Absent
    BY <2>3, AbsentIsNoObject
  <2>5. Specs[n] = << >> /\ Seen(w) = <<b>> /\ Number(w) = 0
    BY <2>2, <2>3, <2>4 DEF Specs, Seen, Number, Window
  <2>6. Specs' = [Specs EXCEPT ![n] = <<b>>] /\ Numbers' = [Numbers EXCEPT ![n] = 0]
    BY <2>2, <2>5, <1>0, OneLine
  <2>7. Versioned!UserCreates(n, b)
    BY <2>5, <2>6 DEF Versioned!UserCreates, Versioned!Exists, Specs, Numbers, Seen, Number, Present
  <2> QED
    BY <2>7 DEF Versioned!Next
<1>2. ASSUME NEW b \in Body, UserEdits(n, b)
      PROVE  Versioned!Next
  <2>1. PICK o, w : o = store[n] /\ w = [o EXCEPT !.body = b]
    OBVIOUS
  <2>2. o # Absent /\ store' = [store EXCEPT ![n] = w]
    BY <1>2, <2>1 DEF UserEdits, StoredByUser
  <2>3. o \in Object
    BY <1>0, <2>1, <2>2 DEF CoreTypeOK
  <2>4. w \in Object /\ w.hist = o.hist /\ w.body = b /\ w.version = o.version
    BY <2>1, <2>3 DEF Object
  <2>5. w # Absent
    BY <2>4, AbsentIsNoObject
  <2>6. Specs[n] = Window(o) /\ Seen(w) = Window(w) /\ Numbers[n] = o.version /\ Number(w) = o.version
    BY <2>1, <2>2, <2>4, <2>5 DEF Specs, Numbers, Seen, Number
  <2>7. /\ Window(o) \in Seq(Body) /\ Len(Window(o)) = Len(o.hist) + 1
        /\ Window(w) \in Seq(Body) /\ Len(Window(w)) = Len(o.hist) + 1
        /\ \A i \in 1..Len(o.hist) : Window(w)[i] = Window(o)[i]
        /\ Window(w)[Len(o.hist) + 1] = b
    BY <2>3, <2>4, WindowIsSequence
  <2>8. Window(w) = [Window(o) EXCEPT ![Len(Window(o))] = b]
    <3>1. PICK W, V, L : W = Window(o) /\ V = Window(w) /\ L = Len(o.hist)
      OBVIOUS
    <3>2. /\ L \in Nat /\ W \in [1..(L + 1) -> Body] /\ V \in [1..(L + 1) -> Body]
          /\ Len(W) = L + 1 /\ V[L + 1] = b /\ \A i \in 1..L : V[i] = W[i]
      BY <2>3, <2>7, <3>1 DEF Object
    <3>3. V = [W EXCEPT ![L + 1] = b]
      BY <3>2
    <3> QED
      BY <3>1, <3>2, <3>3
  <2>9. Specs[n] # << >> /\ Specs[n] \in Seq(Body) /\ Seen(w) = [Specs[n] EXCEPT ![Len(Specs[n])] = b]
    <3>1. Len(o.hist) \in Nat
      BY <2>3 DEF Object
    <3>2. Window(o) # << >>
      BY <2>7, <3>1
    <3> QED
      BY <2>6, <2>7, <2>8, <3>2
  <2>10. Specs' = [Specs EXCEPT ![n] = Seen(w)] /\ Numbers' = [Numbers EXCEPT ![n] = Numbers[n]]
    BY <2>2, <2>6, <1>0, OneLine
  <2>11. Specs' = [Specs EXCEPT ![n][Len(Specs[n])] = b]
    BY <2>9, <2>10
  <2>12. Numbers' = Numbers
    BY <2>10 DEF Numbers
  <2>13. Versioned!UserEdits(n, b)
    BY <2>9, <2>11, <2>12 DEF Versioned!UserEdits, Versioned!Exists, Specs, Numbers, Seen, Number,
                              Present
  <2> QED
    BY <2>13 DEF Versioned!Next
<1>3. ASSUME UserDeletes(n)
      PROVE  Versioned!Next
  <2>1. PICK o : o = store[n]
    OBVIOUS
  <2>2. o # Absent /\ store' = [store EXCEPT ![n] = Absent]
    BY <1>3, <2>1 DEF UserDeletes, StoredByUser
  <2>3. o \in Object /\ Len(o.hist) \in Nat
    BY <1>0, <2>1, <2>2 DEF CoreTypeOK, Object
  <2>4. Specs[n] # << >>
    <3>1. Len(Window(o)) = Len(o.hist) + 1 /\ Specs[n] = Window(o)
      BY <2>1, <2>2, <2>3, WindowIsSequence DEF Specs, Seen
    <3> QED
      BY <3>1, <2>3
  <2>5. Specs' = [Specs EXCEPT ![n] = << >>] /\ Numbers' = [Numbers EXCEPT ![n] = 0]
    BY <2>2, <1>0, OneLine DEF Seen, Number
  <2>6. Versioned!UserDeletes(n)
    BY <2>4, <2>5 DEF Versioned!UserDeletes, Versioned!Exists, Specs, Numbers, Seen, Number, Present
  <2> QED
    BY <2>6 DEF Versioned!Next
<1> QED
  BY <1>1, <1>2, <1>3

\* Every step is a step of VersionedPolicy or changes nothing that can be seen.
LEMMA StepRefines ==
    ASSUME IInv, Memory, [Next]_vars
    PROVE  [Versioned!Next]_(Versioned!vars)
<1>0. CoreTypeOK /\ Rest /\ Fresh /\ ObjectsGood
  BY TypeParts DEF IInv
<1>1. ASSUME UNCHANGED <<Specs, Numbers>>
      PROVE  UNCHANGED Versioned!vars
  BY <1>1 DEF Versioned!vars, Specs, Numbers, Seen, Number, Present
<1>2. ASSUME store' = store
      PROVE  UNCHANGED Versioned!vars
  BY <1>2 DEF Versioned!vars, Present, Window
<1>3. CASE UNCHANGED vars
  BY <1>2, <1>3 DEF vars, storeVars
<1>4. ASSUME NEW m \in Namespace, Sync(m)
      PROVE  store' = store
  BY <1>4 DEF Sync, CacheSync
<1>5. ASSUME NEW c \in Client, pc[c] \in {"write", "status"}, Accepts(c)
      PROVE  /\ copy[c].obj \in Object
             /\ Consistent(copy[c].obj)
  <2>1. copy[c].obj \in Object
    BY <1>0, <1>5 DEF Fresh, CopyHeld
  <2>2. PICK o : o = store[copy[c].ns]
    OBVIOUS
  <2>3. /\ copy[c].ns \in Namespace /\ o \in Object /\ o # Absent
        /\ copy[c].obj = o \/ copy[c].obj = [o EXCEPT !.phase = DecodedPhase(o)]
    BY <1>0, <1>5, <2>1, <2>2, AcceptedCopy, AbsentIsNoObject
  <2>4. Consistent(o)
    BY <1>0, <2>2, <2>3 DEF ObjectsGood, Present, GoodObject
  <2> QED
    BY <2>1, <2>3, <2>4, StatusesAreConsistent
<1>6. ASSUME Validation
      PROVE  UNCHANGED Versioned!vars
  <2>1. ASSUME NEW moved \in BOOLEAN, NEW ok \in BOOLEAN, PolicyWrite(moved, ok)
        PROVE  UNCHANGED <<Specs, Numbers>>
    <3>1. /\ "policy" \in Client /\ pc["policy"] = "write"
          /\ UpdateStatus("policy", Judged(copy["policy"].obj), moved) /\ Accepts("policy")
      BY <1>6, <2>1 DEF Validation, PolicyReconcilerNext, Client, PolicyWrite, UpdateStatus
    <3>2. PICK s : s = Judged(copy["policy"].obj)
      OBVIOUS
    <3>3. s \in Object /\ copy["policy"].obj \in Object
      BY <3>1, <3>2, <1>5, StatusesAreConsistent
    <3> QED
      BY <3>1, <3>2, <3>3, StatusStepStutters
  <2>2. ASSUME NEW m \in Namespace, PolicyRead(m)
        PROVE  store' = store
    BY <2>2 DEF PolicyRead
  <2>3. PolicyWriteFails => store' = store
    BY DEF PolicyWriteFails, NotStored
  <2> QED
    BY <1>1, <1>2, <1>6, <2>1, <2>2, <2>3 DEF Validation, PolicyReconcilerNext
<1>7. ASSUME Evaluating
      PROVE  UNCHANGED Versioned!vars
  <2> DEFINE O == "orchestrator"
  <2>1. ASSUME NEW moved \in BOOLEAN, OrcWrite(moved)
        PROVE  UNCHANGED <<Specs, Numbers>>
    <3>1. /\ O \in Client /\ pc[O] = "write" /\ currentCost \in Cost
          /\ UpdateStatus(O, Evaluated(copy[O].obj, currentCost), moved) /\ Accepts(O)
      BY <1>0, <1>7, <2>1 DEF Evaluating, OrchestratorNext, Client, OrcWrite, UpdateStatus, Rest
    <3>2. PICK s : s = Evaluated(copy[O].obj, currentCost)
      OBVIOUS
    <3>3. s \in Object /\ copy[O].obj \in Object
      BY <3>1, <3>2, <1>5, StatusesAreConsistent
    <3> QED
      BY <3>1, <3>2, <3>3, StatusStepStutters
  <2>2. ASSUME NEW m \in Namespace, OrcRead(m)
        PROVE  store' = store
    BY <2>2 DEF OrcRead
  <2>3. OrcQuery \/ OrcQueryFails \/ OrcWriteFails => store' = store
    BY DEF OrcQuery, OrcQueryFails, OrcWriteFails, NotStored
  <2>4. ASSUME NEW sent \in BOOLEAN
        PROVE  /\ OrcBreach(sent) => store' = store
               /\ \A outcome \in {"no savings", "applied", "failed"} :
                     OrcOptimize(outcome, sent) => store' = store
    BY DEF OrcBreach, OrcOptimize
  <2> QED
    BY <1>1, <1>2, <1>7, <2>1, <2>2, <2>3, <2>4 DEF Evaluating, OrchestratorNext
<1>8. ASSUME Calls
      PROVE  Versioned!Next \/ UNCHANGED Versioned!vars
  <2>1. ASSUME NEW c \in Caller, RollbackStatus(c)
        PROVE  UNCHANGED <<Specs, Numbers>>
    <3>1. /\ c \in Client /\ pc[c] = "status" /\ UpdateStatus(c, copy[c].obj, FALSE) /\ Accepts(c)
      BY <2>1 DEF RollbackStatus, UpdateStatus, Client
    <3>2. PICK s : s = copy[c].obj
      OBVIOUS
    <3>3. s \in Object /\ UpdateStatus(c, s, FALSE)
      BY <3>1, <3>2, <1>5
    <3> QED
      BY <3>1, <3>2, <3>3, StatusStepStutters
  <2>2. ASSUME NEW c \in Caller
        PROVE  /\ CallFails(c) => store' = store
               /\ \A m \in Namespace :
                     /\ \A b \in Body : ApplyStart(c, m, b) => store' = store
                     /\ \A v \in 0..MaxPublish : RollbackStart(c, m, v) => store' = store
    BY DEF CallFails, ApplyStart, RollbackStart, NotStored
  <2> QED
    BY <1>1, <1>2, <1>8, <2>1, <2>2, ApplyRefines, RollbackRefines DEF Calls, ManagerNext
<1>9. ASSUME Environment
      PROVE  Versioned!Next \/ UNCHANGED Versioned!vars
  <2>1. ASSUME NEW t \in TargetNamespace, NEW k \in Cost, CostMoves(t, k)
        PROVE  store' = store
    BY <2>1 DEF CostMoves, storeVars
  <2>2. Restart => store' = store
    BY DEF Restart
  <2> QED
    BY <1>2, <1>9, <2>1, <2>2, UserRefines DEF Environment
<1> QED
  BY <1>2, <1>3, <1>4, <1>6, <1>7, <1>8, <1>9 DEF Next

\* Through caches, conflicts, lost answers, crashes and two reconcilers that write the
\* same objects, a policy's versions are those of VersionedPolicy: every ApplyPolicy
\* adds one valid spec, every RollbackPolicy one that could be seen at that moment, and
\* nothing else moves the line but the user.
THEOREM VersionsAreImplemented == Spec => ImplementsVersionedPolicy
<1>1. Init => Versioned!Init
  BY DEF Init, StoreInit, Versioned!Init, Present
<1>2. IInv /\ Memory /\ [Next]_vars => [Versioned!Next]_(Versioned!vars)
  BY StepRefines
<1> QED
  BY <1>1, <1>2, Inductive, HandlersRemember, PTL DEF Spec, Versioned!Spec, ImplementsVersionedPolicy
===============================================================================
