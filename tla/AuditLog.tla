------------------------------ MODULE AuditLog ------------------------------
(***************************************************************************)
(* pkg/audit: DefaultAuditWriter writes an entry to the structured log and *)
(* then, fire and forget, to the table audit_log.  Callers write at the    *)
(* same time.  An entry without a time is logged without one, and its row  *)
(* gets the time after that.  Every row has its time before it is          *)
(* inserted, so rows may arrive out of order, and the table may not be     *)
(* there yet.                                                              *)
(***************************************************************************)
EXTENDS Database, Integers, FiniteSets

CONSTANTS Actor,        \* callers of WriteEntry, one call each
          AuditLimit,   \* the default limit of a query; 100 in the code
          MaxTime       \* bound: ticks of the clock

ASSUME AuditLimitPositive == AuditLimit \in Nat \ {0}

VARIABLES now,      \* the clock
          emitted,  \* the structured log: entries as given, and when they were logged
          pending,  \* the rows under way: without a time, or being inserted
          auditLog  \* table audit_log: the row with id i is the i-th

auditVars == <<now, emitted, pending, auditLog>>

\* time.Time{}: it lies before every time of the clock.
ZeroTime == -1

AuditInit == now = 0 /\ emitted = {} /\ pending = {} /\ auditLog = <<>>

Tick ==
    /\ now < MaxTime
    /\ now' = now + 1
    /\ UNCHANGED <<emitted, pending, auditLog>>

NotCalled(a) == \A e \in emitted : e.actor # a

AuditLogEntry(a, t) == [actor |-> a, timestamp |-> t]

\* A caller takes the time, or leaves it out, and calls WriteEntry, which first
\* logs the entry as it is.  (Details that cannot be marshalled become NULL.)
WriteEntry(a, t) ==
    /\ NotCalled(a)
    /\ emitted' = emitted \cup {[actor |-> a, timestamp |-> t, loggedAt |-> now]}
    /\ pending' = pending \cup {AuditLogEntry(a, t)}
    /\ UNCHANGED <<now, auditLog>>

\* The row of an entry without a time gets the present one.
TakeTime(e) ==
    /\ e \in pending
    /\ e.timestamp = ZeroTime
    /\ pending' = (pending \ {e}) \cup {AuditLogEntry(e.actor, now)}
    /\ UNCHANGED <<now, emitted, auditLog>>

\* Faulty variant: an entry without a time is inserted without one.
InsertAsGiven(e) ==
    /\ e \in pending
    /\ HasTable("audit_log")
    /\ auditLog' = Append(auditLog, e)
    /\ pending' = pending \ {e}
    /\ UNCHANGED <<now, emitted>>

Insert(e) ==
    /\ e \in pending
    /\ e.timestamp # ZeroTime
    /\ HasTable("audit_log")
    /\ auditLog' = Append(auditLog, e)
    /\ pending' = pending \ {e}
    /\ UNCHANGED <<now, emitted>>

\* The insert fails, for one because the table is missing; the caller is not told.
InsertFails(e) ==
    /\ e \in pending
    /\ e.timestamp # ZeroTime
    /\ pending' = pending \ {e}
    /\ UNCHANGED <<now, emitted, auditLog>>

AuditNext ==
    \/ Tick
    \/ \E a \in Actor : \E t \in {ZeroTime, now} : WriteEntry(a, t)
    \/ \E e \in pending : TakeTime(e) \/ Insert(e) \/ InsertFails(e)

\* The rows a filter lets through; the empty filter is none.
Matching(actor) == {i \in DOMAIN auditLog : actor = "" \/ auditLog[i].actor = actor}

\* The answers of QueryEntries, as sets of ids: ORDER BY timestamp DESC LIMIT.
\* Which of two rows of the same time is cut off is left open.
QueryEntries(actor) ==
    {A \in SUBSET Matching(actor) :
        /\ Cardinality(A) = Cardinality(Matching(actor)) \/ Cardinality(A) = AuditLimit
        /\ Cardinality(A) <= AuditLimit
        /\ \A i \in A, j \in Matching(actor) \ A : auditLog[i].timestamp >= auditLog[j].timestamp}
=============================================================================
