------------------------------ MODULE ApiServer ------------------------------
(***************************************************************************)
(* pkg/api: the REST server on top of the cost store, the policy manager   *)
(* and the audit writer, while the database is being migrated, the         *)
(* collector stores cost rows and callers write audit entries.             *)
(*                                                                         *)
(* A request is its role, method, route, whether its parameters parse, its *)
(* path or query argument ("" for none) and its time range.  It is handled *)
(* in two steps: routing, role check and parameters; then the query.       *)
(***************************************************************************)
EXTENDS AuditLog, FiniteSetsExt

CONSTANTS Client,      \* one request each
          Request,     \* the requests they may send
          Namespace,
          PolicyName,  \* the policies that exist
          Default,     \* a time that is not given
          DayLength,   \* ticks of a day
          MaxRows      \* bound: rows of cost_records

ASSUME DayLengthPositive == DayLength \in Nat \ {0}

VARIABLES costRecords,  \* table cost_records
          hpc,          \* where a request is
          request,      \* the request
          range,        \* the time range it asks for
          stable,       \* history: the rows that were there when it arrived
          response      \* the response

apiVars == <<costRecords, hpc, request, range, stable, response>>
vars == <<dbVars, auditVars, apiVars>>

Row == [time : 0..MaxTime, namespace : Namespace, cost : Nat]

NoResponse == [code |-> 0]

Init ==
    /\ DatabaseInit
    /\ AuditInit
    /\ costRecords = {}
    /\ hpc = [c \in Client |-> "idle"]
    /\ request \in [Client -> Request]
    /\ range = [c \in Client |-> <<0, 0>>]
    /\ stable = [c \in Client |-> {}]
    /\ response = [c \in Client |-> NoResponse]

----------------------------------------------------------------------------
(* Routes and roles *)

\* NewServer: the method of each route.  The stubs answer without a query.
PublicRoutes == {"healthz", "readyz"}
StubRoutes   == {"forecasts", "forecast", "instance-mix", "recommendations", "approve"}
CostRoutes   == {"costs", "namespace", "team", "reports"}
PolicyRoutes == {"policies", "status"}
Routes == PublicRoutes \cup StubRoutes \cup CostRoutes \cup PolicyRoutes \cup {"audit-log"}

MethodOf(route) == IF route \in {"reports", "approve"} THEN "POST" ELSE "GET"

\* The routes whose path begins with policies, reports or recommendations.
EditorRoutes == PolicyRoutes \cup {"reports", "recommendations", "approve"}

isAuthorized(role, method, route) ==
    \/ role = "admin"
    \/ role \in {"editor", "viewer"} /\ method = "GET"
    \/ role = "editor" /\ method \in {"POST", "PUT"} /\ route \in EditorRoutes

\* RBACMiddleware: a request without a role is a viewer's.
Admitted(r) ==
    \/ r.route \in PublicRoutes
    \/ isAuthorized(IF r.role = "" THEN "viewer" ELSE r.role, r.method, r.route)

----------------------------------------------------------------------------
(* Handlers *)

Respond(c, answer) ==
    /\ response' = [response EXCEPT ![c] = answer]
    /\ hpc' = [hpc EXCEPT ![c] = "done"]

Code(n) == [code |-> n]

\* parseTimeRange: the last day, up to now, where the request gives no time.
parseTimeRange(r) ==
    << IF r.from = Default THEN now - DayLength ELSE r.from,
       IF r.to = Default THEN now ELSE r.to >>

\* handleGenerateReport requires both times and their order; parseTimeRange
\* only that they parse.
BadParameters(r) ==
    \/ r.route \in CostRoutes /\ ~r.parses
    \/ r.route = "reports" /\ (r.from = Default \/ r.to = Default \/ r.to < r.from)

\* The request is routed, and refused, answered, or passed to its query.
Arrive(c) ==
    LET r == request[c]
    IN  /\ hpc[c] = "idle"
        /\ \/ /\ ~Admitted(r)
              /\ Respond(c, Code(403))
              /\ UNCHANGED <<range, stable>>
           \/ /\ Admitted(r)
              /\ r.method # MethodOf(r.route)
              /\ Respond(c, Code(405))
              /\ UNCHANGED <<range, stable>>
           \/ /\ Admitted(r) /\ r.method = MethodOf(r.route)
              /\ BadParameters(r)
              /\ Respond(c, Code(400))
              /\ UNCHANGED <<range, stable>>
           \/ /\ Admitted(r) /\ r.method = MethodOf(r.route)
              /\ r.route \in PublicRoutes \cup StubRoutes
              /\ Respond(c, Code(200))
              /\ UNCHANGED <<range, stable>>
           \/ /\ Admitted(r) /\ r.method = MethodOf(r.route)
              /\ r.route \notin PublicRoutes \cup StubRoutes
              /\ ~BadParameters(r)
              /\ range' = [range EXCEPT ![c] = parseTimeRange(r)]
              /\ stable' = [stable EXCEPT ![c] = costRecords]
              /\ hpc' = [hpc EXCEPT ![c] = "query"]
              /\ UNCHANGED response
        /\ UNCHANGED <<costRecords, request>>

\* Faulty variant: the end of the range is part of it.
EndIncluded(rows, span, namespace) ==
    {r \in rows : /\ r.time >= span[1] /\ r.time <= span[2]
                  /\ namespace = "" \/ r.namespace = namespace}

\* The rows QueryCostRecords selects; "" is every namespace.
Selected(rows, span, namespace) ==
    {r \in rows : /\ r.time >= span[1] /\ r.time < span[2]
                  /\ namespace = "" \/ r.namespace = namespace}

CostOf(rows) == MapThenSumSet(LAMBDA r : r.cost, rows)

\* QueryCostRecords: one record per day and namespace.
QueryCostRecords(rows, span, namespace) ==
    LET day(r) == r.time \div DayLength
        all    == Selected(rows, span, namespace)
    IN  {[day |-> day(r), namespace |-> r.namespace,
          cost |-> CostOf({s \in all : day(s) = day(r) /\ s.namespace = r.namespace})] : r \in all}

\* buildCostResponse and buildCostReport: the total and the sums by namespace.
buildCostResponse(records) ==
    [code        |-> 200,
     total       |-> CostOf(records),
     byNamespace |-> [n \in {r.namespace : r \in records} |-> CostOf({r \in records : r.namespace = n})]]

\* Only the namespace route filters; the team route returns every team's cost.
Filter(r) == IF r.route = "namespace" THEN r.arg ELSE ""

QueryCosts(c) ==
    LET r == request[c]
        records == QueryCostRecords(costRecords, range[c], Filter(r))
    IN  /\ hpc[c] = "query"
        /\ r.route \in CostRoutes
        /\ HasTable("cost_records")
        /\ Respond(c, IF r.route = "namespace" /\ records = {} THEN Code(404)
                      ELSE buildCostResponse(records))
        /\ UNCHANGED <<costRecords, request, range, stable>>

\* handleListPolicies, handleGetPolicyStatus
ListPolicies(c) ==
    LET r == request[c]
    IN  /\ hpc[c] = "query"
        /\ r.route \in PolicyRoutes
        /\ Respond(c, Code(IF r.route = "status" /\ r.arg \notin PolicyName THEN 404 ELSE 200))
        /\ UNCHANGED <<costRecords, request, range, stable>>

\* handleGetAuditLog
GetAuditLog(c) ==
    /\ hpc[c] = "query"
    /\ request[c].route = "audit-log"
    /\ HasTable("audit_log")
    /\ \E A \in QueryEntries(request[c].arg) : Respond(c, [code |-> 200, ids |-> A, upTo |-> Len(auditLog)])
    /\ UNCHANGED <<costRecords, request, range, stable>>

\* The query fails, for one because its table is missing.
QueryFails(c) ==
    /\ hpc[c] = "query"
    /\ Respond(c, Code(500))
    /\ UNCHANGED <<costRecords, request, range, stable>>

\* The collector's batch arrives; its time was taken when it was aggregated.
StoreCostRecords(t, n) ==
    /\ HasTable("cost_records")
    /\ Cardinality(costRecords) < MaxRows
    /\ t \in {now - 1, now} \cap Nat
    /\ costRecords' = costRecords \cup {[time |-> t, namespace |-> n, cost |-> 1]}
    /\ UNCHANGED <<hpc, request, range, stable, response>>

Handlers ==
    \E c \in Client :
        \/ Arrive(c)
        \/ QueryCosts(c) \/ ListPolicies(c) \/ GetAuditLog(c)
        \/ QueryFails(c)

Next ==
    \/ DatabaseNext /\ UNCHANGED <<auditVars, apiVars>>
    \/ AuditNext /\ UNCHANGED <<dbVars, apiVars>>
    \/ Handlers /\ UNCHANGED <<dbVars, auditVars>>
    \/ (\E t \in 0..MaxTime, n \in Namespace : StoreCostRecords(t, n)) /\ UNCHANGED <<dbVars, auditVars>>

Spec == Init /\ [][Next]_vars

----------------------------------------------------------------------------
\* A row is the row of an entry that was logged: with the time the caller gave,
\* or, if it gave none, one between the log line and now.
IsRowOf(row, e) ==
    /\ row.actor = e.actor
    /\ IF e.timestamp = ZeroTime THEN row.timestamp \in e.loggedAt..now
                                 ELSE row.timestamp = e.timestamp

\* Log, table and answers tell one story, though callers write at the same time,
\* inserts fail or arrive out of order and the table may come late.  Every row is
\* that of a logged entry, no entry has two, and none is without a time, though
\* entries may be logged without one.  An answer has rows of the actor asked for
\* only, and lacks one that was there only if it is full, of rows that are as new
\* or newer, however they arrived.  (WriteEntry, QueryEntries, handleGetAuditLog)
AuditTrailIsTrue ==
    /\ \A i \in DOMAIN auditLog : \E e \in emitted : IsRowOf(auditLog[i], e)
    /\ \A i, j \in DOMAIN auditLog : auditLog[i].actor = auditLog[j].actor => i = j
    /\ \A c \in Client :
          LET a == response[c]
              missing == {i \in Matching(request[c].arg) : i <= a.upTo /\ i \notin a.ids}
          IN  request[c].route = "audit-log" /\ a.code = 200 =>
                  /\ a.ids \subseteq Matching(request[c].arg)
                  /\ missing # {} => Cardinality(a.ids) = AuditLimit
                  /\ \A i \in missing, j \in a.ids : auditLog[i].timestamp <= auditLog[j].timestamp

\* A cost answer counts every row of its range that was stored before the
\* request arrived and no row that is not stored or not in the range, whatever
\* is stored while it is handled, and its parts add up; a query answered with
\* 200 found its table, migrated by then.  (handleGetCosts, buildCostResponse,
\* buildCostReport)
CostAnswersAreTrue ==
    \A c \in Client :
        LET r == request[c]
            a == response[c]
        IN  r.route \in CostRoutes /\ a.code = 200 =>
                /\ HasTable("cost_records")
                /\ CostOf(Selected(stable[c], range[c], Filter(r))) <= a.total
                /\ a.total <= CostOf({s \in costRecords : /\ range[c][1] <= s.time /\ s.time < range[c][2]
                                                          /\ Filter(r) \in {"", s.namespace}})
                /\ a.total = MapThenSumSet(LAMBDA n : a.byNamespace[n], DOMAIN a.byNamespace)
=============================================================================
