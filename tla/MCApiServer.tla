----------------------------- MODULE MCApiServer -----------------------------
(* An instance of ApiServer for TLC. *)
EXTENDS ApiServer, TLC

InstanceSymmetry == Permutations(Process) \cup Permutations(Actor) \cup Permutations(Namespace)

Sent(role, method, route, arg, from, to, parses) ==
    [role |-> role, method |-> method, route |-> route, arg |-> arg,
     from |-> from, to |-> to, parses |-> parses]

\* A request is answered from one table at most, so the instance of a request
\* leaves out what happens to the tables it does not ask for.
Asks(routes) == \E c \in Client : request[c].route \in routes

OwnTable ==
    /\ Asks({"audit-log"}) \/ UNCHANGED <<emitted, pending, auditLog>>
    /\ Asks(CostRoutes) \/ UNCHANGED costRecords

\* Each handler with each of its outcomes, and each role.
MCRequest ==
    {Sent("viewer", "GET", "team", "t", Default, Default, TRUE),
     Sent("viewer", "GET", "costs", "", 0, Default, FALSE),
     Sent("guest", "GET", "costs", "", 0, 0, TRUE),
     Sent("editor", "POST", "reports", "", 0, 2, TRUE),
     Sent("admin", "POST", "reports", "", 2, 1, TRUE),
     Sent("viewer", "GET", "status", "p2", Default, Default, TRUE),
     Sent("guest", "GET", "healthz", "", Default, Default, TRUE),
     Sent("admin", "DELETE", "policies", "", Default, Default, TRUE),
     Sent("viewer", "GET", "audit-log", "", Default, Default, TRUE)}
    \cup {Sent("", "GET", "namespace", n, Default, Default, TRUE) : n \in Namespace}
    \cup {Sent("viewer", "GET", "audit-log", a, Default, Default, TRUE) : a \in Actor}
=============================================================================
