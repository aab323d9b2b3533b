SPECIFICATION Spec
CONSTANTS
    Process = {m1, m2}
    MaxStarts = 1
    Actor = {a1, a2}
    AuditLimit = 1
    MaxTime = 2
    Client = {c1}
    Request <- MCRequest
    Namespace = {n1, n2}
    PolicyName = {"p1"}
    Default = Default
    DayLength = 2
    MaxRows = 2
INVARIANTS
    MigrationIsAtomic
    MigratedMeansComplete
    AuditTrailIsTrue
    CostAnswersAreTrue
ACTION_CONSTRAINT OwnTable
SYMMETRY InstanceSymmetry
CHECK_DEADLOCK FALSE
