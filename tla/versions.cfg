SPECIFICATION Spec
CONSTANTS
    Namespace = {n1}
    Caller = {c1, c2}
    Controller <- PolicyOnly
    Body <- MCBodyVersions
    Cost = {0}
    Absent = Absent
    maxVersionHistory = 2
    MaxPublish = 3
    TargetNamespace <- MCTargets
    Wired = {}
    MaxEdits = 1
    MaxCrashes = 0
INVARIANTS
    HistoryContiguous
    VersionCountsPublishes
PROPERTIES
    ImplementsVersionedPolicy
SYMMETRY CallerSymmetry
CHECK_DEADLOCK FALSE
