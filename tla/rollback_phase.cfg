SPECIFICATION Spec
CONSTANTS
    Namespace = {n1}
    Caller = {c1}
    Controller <- PolicyOnly
    Body <- MCBody
    Cost = {0, 1, 2}
    Absent = Absent
    maxVersionHistory = 2
    MaxPublish = 2
    TargetNamespace <- MCTargets
    Wired <- AllWired
    MaxEdits = 1
    MaxCrashes = 0
PROPERTY RollbackSetsPhase
CHECK_DEADLOCK FALSE
