SPECIFICATION Spec
CONSTANTS
    Namespace = {n1}
    Caller = {c1}
    Controller <- BothControllers
    Body <- MCBody
    Cost = {0, 1}
    Absent = Absent
    maxVersionHistory = 1
    MaxPublish = 2
    TargetNamespace <- MCTargets
    Wired <- AllWired
    MaxEdits = 1
    MaxCrashes = 0
INVARIANTS
    TypeOK
    PhaseAgreesWithCondition
PROPERTIES
    VerdictIsOfStoredSpec
    NoStatusLost
    ReportedBreachWasActedOn
    ErrorIsNotEvaluated
CHECK_DEADLOCK FALSE
