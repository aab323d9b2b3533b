SPECIFICATION FairSpec
CONSTANTS
    Namespace = {n1}
    Caller = {}
    Controller <- BothControllers
    Body <- MCBody
    Cost = {0, 1}
    Absent = Absent
    maxVersionHistory = 1
    MaxPublish = 1
    TargetNamespace <- MCTargets
    Wired = {}
    MaxEdits = 2
    MaxCrashes = 1
PROPERTIES
    EventuallyJudged
    EventuallyEvaluated
CHECK_DEADLOCK FALSE
