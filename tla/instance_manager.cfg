SPECIFICATION ManagerSpec
CONSTANTS
    MaxNodes = 2
    MaxPolicies = 2
    Percent <- MCPercent
    Node = {a, b}
    Plain = {p}
    Stateful = {s}
    Skipped = {d}
    Handler = {h1, h2}
    MaxUID = 1
INVARIANTS
    TypeOK
    RespectsEveryPolicy
    MaximizesSpot
    SpotTypeOK
    NodeIsDrained
    DisruptionIsBounded
PROPERTY HandlerReturns
CHECK_DEADLOCK FALSE
