SPECIFICATION FairSpec
CONSTANTS
    DayLength = 2
    ttl = 2
    maxRetries = 1
    DayCost <- FlatCost
    MaxTime = 3
    MaxCrashes = 1
INVARIANTS
    TypeOK
    ApproximateIsMarked
    FallbackIsNewest
PROPERTY KeepsCollecting
CHECK_DEADLOCK FALSE
