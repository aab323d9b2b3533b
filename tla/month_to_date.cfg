SPECIFICATION Spec
CONSTANTS
    DayLength = 2
    ttl = 2
    maxRetries = 1
    DayCost <- FlatCost
    MaxTime = 3
    MaxCrashes = 0
INVARIANT MonthToDateIsTrue
CHECK_DEADLOCK FALSE
