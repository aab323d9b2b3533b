SPECIFICATION FairSpec
CONSTANTS
    AlertNamespace = {n1}
    RequestedType = {"slack", "teams"}
    WindowTime = {0, 1}
    maxRetries = 3
    MaxChannels = 2
    MaxAlerts = 1
    MaxTime = 1
INVARIANTS
    TypeOK
    EveryChannelTried
    GivesUpLast
    WaitIsBounded
PROPERTY CallReturns
CHECK_DEADLOCK FALSE
