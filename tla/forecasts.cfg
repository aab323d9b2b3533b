SPECIFICATION FairSpec
CONSTANTS
    defaultSeasonLength = 2
    MonthLength = 3
    HistoryDays = 5
    Horizon = {2, 4, 5}
    Cost = {0, 1, 2}
    Budget <- MCBudget
    MaxDays = 6
INVARIANTS
    PeriodicIsContinued
    BreachesAreUpwardClosed
    PatternsAreReal
PROPERTIES
    OnlyValidOverwrites
    KeepsForecasting
CHECK_DEADLOCK FALSE
