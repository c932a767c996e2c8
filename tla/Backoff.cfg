\* Beyond every count at which some build's arithmetic fails.
SPECIFICATION Spec
\* A run loop that a panic has unwound stops for good.
CHECK_DEADLOCK FALSE
CONSTANTS
    Builds = {"postgres", "sqlite_debug", "sqlite_release"}
    InitialDelays = {1, 1000, 2147483647}
    MaxAttempts = 67
    Stretch = 75
    LongOutage = 1000
INVARIANTS
    TypeOK
    DurationsFollowTable
    DelaysFollowTable
PROPERTIES
    EveryFailureCounts
    BacksOff
