SPECIFICATION LimitFairSpec
CONSTANTS
    Jobs = {j1, j2}
    Capacity = 5
    AtStart = {0, 1, 5}
    LimitType = "percentage"
    LimitValue = 40
    Cost = 2
    MaxEpoch = 2
    MaxMishaps = 1
INVARIANTS
    TypeOK
    PausedHasWaker
    LimitKept
PROPERTIES
    PauseEnds
CHECK_DEADLOCK FALSE
