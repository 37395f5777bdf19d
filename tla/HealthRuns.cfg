SPECIFICATION FairSpec
CONSTANTS
    MaxRetries = 3
    Threshold = 2
    MaxEvents = 3
    MaxTurns = 3
INVARIANTS
    TypeOK
    HealthyIsEarned
PROPERTIES
    NoThrowWhileUp
    RunEnds
CHECK_DEADLOCK FALSE
