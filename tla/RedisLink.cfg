SPECIFICATION FairSpec
CONSTANT Timeout = 4
INVARIANTS
    TypeOK
    KilledForCause
PROPERTIES
    NoLimbo
CHECK_DEADLOCK FALSE
