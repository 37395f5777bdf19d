SPECIFICATION Spec
CONSTANTS
    Jobs = {j1, j2, j3}
    Services = {s1, s2}
    NumKeys = 2
    Expire = 2
    First = 9
    MaxCrashes = 1
SYMMETRY Symmetry
INVARIANTS
    TypeOK
    NeverStale
    SameListDistinct
PROPERTIES
    SkippedIsReused
CHECK_DEADLOCK FALSE
