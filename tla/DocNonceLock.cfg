SPECIFICATION Spec
CONSTANTS
    Jobs = {j1, j2}
    Services = {s1, s2}
    NumKeys = 2
    Expire = 2
    First = 9
    MaxCrashes = 0
INVARIANT LockedAreDistinct
CHECK_DEADLOCK FALSE
