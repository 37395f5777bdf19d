SPECIFICATION Spec
CONSTANTS
    Txns = {t1, t2}
    Scans = {s1}
    NoTxn = NoTxn
    Outcomes = {"success", "neither"}
    MaxBlock = 4
    Period = 2
    MaxReorgs = 0
    TrustUnfinalized = FALSE
    MaxRetries = 1
    EpochLength = 2
    MaxCrashes = 1
    t1 = t1
    t2 = t2
    s1 = s1
SYMMETRY Symmetry
INVARIANTS
    TypeOK
    CursorInv
    NoSilentSkip
    DuplicateNeedsCause
    CapacityExact
PROPERTIES
    NotifiedBeforeForgotten
    ImplementsWatch
