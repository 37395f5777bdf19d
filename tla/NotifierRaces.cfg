SPECIFICATION Spec
CONSTANTS
    Txns = {t1}
    Scans = {s1, s2}
    NoTxn = NoTxn
    Outcomes = {"success", "failed", "nonModule"}
    MaxBlock = 5
    Period = 3
    MaxReorgs = 1
    TrustUnfinalized = TRUE
    MaxRetries = 1
    EpochLength = 2
    MaxCrashes = 1
    t1 = t1
    s1 = s1
    s2 = s2
SYMMETRY ScanSymmetry
INVARIANTS
    CursorInv
    DuplicateNeedsCause
    DeliveredIsFinal
PROPERTIES
    CursorMovesOn
    NotifiedBeforeForgotten
