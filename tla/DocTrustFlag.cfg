SPECIFICATION Spec
CONSTANTS
    Txns = {t1}
    Scans = {s1}
    NoTxn = NoTxn
    Outcomes = {"success"}
    MaxBlock = 4
    Period = 3
    MaxReorgs = 0
    TrustUnfinalized = FALSE
    MaxRetries = 1
    EpochLength = 2
    MaxCrashes = 0
    t1 = t1
    s1 = s1
INVARIANTS
    OnlyFinalizedUnlessTrusted
