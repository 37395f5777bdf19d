SPECIFICATION FairSpec
CONSTANTS
    Txns = {t1, t2}
    Scans = {s1}
    NoTxn = NoTxn
    Outcomes = {"success", "nonModule"}
    MaxBlock = 3
    Period = 2
    MaxReorgs = 0
    TrustUnfinalized = FALSE
    MaxRetries = 1
    EpochLength = 2
    MaxCrashes = 0
    t1 = t1
    t2 = t2
    s1 = s1
PROPERTIES
    TimelyIsReported
