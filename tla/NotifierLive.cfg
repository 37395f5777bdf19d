SPECIFICATION FairSpec
CONSTANTS
    Txns = {t1}
    Scans = {s1}
    NoTxn = NoTxn
    Outcomes = {"success", "failed", "neither"}
    MaxBlock = 5
    Period = 3
    MaxReorgs = 0
    TrustUnfinalized = FALSE
    MaxRetries = 1
    EpochLength = 2
    MaxCrashes = 1
    t1 = t1
    s1 = s1
PROPERTIES
    ScanProgresses
    TimelyIsReported
