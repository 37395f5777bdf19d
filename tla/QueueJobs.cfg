SPECIFICATION FairSpec
CONSTANTS
    Requests = {r1, r2}
    SignUps = {r2}
    NoJob = NoJob
    KeepDone = 1
    MaxPolls = 2
    MaxOuts = 2
    MaxCrashes = 2
INVARIANTS
    TypeOK
    NothingLost
    SentTwiceHasCause
    TrackedJobs
PROPERTIES
    ImplementsPublication
    ShutdownEnds
    EveryJobEnds
CHECK_DEADLOCK FALSE
