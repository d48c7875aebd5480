SPECIFICATION FairSpec
CONSTANTS
    j1 = j1
    j2 = j2
    w1 = w1
    w2 = w2
    Jobs <- OneJob
    InteractiveJobs <- NoJobs
    DurableJobs <- OneJob
    WaitingJobs <- NoJobs
    MayBeLate <- NoJobs
    MayBeKilled <- NoJobs
    Workers <- TwoWorkers
    Refusals <- NoRefusal
    MaxWaits = 2
    MaxAttempts = 2
    MaxReceive = 3
    SweepLimit = 4
    MaxFaults = 1
    MaxOutages = 0
    MaxCopies = 1
INVARIANTS
    OneDriver
    HasWake
PROPERTIES
    EndedWorkStopped
    UnfinishedWorkEnds
CHECK_DEADLOCK FALSE
