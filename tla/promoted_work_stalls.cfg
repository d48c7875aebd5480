SPECIFICATION FairSpec
CONSTANTS
    j1 = j1
    j2 = j2
    w1 = w1
    w2 = w2
    Jobs <- OneJob
    InteractiveJobs <- OneJob
    DurableJobs <- OneJob
    WaitingJobs <- NoJobs
    MayBeLate <- OneJob
    MayBeKilled <- NoJobs
    Workers <- TwoWorkers
    Refusals <- NoRefusal
    MaxWaits = 2
    MaxAttempts = 2
    MaxReceive = 4
    SweepLimit = 4
    MaxFaults = 0
    MaxOutages = 0
    MaxCopies = 0
PROPERTIES
    PromotedWorkEnds
CHECK_DEADLOCK FALSE
