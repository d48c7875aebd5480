SPECIFICATION FairSpec
CONSTANTS
    j1 = j1
    j2 = j2
    w1 = w1
    w2 = w2
    Jobs <- TwoJobs
    InteractiveJobs <- NoJobs
    DurableJobs <- TwoJobs
    WaitingJobs <- NoJobs
    MayBeLate <- NoJobs
    MayBeKilled <- NoJobs
    Workers <- OneWorker
    Refusals <- NoRefusal
    MaxWaits = 2
    MaxAttempts = 1
    MaxReceive = 1
    SweepLimit = 1
    MaxFaults = 0
    MaxOutages = 0
    MaxCopies = 0
PROPERTIES
    LostRingIsNotALostJob
CHECK_DEADLOCK FALSE
