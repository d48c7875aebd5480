SPECIFICATION Spec
CONSTANTS
    j1 = j1
    j2 = j2
    w1 = w1
    w2 = w2
    Jobs <- OneJob
    InteractiveJobs <- NoJobs
    DurableJobs <- OneJob
    WaitingJobs <- OneJob
    MayBeLate <- NoJobs
    MayBeKilled <- NoJobs
    Workers <- OneWorker
    Refusals <- NoRefusal
    MaxWaits = 2
    MaxAttempts = 2
    MaxReceive = 4
    SweepLimit = 4
    MaxFaults = 0
    MaxOutages = 0
    MaxCopies = 0
INVARIANTS
    ExpiredQuestionWasUnanswered
CHECK_DEADLOCK FALSE
