SPECIFICATION FairSpec
CONSTANTS
    j1 = j1
    j2 = j2
    w1 = w1
    w2 = w2
    Jobs <- OneJob
    InteractiveJobs <- OneJob
    DurableJobs <- OneJob
    WaitingJobs <- OneJob
    MayBeLate <- OneJob
    MayBeKilled <- OneJob
    Workers <- OneWorker
    Refusals <- Withdrawn
    MaxWaits = 2
    MaxAttempts = 2
    MaxReceive = 4
    SweepLimit = 4
    MaxFaults = 1
    MaxOutages = 1
    MaxCopies = 0
INVARIANTS
    TypeOK
    QuestionMatchesJob
    RepeatsAreExplained
    StepsInOrder
PROPERTIES
    RecordsStand
    ImplementsContract
    UnfinishedWorkEnds
CHECK_DEADLOCK FALSE
