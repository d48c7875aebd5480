SPECIFICATION FairSpec
CONSTANTS
    p1 = p1
    p2 = p2
    s1 = s1
    s2 = s2
    Changes <- OneChange
    Subs <- OneSub
    RequiredSubs <- OneSub
    Switched <- OneSub
    Passes <- TwoPasses
    MaxAttempts = 2
    RetryDelay = 3
    Lease = 2
    BatchSize = 1
    PassLife = 1
    MaxFaults = 2
INVARIANTS
    TypeOK
    NoDoubleDispatch
    HandlerHoldsTheDelivery
    AttemptsAreBounded
    PublishedMeansDelivered
PROPERTIES
    SuccessStands
    ConclusionStands
    EveryChangeConcludes
CHECK_DEADLOCK FALSE
