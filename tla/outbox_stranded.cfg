SPECIFICATION FairSpec
CONSTANTS
    p1 = p1
    p2 = p2
    s1 = s1
    s2 = s2
    Changes <- OneChange
    Subs <- TwoSubs
    RequiredSubs <- OneSub
    Switched <- NoSub
    Passes <- OnePass
    MaxAttempts = 2
    RetryDelay = 3
    Lease = 2
    BatchSize = 1
    PassLife = 1
    MaxFaults = 1
PROPERTIES
    ClaimedDeliveryEnds
CHECK_DEADLOCK FALSE
