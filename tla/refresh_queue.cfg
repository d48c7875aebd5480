SPECIFICATION Spec
CONSTANTS
    p1 = p1
    p2 = p2
    r1 = r1
    r2 = r2
    web = web
    worker = worker
    Rows <- TwoRows
    Passes <- TwoPasses
    Owners <- Hosts
    Leases <- SharedOrNot
    MaxAttempts = 2
    MaxEvidence = 2
    MaxFaults = 1
SYMMETRY AnyRowAnyPass
INVARIANTS
    TypeOK
    OneClaimer
    FreshOrBarred
PROPERTIES
    HeldIsAnswered
CHECK_DEADLOCK FALSE
