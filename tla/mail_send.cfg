SPECIFICATION Spec
CONSTANTS
    a1 = a1
    a2 = a2
    p1 = p1
    p2 = p2
    hello = hello
    thanks = thanks
    Attempts <- TwoAttempts
    Requests <- TwoRequests
    Words <- TwoWordings
    RequestLife = 1
    InFlight = 1
    ReleaseAfter = 2
    Settle = 3
    Floor = 1
    WindowBefore = 1
    WindowAfter = 3
    MaxTime = 3
    MaxReplies = 2
SYMMETRY Symmetry
INVARIANTS
    TypeOK
    NoStrayMessage
    SentOnce
    SenderOwnsTheRow
    EvidenceIsFrozen
PROPERTIES
    KeepsThePromise
CHECK_DEADLOCK FALSE
