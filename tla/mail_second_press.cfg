SPECIFICATION PressSpec
CONSTANTS
    a1 = a1
    a2 = a2
    p1 = p1
    f1 = f1
    hello = hello
    Attempts <- TwoAttempts
    Requests <- OneRequest
    Words <- OneWording
    Pages <- OnePage
    Shows <- ShowsHello
    RequestLife = 1
    InFlight = 1
    ReleaseAfter = 2
    Settle = 3
    Floor = 1
    WindowBefore = 1
    WindowAfter = 3
    MaxTime = 3
    MaxReplies = 2
INVARIANTS
    PressesAreOneMessage
CHECK_DEADLOCK FALSE
