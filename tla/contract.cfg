SPECIFICATION Spec
CONSTANTS
    full = full
    quick = quick
    Jobs <- AllJobs
    InteractiveJobs <- AllJobs
    DurableJobs <- FullJobs
    WaitingJobs <- FullJobs
    MaxWaits = 2
INVARIANTS
    TypeOK
    RowShape
PROPERTIES
    EndedStays
    FirstStopStands
CHECK_DEADLOCK FALSE
