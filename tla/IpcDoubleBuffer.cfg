CONSTANTS
    NoProcess = NoProcess
    Process = {p1, p2}
    Word = {1, 2}
    MaxRetries = 2
    MaxSeq = 4
    Ordered = TRUE
SPECIFICATION FairSpec
INVARIANT PublishedSlotStable
PROPERTIES ImplementsLatest ReadReturns CrashLeavesLatest
CHECK_DEADLOCK FALSE
