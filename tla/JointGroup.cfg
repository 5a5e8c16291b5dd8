SPECIFICATION FairSpec
CONSTANTS
    MaxJoints = 2
    SlowReplansPerCycle = 1
    Configs <- Sessions
    Stamps <- PastAndFuture
    MaxProfile = 2
    MaxAge = 4
INVARIANTS
    TypeOK
    DropsTogether
    ReplannedInTime
    SafeAfterDropout
PROPERTY ComesToRest
