CONSTANTS
    MaxId = 4
    QueueCapacity = 2
    MaxTicks = 2
    Feasible = {TRUE}
    Commands <- QueueCommands
    Calls = {"power_feedback", "trigger_error"}
SPECIFICATION FairSpec
INVARIANTS TypeOK EveryCommandAccounted QueueInOrder MotionHasOwner StopHoldsAxis
PROPERTY CommandsEnd
