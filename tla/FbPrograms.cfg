CONSTANTS
    MaxId = 3
    QueueCapacity = 1
    MaxTicks = 2
    Feasible = {TRUE}
    Commands = {}
    Calls = {"trigger_error", "power_feedback"}
    Programs <- MixedPrograms
SPECIFICATION FbsFairSpec
INVARIANTS OutputsExclusive OutputsTruthful
PROPERTIES EndShownBeforeDropped EndReported
