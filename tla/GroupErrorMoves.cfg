CONSTANTS
    m1 = m1
    m2 = m2
    Member <- TwoMembers
    MaxId = 1
    QueueCapacity = 1
    MaxTicks = 2
    Feasible = {TRUE}
    Programs = {{"direct", "power", "power_race", "fault"}}
SPECIFICATION Spec
INVARIANT ErrorStopDropsPath
