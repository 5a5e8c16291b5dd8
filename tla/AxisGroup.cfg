CONSTANTS
    m1 = m1
    m2 = m2
    Member <- TwoMembers
    MaxId = 3
    QueueCapacity = 2
    MaxTicks = 2
    Feasible = {TRUE, FALSE}
    Programs = {
        {"linear", "direct", "halt", "stop", "power", "disable", "fault",
         "member_power", "wait", "member_motion"},
        {"linear", "direct", "halt", "stop", "power", "fault",
         "member_power", "interrupt", "override"}}
SPECIFICATION FairSpec
INVARIANTS GroupTypeOK  
PROPERTIES DirectReportsTrue 
