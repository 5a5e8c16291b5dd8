CONSTANTS
    fast = fast
    slow = slow
    f1 = f1
    s1 = s1
    s2 = s2
    x = x
    y = y
    Task = {fast, slow}
    Mapping = {f1, s1, s2}
    Var = {x, y}
    NoTask = NoTask
    Schedule <- FastFirst
    Mappings <- TaskMappings
    Program <- Programs
    Layout <- Layouts
    Interval <- Intervals
    Phase <- Phases
    InstructionBudget <- Budgets
    Debugged = slow
    Breakpoints <- BetweenPrograms
    TaskCalls <- HostCalls
    Calls = {"resource_fault", "continue_", "step_in"}
    MaxTick = 2
SPECIFICATION FairSpec
INVARIANTS OneOpenTransaction ReleasesAccounted
PROPERTIES ImplementsAtomicTasks CommitsByPriority TransactionEnds
CHECK_DEADLOCK FALSE
