CONSTANTS
    fast = fast
    slow = slow
    f1 = f1
    s1 = s1
    s2 = s2
    x = x
    y = y
    Task = {fast, slow}
    Mapping = {f1, s1, s2}
    Var = {x, y}
    NoTask = NoTask
    Schedule <- FastFirst
    Mappings <- TaskMappings
    Program <- Programs
    Layout <- Layouts
    Interval <- Intervals
    Phase <- Phases
    InstructionBudget <- Budgets
    Debugged = fast
    Breakpoints <- AfterStore
    TaskCalls = {}
    Calls = {"continue_"}
    MaxTick = 2
SPECIFICATION Spec
PROPERTY ImplementsAtomicTasks
CHECK_DEADLOCK FALSE
