SPECIFICATION Spec
CONSTANTS
    Users = {u1}
    Grant = 2
    InitialDepth = 2
    PendingLimit = 0
    LaunchDepth = 2
    Capacities = {2}
    MaxRuns = 2
    MaxTasks = 1
    MaxSubmits = 2
    Events = {"end"}
CHECK_DEADLOCK FALSE
INVARIANT PriorTerminal

