SPECIFICATION Spec
CONSTANTS
    Users = {u1}
    Grant = 2
    InitialDepth = 2
    PendingLimit = 0
    LaunchDepth = 2
    Capacities = {3}
    MaxRuns = 2
    MaxTasks = 2
    MaxSubmits = 3
    Events = {"depend", "end"}
INVARIANTS InFlightOwnsLease EarlyBehindWhole WakeNotLost
PROPERTY WorkerFifo
CHECK_DEADLOCK FALSE
