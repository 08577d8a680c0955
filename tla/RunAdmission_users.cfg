SPECIFICATION Spec
CONSTANTS
    Users = {u1, u2}
    Grant = 2
    InitialDepth = 2
    PendingLimit = 0
    LaunchDepth = 1
    Capacities = {2}
    MaxRuns = 3
    MaxTasks = 0
    MaxSubmits = 0
    Events = {"fail", "await"}
INVARIANTS
    LeasesArePrefix
    NoStrandedWaiter
    TerminalIsFinal
SYMMETRY UserSymmetry
CHECK_DEADLOCK FALSE
