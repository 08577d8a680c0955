SPECIFICATION FairSpec
CONSTANTS
    Users = {u1}
    Grant = 2
    InitialDepth = 2
    PendingLimit = 0
    LaunchDepth = 1
    Capacities = {1}
    MaxRuns = 2
    MaxTasks = 1
    MaxSubmits = 2
    Events = {"fail", "error", "await"}
INVARIANTS LeaseExclusive
PROPERTIES AdmissionProgress
CHECK_DEADLOCK FALSE
