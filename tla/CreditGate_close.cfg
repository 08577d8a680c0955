SPECIFICATION FairSpec
CONSTANTS
    Waiters = {w1, w2}
    Closers = {f, c}
    Finalizer = f
    MaxReleases = 1
INVARIANTS NobodyInUnloadedCode NoSleepOverCredit
PROPERTIES GateLeasesEntries CloseReturns
CHECK_DEADLOCK FALSE
