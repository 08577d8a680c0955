SPECIFICATION Spec
CONSTANTS
    Depth = 2
    InBytes = 2
    OutBytes = 2
    Modulus = 6
    MaxFaults = 0
    Scenarios <- EmptyArena
INVARIANT BackpressureIsReal
CHECK_DEADLOCK FALSE
