SPECIFICATION Spec
CONSTANTS
    Sets = 2
    RequestFrames = 2
    MaxDispatches = 2
    Dependents = {}
    Scenarios = {{"fast"}}
INVARIANTS EndReturnsCredit
CHECK_DEADLOCK FALSE
