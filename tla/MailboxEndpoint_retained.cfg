SPECIFICATION Spec
CONSTANTS
    Sets = 2
    RequestFrames = 2
    MaxDispatches = 2
    Dependents = {1}
    Scenarios = {{}}
INVARIANTS EveryDispatchCompletes
CHECK_DEADLOCK FALSE
