SPECIFICATION Spec
CONSTANTS
    Sets = 2
    RequestFrames = 2
    MaxDispatches = 2
    Dependents = {}
    Scenarios = {{"stop"}, {"crash"}, {"control"}, {"reject"}, {"bad"}, {"halt"}, {"fast", "observe"}}
INVARIANTS ReportsTrue SharedWordsOwned DeviceOrder CreditExact EveryDispatchCompletes
CHECK_DEADLOCK FALSE
