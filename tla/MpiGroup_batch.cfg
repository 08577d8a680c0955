SPECIFICATION Spec
CONSTANT Scenarios <- MCScenarios
INVARIANTS GroupEndsOnce SuccessIsExecuted RendezvousSound
PROPERTY EverythingSettles
CHECK_DEADLOCK FALSE
