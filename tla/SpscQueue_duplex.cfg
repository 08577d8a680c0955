SPECIFICATION FairSpec
CONSTANTS
    Depth = 2
    InBytes = 3
    OutBytes = 3
    Modulus = 6
    MaxFaults = 1
    Scenarios <- QueueScenarios
INVARIANTS EndsAgree NoFalsePoison
PROPERTIES ChannelsAreFifo EndIsSeen
CHECK_DEADLOCK FALSE
