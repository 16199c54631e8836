CONSTANTS
    Scenarios <- ResetScenarios
    ReqSlots = {s1}
    AllocSlots = {a1}
    WINDOW = 2
    M = 4
    MAX_ENQUEUE = 2
    MAX_QLEN = 1
    MAX_LOSS = 0
    MAX_RESETS = 1
    MAX_EPOCH = 1
SPECIFICATION MCSerialFairSpec
PROPERTY Drained
CHECK_DEADLOCK FALSE
