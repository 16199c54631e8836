CONSTANTS
    Scenarios <- LossScenarios
    ReqSlots = {s1}
    AllocSlots = {a1}
    WINDOW = 2
    M = 6
    MAX_ENQUEUE = 2
    MAX_QLEN = 2
    MAX_LOSS = 1
    MAX_RESETS = 0
    MAX_EPOCH = 1
SPECIFICATION MCFairSpec
PROPERTY Drained
CHECK_DEADLOCK FALSE
