CONSTANTS
    Scenarios <- SafetyScenarios
    ReqSlots = {s1, s2}
    AllocSlots = {a1, a2}
    WINDOW = 2
    M = 8
    MAX_ENQUEUE = 2
    MAX_QLEN = 3
    MAX_LOSS = 1
    MAX_RESETS = 1
    MAX_EPOCH = 2
SPECIFICATION MCSpec
SYMMETRY Slot
INVARIANTS DemandPending DemandsAgree Conserved
CHECK_DEADLOCK FALSE
