CONSTANTS
    Flows = {f1, f2}
    Cpus = {c1, c2}
    Costs = {1, 3}
    TSLOT_LEN = 2
    LIMIT = 3
    MAX_PKTS = 4
    MAX_RESETS = 1
SYMMETRY Symmetry
SPECIFICATION MCSpec
INVARIANTS
    InLine
    Backed
    Awake
    TimeslotFits
