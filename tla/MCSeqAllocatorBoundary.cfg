SPECIFICATION MCSpec
CONSTANTS
  Flows <- SharedFlows
  OUT_OF_BOUNDARY = 9
  OUT_OF_BOUNDARY_CAPACITY = 16
  N_CORES = 2
  SMALL_BIN_SIZE = 2
  BURST = 2
  MAX_DEMANDS_PER_BATCH = 2
  START = 2
  LATE = 0
  MAX_AGE = 4
  MAX_DEMAND = 2
  MAX_TOTAL = 3
  MAX_RESETS = 0
  BATCH_SHIFT = 1
  NUM_BINS = 2
  TIME = 24
  GROUPS = 100
INVARIANT NodeOnce
