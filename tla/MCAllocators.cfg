SPECIFICATION MCSpec
CONSTANTS
  N_PARTITIONS = 3
  PARTITION_N_NODES = 1
  Flows <- PimFlows
  NUM_ITERATIONS = 2
  SMALL_BIN_SIZE = 2
  PHASES = 4
  MAX_DEMAND = 1
  MAX_SLOTS = 2
  N_CORES = 2
  OUT_OF_BOUNDARY_NODE_ID = 9
  TOR_SIZE = 2
  SJF_BATCH_SIZE = 2
  NUM_BINS = 3
  PACE = 2
  inter_rack_capacity = 1
  out_of_boundary_capacity = 1
  SJF_DEMAND = 3
  MAX_BATCHES = 2
  MAX_GAP = 300
INVARIANTS OnePlace NoRace PathsSound KrSolves FoldedBins
PROPERTIES PimAllocates SjfAllocates
