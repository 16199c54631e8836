SPECIFICATION MCSpec
CONSTANTS
  COST = 2
  MAX_CREDIT = 5
  MIN_GAP = 1
  START = 5
  MAX_TIME = 20
  BITS = 4
  WORDS = 3
  SEQ_MOD = 24
  HEAD_MAX = 23
  RESET_HEADS <- MCResetHeads
  AMOUNTS <- MCAmounts
  Descs = {e1, e2, e3}
  None = None
  Cpus = {c1}
  WND = 2
  Keys = {1, 2, 3, 4}
  HASH_BITS = 3
  src_dst_key_hash <- MCHash
  MAX_LOG = 3
  Requests <- MCRequests
  MAX_CHANGES = 3
INVARIANTS PacerInv  SetupSound Unwound FlowsFindable DescsExact FreedIsQuiet
PROPERTIES ImplementsWindow Stops
CHECK_DEADLOCK FALSE
