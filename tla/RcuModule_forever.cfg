SPECIFICATION Spec
CONSTANTS
  Addrs = {a1, a2, a3}
  NULL = NULL
  UpdateLimits = {0}
  UINT_VALUES = 3
  MAX_UPDATES = 4
  OutOfMemory = TRUE
INVARIANTS ZeroMeansForever
CHECK_DEADLOCK FALSE
