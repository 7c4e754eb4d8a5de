SPECIFICATION FairSpec
CONSTANTS
  Addrs = {a1, a2, a3}
  NULL = NULL
  UpdateLimits = {0, 2}
  UINT_VALUES = 3
  MAX_UPDATES = 4
  OutOfMemory = TRUE
INVARIANTS NoUseAfterFree ConsistentReport OneOwner CleanUnload
PROPERTIES MonotonicReads UnloadTerminates OldObjectsAreFreed
CHECK_DEADLOCK FALSE
