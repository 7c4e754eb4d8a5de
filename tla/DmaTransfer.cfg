SPECIFICATION FairSpec
CONSTANTS
  Sizes = {0, 1, 2}
  Counts = {0, 1, 2}
  Timeouts = {0, 1}
  BYTE_VALUES = 3
INVARIANTS NoDmaAfterFree CompletionIsAlive BuffersHaveOneUser AllOrNothing
PROPERTIES InsmodReturns
CHECK_DEADLOCK FALSE
