SPECIFICATION FairSpec
CONSTANTS
  Lessons = {"17", "18"}
  Periods = {0, 1, 2}
  MS = 2
  COUNT_VALUES = 3
  CLOCK_SKEW = 1
  MAX_NOW = 8
  MAX_SETS = 1
INVARIANTS TypeOK OncePerPeriod NoDrift StatisticsAreTrue
PROPERTIES StopIsPrompt
CHECK_DEADLOCK FALSE
