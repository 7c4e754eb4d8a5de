SPECIFICATION FairSpec
CONSTANTS
  Tasks = {t1, t2}
  None = None
  Lessons = {"14", "15", "21", "21_cdev", "22"}
  Readings = {7, 128}
  Counts = {0, 2, 32}
  Requests = {0, 1, 2}
  Junk = Junk
  Minus = Minus
  Newline = Newline
  Nul = Nul
  OUTPUT_SIZE = 6
  OtherPins = {"PH12"}
  Faults = {t1}
INVARIANTS AnswersAreOwn OnlyCallsDuringExitAreHurt
PROPERTIES OtherPinsUntouched CallsReturn
CHECK_DEADLOCK FALSE
