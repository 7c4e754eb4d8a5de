SPECIFICATION Spec
CONSTANTS
  Tasks = {t1, t2}
  None = None
  Lessons = {"15"}
  Readings = {7, 128}
  Counts = {0, 2, 32}
  Requests = {0, 1, 2}
  Junk = Junk
  Minus = Minus
  Newline = Newline
  Nul = Nul
  OUTPUT_SIZE = 6
  OtherPins = {"PH12"}
  Faults = {t1}
PROPERTIES OnlyInOutputMode
CHECK_DEADLOCK FALSE
