SPECIFICATION FairSpec
CONSTANTS
  t1 = t1  t2 = t2  a = a  b = b
  Tasks = {t1, t2}
  None = None
  Bytes = {a, b}
  Nul = Nul
  BUFFER_SIZE = 3
  Initial <- MCInitial
  Payloads <- MCPayloads
  ReadCounts = {1, 2}
  Lessons = {"04", "05", "06"}
  Overlapping = {"05", "06"}
  Signals = {t1}
  Faults = {t1}
PROPERTIES IsDocument SpinlockIsRobust CallsReturn
