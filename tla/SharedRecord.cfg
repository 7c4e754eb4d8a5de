SPECIFICATION FairSpec
CONSTANTS
  t1 = t1  t2 = t2  a = a  b = b
  Tasks = {t1, t2}
  None = None
  Newline = Newline
  Nul = Nul
  Bytes = {a, b, Newline}
  MESSAGE_SIZE = 3
  COUNTS = 3
  Hello <- MCHello
  Values = {1, 2}
  Texts <- MCTexts
  Arrays <- MCArrays
  Faults = {t1}
INVARIANTS TypeOK
PROPERTIES IsRecord CallsReturn
