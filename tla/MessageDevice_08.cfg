SPECIFICATION FairSpec
CONSTANTS
  Lesson = "08"
  r1 = r1  r2 = r2  w1 = w1  p1 = p1  a = a  b = b
  Readers = {r1}
  Writers = {w1}
  Pollers = {p1}
  None = None
  Bytes = {a, b}
  Nul = Nul
  BUFFER_SIZE = 3
  Payloads <- MCPayloads
  ReadCounts = {0, 1, 2}
  Signals = {}
  Faults = {w1, r1, p1}
  Timeouts = {p1}
PROPERTIES KeepsPromise PollinHolds PollerWakes ConsumerServed
