SPECIFICATION FairSpec
CONSTANTS
  Lesson = "07"
  r1 = r1  r2 = r2  w1 = w1  p1 = p1  a = a  b = b
  Readers = {r1, r2}
  Writers = {w1}
  Pollers = {}
  None = None
  Bytes = {a, b}
  Nul = Nul
  BUFFER_SIZE = 3
  Payloads <- MCPayloads
  ReadCounts = {1, 2}
  Signals = {r1}
  Faults = {r1, w1}
  Timeouts = {}
INVARIANTS NoLostWakeup
PROPERTIES KeepsPromise SleeperWakes WriteReturns ConsumerServed
