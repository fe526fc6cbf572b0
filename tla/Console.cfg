SPECIFICATION FairSpec
CONSTANTS
  p1 = p1
  p2 = p2
  Proc = {p1, p2}
  KbdCPU = p1
  Intr = intr
  NoCPU = nocpu
  INPUT_BUF = 3
  UINT = 6
  Key = {"x", "cr", "^D", "^H", "^U"}
  Counts <- MCCounts
  Victims = {p2}
INVARIANTS
  LockSafe
  ReaderAwake
PROPERTIES
  RefinesLineInput
  KeyHandled
