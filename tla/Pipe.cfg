SPECIFICATION FairSpec
CONSTANTS
  Proc = {p1, p2}
  Byte = {0, 1}
  PIPESIZE = 2
  UINT = 4
  Writes <- TwoWrites
  Reads = {1, 2}
INVARIANTS
  NoSleepOnReady
  FreedExactly
PROPERTIES
  RefinesFifo
  ReaderSeesEnd
CHECK_DEADLOCK FALSE
