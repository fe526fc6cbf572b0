SPECIFICATION Spec
CONSTANTS
  Proc = {p1, p2}
  Block = {b1, b2, b3}
  Val = {v0, v1}
  Zero = v0
  NotCached = NotCached
  NoBlock = NoBlock
  LOGSIZE = 4
  MAXOPBLOCKS = 2
  LogBlocks = 4
  OpBlocks = 2
SYMMETRY Symmetry
INVARIANTS
  IndInv
  QuiescentDurable
  SleeperHasWaker
PROPERTIES
  RefinesAtomicDisk
