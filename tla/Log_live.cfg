SPECIFICATION FairSpec
CONSTANTS
  Proc = {p1, p2, p3}
  Block = {b1, b2, b3, b4, b5, b6}
  Val = {v0}
  Zero = v0
  NotCached = NotCached
  NoBlock = NoBlock
  LOGSIZE = 7
  MAXOPBLOCKS = 2
  LogBlocks = 7
  OpBlocks = 1
SYMMETRY BlockSymmetry
INVARIANTS
  NoPanic
PROPERTIES
  SleeperWoken
