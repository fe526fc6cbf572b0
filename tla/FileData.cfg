SPECIFICATION Spec
CONSTANTS
  Proc = {p1, p2}
  Nobody = Nobody
  f1 = f1
  f2 = f2
  Inum = {f1, f2}
  NBLOCKS = 6
  BSIZE = 2
  NDIRECT = 2
  MAXOPBLOCKS = 6
  MaxCalls = 5
  Writes <- MCWrites
  Counts = {3}
  Seeks = {9}
SYMMETRY Symmetry
INVARIANTS
  BlocksExact
  OpFits
PROPERTY RefinesFileStore
CHECK_DEADLOCK FALSE
