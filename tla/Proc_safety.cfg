SPECIFICATION Spec
CONSTANTS
  CPU = {c1, c2}
  NoCPU = NoCPU
  NPROC = 3
  MaxPid = 4
  KillPids = {0, 1, 2}
SYMMETRY Symmetry
INVARIANTS
  OneCPU
  HasParent
  NoMissedExit
  UniquePids
