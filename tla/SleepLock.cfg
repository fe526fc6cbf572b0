SPECIFICATION FairSpec
CONSTANTS
  Locker = {p1, p2, p3}
  NoProc = NoProc
INVARIANTS
  MutualExclusion
  NoLostWakeup
  IndInv
PROPERTIES
  SleeperWoken
