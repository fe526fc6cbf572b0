SPECIFICATION FairSpec
CONSTANTS
  CPU = {c1}
  NoCPU = NoCPU
  NPROC = 3
  MaxPid = 3
  KillPids = {2}
PROPERTIES
  RunnableRuns
  OrphansReaped
