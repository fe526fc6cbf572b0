SPECIFICATION Spec
CONSTANTS
  Proc = {p1}
  MEM_HASH_SIZE = 3
  MAX_WMMAP_INFO = 2
  PGSIZE = 2
  NPTENTRIES = 8
  MMAPBASE = 4
  KERNBASE = 12
  HasFile = {p1}
  Calls = {"wmap", "wunmap", "wremap", "touch", "exit", "fork"}
  Addrs = {4, 6, 8}
  Lengths = {2, 4}
  Flags = {2, 14}
  MaxMaps = 3
  MaxPool = 5
INVARIANTS
  InfoExact
  NoOverlap
PROPERTIES
  UnmapKeepsOthers
CHECK_DEADLOCK FALSE
