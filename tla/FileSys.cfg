SPECIFICATION Spec
CONSTANTS
  Proc = {p1, p2}
  Nobody = nobody
  NINODES = 3
  NINODE = 3
  Name = {"a"}
  NFILE = 1
  NOFILE = 2
  Calls <- MCCalls
  Image <- MCImage
SYMMETRY Symmetry
INVARIANTS
  RefExact
  LinksExact
  InUseNotFreed
  NoPanic
CHECK_DEADLOCK FALSE
