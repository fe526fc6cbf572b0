SPECIFICATION Spec
CONSTANTS
  NPROC = 3
  NPAGE = 20
  PGSIZE = 2
  NPTENTRIES = 2
  NKTAB = 2
  KERNBASE = 10
  ExecSizes = {1, 5}
  Sbrks = {1, 2, 5}
INVARIANTS
  PagesExact
  SzMapped
