SPECIFICATION FairSpec
CONSTANTS
  b1 = b1
  b2 = b2
  b3 = b3
  b4 = b4
  Proc = {p1,p2}
  Block = {b1, b2, b3, b4}
  Data = {0, 1}
  NBUF = 2
  Image <- MCImage
  Stores <- MCStores
  Nested <- MCNested
  BadBlock = {b4}
  MaxPin = 1
  Nobody = nobody
  NoBlock = noblock
INVARIANTS
  CacheExact
  QueueExact
PROPERTIES
  RefinesBlockStore
  BreadReturns
