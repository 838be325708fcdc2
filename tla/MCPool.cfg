SPECIFICATION Spec
CONSTANTS
  t1 = t1
  t2 = t2
  Main = Main
  Threads = {Main, t1, t2}
  Users = {Main, t1, t2}
  Ids = {i1, i2, i3}
  NoId = NoId
  NoPart = NoPart
  NoItem = NoItem
  Partitions = {0, 1}
  ItemCount = 2
  Words = {a}
  Blocks = {b1, b2, b3}
  Reserved = Reserved
  Policies <- MCPolicies
  DescCap = 1
  PoolSize = 3
  PartitionCount = 2
  Does <- MCDoes
  MaxOps <- MCMaxOps
  MaxPerRegion = 1
  MaxPools = 2
INVARIANTS OnePlace LinkedIsHeld ReachedStays PartitionIsOwn AllocationWaitsForOthers
CHECK_DEADLOCK FALSE
