SPECIFICATION Spec
CONSTANTS
  Threads = {t1, t2}
  Nodes = {0, 1}
  kCacheLineSize = 2
  kSlabSize = 8
  kNumaMemorySize = 16
  Sizes = {1, 3}
  MaxAllocations = 4
  MaxExits = 1
  Null = Null
INVARIANTS BlocksAreInOnePlace BlocksAreDisjoint SlabsAreUsed
CHECK_DEADLOCK FALSE
SYMMETRY MCSymmetry
