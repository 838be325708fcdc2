SPECIFICATION Spec
CONSTANTS
  Threads = {t1, t2}
  Keys = {1, 2}
  Vals = {v, w}
  None = None
  Garbage = Garbage
  Nodes = {0, 1, 2, 3}
  MaxCalls <- MCMaxCalls
  Overlap <- AllPairs
  DirtyReads = FALSE
  BodySize = 9
  MdSize = 1
  RecSize = 2
  MinFree = 3
  MaxDeleted = 1
PROPERTY ImplementsMap
CHECK_DEADLOCK FALSE
