SPECIFICATION Spec
CONSTANTS
  Threads = {t1, t2}
  Keys = {1, 2}
  Vals = {v, w}
  None = None
  Garbage = Garbage
  Nodes = {0, 1, 2}
  MaxCalls <- MCMaxCalls
  Overlap <- SafePairs
  DirtyReads = TRUE
  BodySize = 9
  MdSize = 1
  RecSize = 2
  MinFree = 3
  MaxDeleted = 1
INVARIANT TypeOK
PROPERTY FrozenIsStable
SYMMETRY MCSymmetry
CHECK_DEADLOCK FALSE
