SPECIFICATION Spec
CONSTANTS
  t1 = t1
  t2 = t2
  v = v
  Threads = {t1, t2}
  Keys <- PairKeys
  Vals = {v}
  None = None
  Objects <- PairObjects
  Programs <- PairPrograms
  Loader = t1
  Overlap <- InsertAndUpdate
  BodySize = 5
  HeaderSize = 1
  MinFree = 2
  MaxDeleted = 1
INVARIANT PointersAreLive
CHECK_DEADLOCK FALSE
