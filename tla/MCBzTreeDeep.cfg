SPECIFICATION Spec
CONSTANTS
  t1 = t1
  t2 = t2
  v = v
  Threads = {t1}
  Keys <- DeepKeys
  Vals = {v}
  None = None
  Objects <- DeepObjects
  Programs <- DeepPrograms
  Loader = t1
  Overlap <- InsertAndUpdate
  BodySize = 10
  HeaderSize = 1
  MinFree = 2
  MaxDeleted = 4
PROPERTY ImplementsMap
CHECK_DEADLOCK FALSE
