SPECIFICATION Spec
CONSTANTS
  t1 = t1
  t2 = t2
  t3 = t3
  d1 = d1
  d2 = d2
  d3 = d3
  Threads = {t1, t2, t3}
  Descs = {d1, d2}
  Index <- MCIndex
  Words = {1, 2}
  Values = {0, 1}
  Initial = 0
  Owner <- MCOwner
  Ops <- RecurringOps
  Reads <- MCReads
  MaxCrashes = 0
  Injects <- NoInjects
PROPERTY ImplementsAtomicMwCAS
CHECK_DEADLOCK FALSE
