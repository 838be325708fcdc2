SPECIFICATION FairSpec
CONSTANTS
  t1 = t1
  t2 = t2
  t3 = t3
  d1 = d1
  d2 = d2
  Null = Null
  Threads = {t1, t2, t3}
  Descs = {d1, d2}
  Words = {1, 2}
  Values = {0, 1, 2, 3}
  Initial = 0
  Owner <- MCOwner
  Ops <- OrderedOps
  Injects <- MCInjects
  Reads <- MCReads
INVARIANT NoCircularHelping
PROPERTIES ImplementsAtomicMwCAS CallsReturn
CHECK_DEADLOCK FALSE
