SPECIFICATION FairSpec
CONSTANTS
  t1 = t1
  t2 = t2
  t3 = t3
  d1 = d1
  d2 = d2
  d3 = d3
  Threads = {t1, t2, t3}
  Descs = {d1, d2}
  Index <- MCIndex
  Words = {1, 2}
  Values = {0, 1, 2}
  Initial = 0
  Owner <- MCOwner
  Ops <- MonotoneOps
  Reads <- MCReads
  MaxCrashes = 2
  Injects <- MCInjects
INVARIANTS RecoveredWordsHoldValues RecoveryChecksHold
PROPERTIES ImplementsAtomicMwCAS OperationsReturn
CHECK_DEADLOCK FALSE
