SPECIFICATION ListSpec
CONSTANTS
  Threads = {t1, t2}
  Managers = {"pool"}
  Items = {i1, i2}
  Home <- MCHome
  Size = 2
  StartIndex <- MCStartIndex
  StoreBuffering = {"Protect", "Unprotect"}
  MaxEpoch = 4
  NoThread = NoThread
  NoEntry = NoEntry
  ItemCount = 1
  ListManager = "pool"
  NoItem = NoItem
INVARIANTS ListTypeOK WaitsInOnePlace SlotLockIsExclusive
PROPERTY FollowsEpochProtocol
CHECK_DEADLOCK FALSE
SYMMETRY MCSymmetry
