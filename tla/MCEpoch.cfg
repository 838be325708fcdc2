SPECIFICATION FairSpec
CONSTANTS
  Threads = {t1, t2}
  Managers = {"tree"}
  Items = {i1}
  Home <- MCHome
  Size = 2
  StartIndex <- MCStartIndex
  StoreBuffering = {"Protect", "Unprotect"}
  MaxEpoch = 4
  NoThread = NoThread
  NoEntry = NoEntry
INVARIANTS TypeOK VisibleProtectionHolds SafeBelowCurrent EntriesAreExclusive
PROPERTY ReserveTerminates
