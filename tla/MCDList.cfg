SPECIFICATION FairSpec
CONSTANTS
  t1 = t1
  t2 = t2
  a = a
  b = b
  c = c
  Threads = {t1, t2}
  Nodes = {a, b, c}
  head_ = head_
  tail_ = tail_
  Null = Null
  NoCall = NoCall
  FirstLists <- MCFirstLists
  NewNode <- MCNewNode
  Methods = {"kSyncMwCAS", "kSyncCAS"}
  Movers = {t2}
  MaxCalls <- MCMaxCalls
INVARIANTS TraversalsEnd LinksAgree ChecksHold CursorSkipsDeleted
PROPERTIES ImplementsList CallsReturn
CHECK_DEADLOCK FALSE
