CONSTANTS
  p1 = p1
  p2 = p2
  w1 = w1
  w2 = w2
  NoMsg = NoMsg
  Publishers <- TwoPublishers
  Pool <- TwoWorkers
  Msgs <- EventAndData
  Subs <- None
  Callbacks <- None
  Filters <- DropConnected
  Sizes <- UnboundedOrOne
  MaxQueue = 1
SPECIFICATION FairSpec
INVARIANTS
  MessageInOnePlace
  StatsAgree
PROPERTIES
  QueuedIsDelivered
  DestructorReturns
CHECK_DEADLOCK FALSE
