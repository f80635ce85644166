CONSTANTS
  p1 = p1
  p2 = p2
  w1 = w1
  w2 = w2
  NoMsg = NoMsg
  Publishers <- OnePublisher
  Pool <- OneWorker
  Msgs <- EventAndRoute
  Subs <- SameId
  Callbacks <- OnConnected
  Filters <- None
  Sizes <- None
  MaxQueue = 0
SPECIFICATION Spec
SYMMETRY ThreadSymmetry
INVARIANTS
  RoutedOnlyToTarget
CHECK_DEADLOCK FALSE
