CONSTANTS
  t1 = t1
  NoThread = NoThread
  Threads <- OneThread
  Sockets = 1
  MaxBytes = 1
  Limits <- NoLimits
  InitLimit = 3
  DefaultCapacity = 2
  MaxCapacity = 2
  MaxReceived = 2
SPECIFICATION Spec
INVARIANTS
  ReceiveReturnsWhatArrived
