CONSTANTS
  t1 = t1
  NoThread = NoThread
  Threads <- OneThread
  Sockets = 2
  MaxBytes = 3
  Limits <- LimitTwo
  InitLimit = 3
  DefaultCapacity = 1
  MaxCapacity = 1
  MaxReceived = 1
SPECIFICATION FairSpec
INVARIANTS
  QueueIsTheRest
  SendKeepsItsSocket
  CloseIsFinal
PROPERTIES
  ImplementsPipe
  ReaderEnds
