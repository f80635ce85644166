CONSTANTS
  t1 = t1
  t2 = t2
  Tasks <- TwoTasks
  NoTask = NoTask
  MaxThreads = 2
  InitThreads = 1
  Limits <- LimitOne
  MaxTime = 1
SPECIFICATION FairSpec
INVARIANTS
  NoTaskLostOrDuplicated
  ActiveCountsBusyWorkers
  NeverEarly
  StopDrainsQueue
PROPERTIES
  LimitRespected
  StopReturns
  QueuedTaskSettles
  TimerFires
