CONSTANTS
  t1 = t1
  t2 = t2
  Tasks <- OneTask
  NoTask = NoTask
  MaxThreads = 1
  InitThreads = 1
  Limits <- NoLimits
  MaxTime = 0
SPECIFICATION FairSpec
PROPERTIES
  ResumedTaskRuns
