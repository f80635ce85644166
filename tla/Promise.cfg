CONSTANTS
  c1 = c1
  c2 = c2
  done1 = done1
  done2 = done2
  off1 = off1
  off2 = off2
  WaitLoop = WaitLoop
  NoCallback = NoCallback
  Callers <- TwoCallers
  Completions <- TwoCompletions
  Cancellations <- TwoCancellations
SPECIFICATION FairSpec
INVARIANTS
  OutcomeAgrees
  CalledOnce
PROPERTIES
  DestructorReturns
CHECK_DEADLOCK FALSE
