CONSTANTS
  MaxSockets = 2
  MaxBytes = 0
  MaxTime = 4
  Period = 2
  Window = 1
SPECIFICATION Spec
INVARIANTS
  OnePingPerSecond
CHECK_DEADLOCK FALSE
