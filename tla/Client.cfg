CONSTANTS
  MaxSockets = 3
  MaxBytes = 2
  MaxTime = 3
  Period = 1
  Window = 1
SPECIFICATION FairSpec
INVARIANTS
  OpenSocketCanBeStopped
  OneReportPerTest
  ChartShowsTheTest
PROPERTIES
  StoppedStaysStopped
  LatencyOfItsPing
  TestEnds
  StopReleases
CHECK_DEADLOCK FALSE
