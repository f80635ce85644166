CONSTANTS
  MaxTests = 2
  Duration = 2
  Capacity = 2
SPECIFICATION FairSpec
INVARIANTS
  OneRecordPerTest
  OldSocketsAreClosing
  CountsOwnData
PROPERTIES
  FullDuration
  TestFinishes
  ServerThreadEnds
