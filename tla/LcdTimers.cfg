CONSTANTS
  MaxTimers = 4
  OffDelay = 3
  MaxBright = 5
  Step = 2
SPECIFICATION FairSpec
INVARIANTS
  TypeOK
  LostOnlyIfOverlapped
  QueryFollowsOff
PROPERTIES
  UnhurriedTaskRuns
CHECK_DEADLOCK FALSE
