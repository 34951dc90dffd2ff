CONSTANTS
  MaxTimers = 4
  OffDelay = 3
  MaxBright = 5
  Step = 5
SPECIFICATION FairSpec
PROPERTIES
  EveryPressTurnsOff
CHECK_DEADLOCK FALSE
