CONSTANTS
  MaxCameras = 2
  MaxRecorders = 1
  MaxFaults = 0
  MaxQueue = 2
SPECIFICATION Spec
INVARIANTS
  NoneHeldInPause
CHECK_DEADLOCK FALSE
