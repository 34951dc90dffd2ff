CONSTANTS
  MaxCameras = 4
  MaxRecorders = 3
  MaxFaults = 2
  MaxQueue = 3
SPECIFICATION FairSpec
INVARIANTS
  TypeOK
  HeldCameraIsCurrent
  MicFollowsCamera
  OnlyFirstRecorderLeaks
  CrashNeedsFaultOrPause
  RecordingIsReal
PROPERTIES
  ButtonsComeBack
CHECK_DEADLOCK FALSE
