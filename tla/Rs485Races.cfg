CONSTANTS
  Ports <- OnePort
  Devices <- OnePort
  Buttons <- SameRequest
  ReplyLen = 3
  BufferSize = 4
  MaxClicks = 2
  MaxFaults = 1
  MidFrameGap = TRUE
SPECIFICATION Spec
INVARIANTS
  TypeOK
  IndexInBuffer
  VerifiedBytesAreStable
  NoStuckReception
  NoAnswerReportedTwice
PROPERTIES
  ImplementsSession
CHECK_DEADLOCK FALSE
