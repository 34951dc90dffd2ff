CONSTANTS
  Ports <- BothPorts
  Devices <- OnePort
  Buttons <- OnePerPort
  ReplyLen = 3
  BufferSize = 4
  MaxClicks = 2
  MaxFaults = 0
  MidFrameGap = FALSE
SPECIFICATION Spec
INVARIANTS
  NotOvertaken
  NoAnswerReportedTwice
CHECK_DEADLOCK FALSE
