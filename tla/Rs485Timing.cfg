CONSTANTS
  Ports <- OnePort
  Devices <- OnePort
  Buttons <- RawAndFramed
  ReplyLen = 3
  BufferSize = 4
  MaxClicks = 2
  MaxFaults = 0
  MidFrameGap = FALSE
SPECIFICATION FairSpec
PROPERTIES
  CleanExchangePasses
  ReceptionEnds
CHECK_DEADLOCK FALSE
