CONSTANTS
  Threads = {t1, t2}
  Size = 4
  Requests <- Calls
  AndInstr <- BitAnd
  OrInstr <- BitOr
  Archs <- AllArchs
  MaxCalls = 2
  MaxLost = 1
SPECIFICATION FairSpec
INVARIANTS
  ReservationIsCurrent
PROPERTIES
  Linearizable
  CallsReturn
CHECK_DEADLOCK FALSE
