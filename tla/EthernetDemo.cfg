CONSTANTS
  Routes <- FourRoutes
  Tables <- FoundTables
  MaxRows = 3
  Initial <- AtStart
  MaxChanges = 1
  MaxToggles = 1
  MaxRotations = 1
  MaxOthers = 1
SPECIFICATION Spec
INVARIANTS
  SwitchAgreesWhenSettled
  OnlyGatewayRoutesGo
PROPERTIES
  OnlyUsersCommand
CHECK_DEADLOCK FALSE
