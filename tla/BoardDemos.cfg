CONSTANTS
  IrTaps = 4
  IrScreens = 2
  Keys = {0, 1}
  LnTaps = 3
  LnScreens = 2
  Gpis = 2
  Gpos = {g1}
  MaxPending = 2
  Presses = {p1, p2}
  Tokens = {"token0", "token1"}
  Commands <- TwoCommands
  MaxLives = 2
  MaxScreens = 2
SPECIFICATION Spec
INVARIANTS
  LastResultIsShown
  LearntKeyWasChecked
  HelloReadsWhatItSent
PROPERTIES
  DisplayCatchesUp
  AcceptedPressIsShown
CHECK_DEADLOCK FALSE
