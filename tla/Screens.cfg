CONSTANTS
  Limit <- MCLimit
  Standby = 1
  Hold = 1
  Attempt = 1
  AttemptsBeforeTurnOff = 1
  Levels = {39, 41}
  Enough = 40
  Percent = 2
  Step = 2
  ByZero = 0
  Points <- MCPoints
  BootLen = 1
  GuiLen = 2
  MaxPresses = 2
  MaxChanges = 1
SPECIFICATION Spec
INVARIANTS TypeOK PanelUpToDate ReactsAsDrawn TapActsOnce TurnsOff
PROPERTIES TimeoutOnTime
CHECK_DEADLOCK FALSE
