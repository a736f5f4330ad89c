\* A player who also fires before the last result is read.
SPECIFICATION Spec
CONSTANTS
  Cols = 4
  Rows = 1
  ShipSizes <- MCShipSizes
  TicksPerSec = 2
  CountdownStart = 2
  BlastTicks = 2
  SplashTicks = 1
  PostAttackTicks = 2
  HastyShots = TRUE
  KeysDuringDraw = FALSE
PROPERTY PlaysByTheRules
CHECK_DEADLOCK FALSE
