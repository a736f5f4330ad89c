\* A client that also fires before the result of its last shot is read.
SPECIFICATION Spec
CONSTANTS
  Cols = 3
  Rows = 1
  ShipSizes <- MCShip
  TicksPerSec = 2
  CountdownStart = 1
  BlastTicks = 1
  SplashTicks = 2
  PostAttackTicks = 2
  Timely = TRUE
  Hasty = {"client"}
PROPERTY PlaysByTheRules
CHECK_DEADLOCK FALSE
