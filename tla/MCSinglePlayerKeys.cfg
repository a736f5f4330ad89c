\* A player who presses keys while the bot is placing its ships.
SPECIFICATION Spec
CONSTANTS
  Cols = 4
  Rows = 1
  ShipSizes <- MCShipSizes
  TicksPerSec = 2
  CountdownStart = 2
  BlastTicks = 2
  SplashTicks = 1
  PostAttackTicks = 2
  HastyShots = FALSE
  KeysDuringDraw = TRUE
INVARIANT NoWaitingAlone
CHECK_DEADLOCK FALSE
