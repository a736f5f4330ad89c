\* Clocks that drift at will on a cable of any delay; players wait for each result.
SPECIFICATION Spec
CONSTANTS
  Cols = 3
  Rows = 1
  ShipSizes <- MCShip
  TicksPerSec = 1
  CountdownStart = 1
  BlastTicks = 1
  SplashTicks = 1
  PostAttackTicks = 1
  Timely = FALSE
  Hasty = {}
INVARIANTS CopiesAgree InStep
PROPERTY PlaysByTheRules
CHECK_DEADLOCK FALSE
