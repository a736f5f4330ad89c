\* Players who wait for each result; clocks and cable as good as on the machines.
SPECIFICATION Spec
CONSTANTS
  Cols = 3
  Rows = 1
  ShipSizes <- MCBoats
  TicksPerSec = 2
  CountdownStart = 1
  BlastTicks = 1
  SplashTicks = 2
  PostAttackTicks = 2
  Timely = TRUE
  Hasty = {}
INVARIANTS TypeOK OneShooter SameWinner
PROPERTIES BothWaitingMeet MissPassesTheTurn QuitReachesThePeer
CHECK_DEADLOCK FALSE
