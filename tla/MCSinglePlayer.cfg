\* A player who waits for each result and leaves the bot alone while it places.
SPECIFICATION Spec
CONSTANTS
  Cols = 4
  Rows = 1
  ShipSizes <- MCShipSizes
  TicksPerSec = 2
  CountdownStart = 2
  BlastTicks = 2
  SplashTicks = 1
  PostAttackTicks = 2
  HastyShots = FALSE
  KeysDuringDraw = FALSE
INVARIANTS TypeOK ResultReadInItsTurn NoStaleClick ResumeIsSafe NextShipInOrder
PROPERTIES PlaysByTheRules BotTurnEnds ShotAnswered
CHECK_DEADLOCK FALSE
