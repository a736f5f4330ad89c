\* A 3 x 3 sea with a ship of three cells and one of two.
SPECIFICATION HuntSpec
CONSTANTS
  Cols = 3
  Rows = 3
  ShipSizes <- MCShipSizes
INVARIANTS HuntTypeOK AnchorStillFloats NeverGivesUp DestroyFollowsLine
PROPERTY BotWins
CHECK_DEADLOCK FALSE
