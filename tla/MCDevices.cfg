\* One life of the program, one damaged byte, one key waiting at a time.
SPECIFICATION Spec
CONSTANTS
  HRes = 2
  VRes = 1
  BoardX = 1
  BoardY = 0
  CellSize = 1
  BoardCols = 1
  BoardRows = 1
  NumShips = 2
  Packets <- MCPackets
  MaxKeys = 1
  MaxMishaps = 1
  MaxTries = 3
INVARIANTS PointerSafe NeverDeaf GivesBack
PROPERTIES NothingTorn FindsBack
CHECK_DEADLOCK FALSE
