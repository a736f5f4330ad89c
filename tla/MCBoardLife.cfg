\* A 4 x 2 sea with a ship of three cells and one of two.
SPECIFICATION Spec
CONSTANTS
  Cols = 4
  Rows = 2
  ShipSizes <- MCShipSizes
INVARIANTS TypeOK GridShowsFleet CountsExact LossIsExact
PROPERTIES ShotsStay ImplementsFleet
