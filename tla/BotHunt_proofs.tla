--------------------------- MODULE BotHunt_proofs ---------------------------
(***************************************************************************)
(* First one board, then the bot against it, for every sea and every fleet. *)
(* A board keeps what Fleet promises, whoever fires.  The bot keeps to the  *)
(* rules of the board, its memory is sound, and it turns its back on no ship *)
(* it has hit as long as ships do not touch.                                *)
(***************************************************************************)
EXTENDS BotHunt, Board_proofs

----------------------------------------------------------------------------
(* One board *)

\* The ships by order of placement.
ShipIds == 1 .. Len(board.ships)

\* No two ships share a cell.
ShipsApart ==
  \A i, j \in ShipIds : i # j => board.ships[i].cells \cap board.ships[j].cells = {}

\* A ship has as many cells as its size says.
ShipsWhole ==
  \A i \in ShipIds : Cardinality(board.ships[i].cells) = board.ships[i].size

\* The fleet is complete before the first shot.
NoShotBeforeTheFight == Len(board.ships) < NumShips => ShotAt = {}

\* The inductive invariant: the board is in order.
IInv ==
  /\ TypeOK
  /\ ShipsApart
  /\ ShipsWhole
  /\ NoShotBeforeTheFight
  /\ GridShowsFleet
  /\ CountsExact

\* A step that leaves the ships where they are.
SameFleet ==
  /\ Len(board'.ships) = Len(board.ships)
  /\ \A i \in ShipIds : board'.ships[i].cells = board.ships[i].cells

----------------------------------------------------------------------------
(* The invariant                                                           *)

\* It says of the variable what Good says of any board.
LEMMA InOrder ==
  /\ IInv <=> Good(board)
  /\ ShipIds = Ids(board) /\ ShotAt = ShotOn(board)
  /\ \A x : F!At(x) = ShipsAt(board, x)
  /\ \A i \in ShipIds : F!Down(i) <=> Gone(board, i)
<1>1. ShipIds = Ids(board) /\ ShotAt = ShotOn(board)
  BY DEF ShipIds, Ids, ShotAt, ShotOn
<1>2. \A x : F!At(x) = ShipsAt(board, x)
  BY DEF F!At, ShipsAt, Ids
<1>3. \A i \in ShipIds : F!Down(i) <=> Gone(board, i)
  BY <1>1 DEF F!Down, Gone, ShipIds
<1>4. \A x : F!Colour(x) = Shows(board, x)
  BY <1>1, <1>2, <1>3 DEF F!Colour, Shows, ShipsAt
<1>5. TypeOK <=> BoardType(board)
  BY DEF TypeOK, BoardType, Ship
<1>6. /\ ShipsApart <=> Apart(board)
      /\ ShipsWhole <=> Whole(board)
      /\ NoShotBeforeTheFight <=> Untouched(board)
      /\ GridShowsFleet <=> GridFits(board)
      /\ CountsExact <=> CountsFit(board)
  BY <1>1, <1>4 DEF ShipsApart, Apart, ShipsWhole, Whole, NoShotBeforeTheFight, Untouched,
                    GridShowsFleet, GridFits, CountsExact, CountsFit
<1> QED BY <1>1, <1>2, <1>3, <1>5, <1>6 DEF IInv, Good

\* So it does after a step.
LEMMA InOrderNext ==
  /\ IInv' <=> Good(board')
  /\ ShipIds' = Ids(board') /\ ShotAt' = ShotOn(board')
<1>1. /\ IInv <=> Good(board)
      /\ ShipIds = Ids(board) /\ ShotAt = ShotOn(board)
  BY InOrder
<1>2. (/\ IInv <=> Good(board)
       /\ ShipIds = Ids(board) /\ ShotAt = ShotOn(board))'
  BY <1>1, PTL
<1> QED BY <1>2

\* The ships of a well-typed board.
LEMMA BoardFields ==
  ASSUME TypeOK
  PROVE  /\ board.ships \in Seq(Ship)
         /\ Len(board.ships) \in Nat /\ DOMAIN board.ships = ShipIds
         /\ \A i \in ShipIds : /\ board.ships[i] \in Ship
                               /\ board.ships[i].cells \in SUBSET Cells
                               /\ board.ships[i].size \in Nat \ {0}
                               /\ board.ships[i].hits \in Nat
                               /\ board.ships[i].sunk \in BOOLEAN
<1>1. BoardType(board)
  BY DEF TypeOK, BoardType, Ship
<1> QED BY <1>1, RecordFields, InOrder

\* board_init yields a board that keeps the invariant.
LEMMA InitInvariant == Init => IInv
  BY EmptyIsGood, InOrder DEF Init

\* So does board_init on a board in use.
LEMMA ClearInvariant == Clear => IInv'
  BY EmptyIsGood, InOrderNext DEF Clear

\* Placing a ship: no shot was fired yet, and the new ship lies on free water.
LEMMA PlaceEffect ==
  ASSUME IInv, Place
  PROVE  \E cells \in SUBSET Cells, size \in Nat \ {0} :
           /\ cells \in Footprints(size) /\ Cardinality(cells) = size
           /\ \A i \in ShipIds : board.ships[i].cells \cap cells = {}
           /\ Len(board.ships) < NumShips
           /\ DOMAIN board' = {"grid", "ships", "sunk"}
           /\ board'.grid = [x \in Cells |-> IF x \in cells THEN "ship" ELSE board.grid[x]]
           /\ board'.ships = Append(board.ships, [cells |-> cells, size |-> size,
                                                  hits |-> 0, sunk |-> FALSE])
           /\ board'.sunk = board.sunk
           /\ ShotAt = {} /\ ShotAt' = {}
<1> DEFINE size == ShipSizes[Len(board.ships) + 1]
<1>1. Len(board.ships) < NumShips /\ Len(board.ships) \in Nat /\ size \in Nat \ {0}
  BY NumShipsType, BoardFields DEF Place, IInv
<1>2. PICK cells \in Footprints(size) :
        CanPlace(board, cells) /\ board' = PlaceShip(board, cells, size)
  BY DEF Place
<1> HIDE DEF size
<1>3. Cardinality(cells) = size
  BY <1>1, <1>2, FootprintSize
<1>4. /\ cells \in SUBSET Cells
      /\ \A i \in Ids(board) : board.ships[i].cells \cap cells = {}
      /\ DOMAIN board' = {"grid", "ships", "sunk"}
      /\ board'.grid = [x \in Cells |-> IF x \in cells THEN "ship" ELSE board.grid[x]]
      /\ board'.ships = Append(board.ships, [cells |-> cells, size |-> size,
                                             hits |-> 0, sunk |-> FALSE])
      /\ board'.sunk = board.sunk
      /\ ShotOn(board) = {} /\ ShotOn(board') = {}
  BY <1>1, <1>2, PlacingShows, InOrder
<1> QED BY <1>1, <1>2, <1>3, <1>4, InOrder, InOrderNext

\* A ship placed on free water, inside the sea, before any shot.
LEMMA PlaceInvariant == IInv /\ Place => IInv'
<1> SUFFICES ASSUME IInv, Place PROVE IInv'
  OBVIOUS
<1> DEFINE size == ShipSizes[Len(board.ships) + 1]
<1>1. Len(board.ships) < NumShips /\ size \in Nat \ {0}
  BY NumShipsType, BoardFields DEF Place, IInv
<1>2. PICK cells \in Footprints(size) :
        CanPlace(board, cells) /\ board' = PlaceShip(board, cells, size)
  BY DEF Place
<1> HIDE DEF size
<1>3. Cardinality(cells) = size
  BY <1>1, <1>2, FootprintSize
<1>4. Good(board')
  BY <1>1, <1>2, <1>3, PlacingKeeps, InOrder
<1> QED BY <1>4, InOrderNext

\* A shot of the caller's at a fresh cell of a complete fleet.
LEMMA ShotInvariant ==
  ASSUME IInv, Len(board.ships) = NumShips,
         NEW x \in Cells, ~AlreadyAttacked(board, x), board' = Attack(board, x)
  PROVE  IInv' /\ SameFleet /\ x \notin ShotAt /\ ShotAt' = ShotAt \cup {x}
<1>1. /\ Good(board') /\ SameShips(board, board')
      /\ x \notin ShotOn(board) /\ ShotOn(board') = ShotOn(board) \cup {x}
  BY AttackKeeps, InOrder
<1> QED BY <1>1, InOrder, InOrderNext DEF SameFleet, SameShips

\* Every shot the callers let through keeps the invariant, leaves the ships where
\* they are and adds one fresh cell to those shot at.
LEMMA FireInvariant ==
  ASSUME IInv, Fire
  PROVE  /\ IInv'
         /\ Len(board.ships) = NumShips
         /\ SameFleet
         /\ \E x \in Cells \ ShotAt : ShotAt' = ShotAt \cup {x}
  BY ShotInvariant DEF Fire

\* The invariant reads nothing but the board.
LEMMA StillInvariant == IInv /\ UNCHANGED board => IInv'
  BY InOrder, InOrderNext

\* The inductive invariant: what the grid, the counters and the flags of a board
\* say always follows from where its ships are and which cells were shot at.
THEOREM Invariance == Spec => []IInv
<1>1. Init => IInv
  BY InitInvariant
<1>2. IInv /\ [Next]_board => IInv'
  <2> SUFFICES ASSUME IInv, [Next]_board PROVE IInv'
    OBVIOUS
  <2>1. CASE Place
    BY <2>1, PlaceInvariant
  <2>2. CASE Fire
    BY <2>2, FireInvariant
  <2>3. CASE Clear
    BY <2>3, ClearInvariant
  <2>4. CASE UNCHANGED board
    BY <2>4, StillInvariant
  <2> QED BY <2>1, <2>2, <2>3, <2>4 DEF Next
<1> QED BY <1>1, <1>2, PTL DEF Spec

----------------------------------------------------------------------------
(* What follows from it                                                    *)

\* A board keeps its type through every placement, shot and clearing.
THEOREM TypeCorrect == Spec => []TypeOK
<1>1. IInv => TypeOK
  BY DEF IInv
<1> QED BY <1>1, Invariance, PTL

\* board_attack's marking agrees with the positions and the shots.
THEOREM GridCorrect == Spec => []GridShowsFleet
<1>1. IInv => GridShowsFleet
  BY DEF IInv
<1> QED BY <1>1, Invariance, PTL

\* The hit counters, the sunk flags and ships_sunk are exact.
THEOREM CountsCorrect == Spec => []CountsExact
<1>1. IInv => CountsExact
  BY DEF IInv
<1> QED BY <1>1, Invariance, PTL

\* A board with as many ships sunk as the fleet has has no cell left.
LEMMA LossCounted == IInv => LossIsExact
<1> SUFFICES ASSUME IInv PROVE LossIsExact
  OBVIOUS
<1>1. AllSunk(board) <=> Len(board.ships) = NumShips /\ \A i \in ShipIds : F!Down(i)
  BY LossIsCounted, InOrder
<1>2. DOMAIN [i \in 1 .. Len(board.ships) |-> board.ships[i].cells] = ShipIds
  BY DEF ShipIds
<1>3. F!Complete <=> Len(board.ships) = NumShips
  BY BoardFields DEF F!Complete, IInv
<1> QED BY <1>1, <1>2, <1>3 DEF LossIsExact, F!Lost

\* The comparison of ships_sunk with NUM_SHIPS decides the game exactly when a
\* complete fleet has no cell left.
THEOREM LossCorrect == Spec => []LossIsExact
  BY LossCounted, Invariance, PTL

\* A shot leaves the other cells' verdicts alone.
LEMMA FireKeepsVerdicts ==
  ASSUME IInv, Fire, NEW y \in Cells
  PROVE  /\ board.grid[y] = "hit" => board'.grid[y] \in {"hit", "sunk"}
         /\ board.grid[y] \in {"miss", "sunk"} => board'.grid[y] = board.grid[y]
<1>1. IInv' /\ SameFleet /\ \E x \in Cells \ ShotAt : ShotAt' = ShotAt \cup {x}
  BY FireInvariant
<1>2. SameShips(board, board') /\ ShotOn(board) \subseteq ShotOn(board')
  BY <1>1, InOrder, InOrderNext DEF SameFleet, SameShips
<1> QED BY <1>1, <1>2, VerdictsStay, InOrder, InOrderNext

\* Nothing a board has shown of a shot is taken back before it is cleared.
THEOREM ShotsKept == Spec => ShotsStay
<1> DEFINE Stay == board' # EmptyBoard =>
                     \A x \in Cells :
                       /\ board.grid[x] = "hit" => board'.grid[x] \in {"hit", "sunk"}
                       /\ board.grid[x] \in {"miss", "sunk"} => board'.grid[x] = board.grid[x]
<1>1. IInv /\ [Next]_board => [Stay]_board
  <2> SUFFICES ASSUME IInv, Next, board' # EmptyBoard, NEW x \in Cells
               PROVE  /\ board.grid[x] = "hit" => board'.grid[x] \in {"hit", "sunk"}
                      /\ board.grid[x] \in {"miss", "sunk"} => board'.grid[x] = board.grid[x]
    OBVIOUS
  <2>1. CASE Place
    <3>1. ShotAt = {}
      BY <2>1, PlaceEffect
    <3> QED BY <3>1 DEF ShotAt, AlreadyAttacked
  <2>2. CASE Fire
    BY <2>2, FireKeepsVerdicts
  <2>3. CASE Clear
    BY <2>3 DEF Clear
  <2> QED BY <2>1, <2>2, <2>3 DEF Next
<1>2. Spec => [][Stay]_board
  BY <1>1, Invariance, PTL DEF Spec
<1> QED BY <1>2 DEF ShotsStay

----------------------------------------------------------------------------
(* A board implements the fleet                                            *)

\* The abstract fleet a board stands for.
FleetOf == [i \in 1 .. Len(board.ships) |-> board.ships[i].cells]

\* A placement appends a non-empty ship, apart from the others, to the fleet.
LEMMA PlaceDeploys ==
  ASSUME IInv, Place
  PROVE  F!Deploy
<1>1. PICK cells \in SUBSET Cells, size \in Nat \ {0} :
        /\ Cardinality(cells) = size
        /\ \A i \in ShipIds : board.ships[i].cells \cap cells = {}
        /\ Len(board.ships) < NumShips
        /\ board'.ships = Append(board.ships, [cells |-> cells, size |-> size,
                                               hits |-> 0, sunk |-> FALSE])
        /\ ShotAt = {} /\ ShotAt' = {}
  BY PlaceEffect
<1> DEFINE n == Len(board.ships)
           ship == [cells |-> cells, size |-> size, hits |-> 0, sunk |-> FALSE]
<1>2. board.ships \in Seq(Ship) /\ n \in Nat /\ ship \in Ship /\ ship.cells = cells
  BY BoardFields DEF IInv, Ship
<1>3. /\ Len(board'.ships) = n + 1
      /\ \A i \in 1 .. n : board'.ships[i] = board.ships[i]
      /\ board'.ships[n + 1] = ship
  BY <1>1, <1>2
<1>4. cells # {}
  BY <1>1, FS_EmptySet
<1>5. /\ FleetOf \in Seq(SUBSET Cells) /\ Len(FleetOf) = n /\ DOMAIN FleetOf = 1 .. n
      /\ \A i \in 1 .. n : FleetOf[i] = board.ships[i].cells
  BY <1>2, BoardFields DEF FleetOf, IInv, ShipIds
<1>6. FleetOf' = Append(FleetOf, cells)
  <2>1. FleetOf' = [i \in 1 .. n + 1 |-> board'.ships[i].cells]
    BY <1>3 DEF FleetOf
  <2>2. /\ Append(FleetOf, cells) \in Seq(SUBSET Cells)
        /\ Len(Append(FleetOf, cells)) = n + 1
        /\ \A i \in 1 .. n : Append(FleetOf, cells)[i] = FleetOf[i]
        /\ Append(FleetOf, cells)[n + 1] = cells
    <3> HIDE DEF n
    <3> QED BY <1>5, AppendProperties
  <2>3. Append(FleetOf, cells) = [i \in 1 .. n + 1 |-> Append(FleetOf, cells)[i]]
    <3> HIDE DEF n
    <3> QED BY <2>2, LenProperties
  <2>4. ASSUME NEW i \in 1 .. n + 1
        PROVE  board'.ships[i].cells = Append(FleetOf, cells)[i]
    <3>1. i \in 1 .. n \/ i = n + 1
      BY <1>2
    <3> HIDE DEF n, ship
    <3> QED BY <1>2, <1>3, <1>5, <2>2, <3>1
  <2> HIDE DEF n, ship
  <2> QED BY <2>1, <2>3, <2>4
<1>7. F!Deploy <=> /\ Len(FleetOf) < NumShips
                   /\ \E c \in (SUBSET Cells) \ {{}} :
                        /\ \A i \in DOMAIN FleetOf : FleetOf[i] \cap c = {}
                        /\ FleetOf' = Append(FleetOf, c)
                   /\ UNCHANGED ShotAt
  BY DEF F!Deploy, FleetOf
<1>8. \A i \in DOMAIN FleetOf : FleetOf[i] \cap cells = {}
  BY <1>1, <1>5 DEF ShipIds
<1>9. Len(FleetOf) < NumShips
  BY <1>1, <1>5
<1>10. cells \in (SUBSET Cells) \ {{}}
  BY <1>4
<1>11. UNCHANGED ShotAt
  BY <1>1
<1> QED BY <1>6, <1>7, <1>8, <1>9, <1>10, <1>11

\* The fleet is a function of the ships' cells.
LEMMA SameFleetOf ==
  ASSUME SameFleet
  PROVE  UNCHANGED FleetOf
  BY DEF SameFleet, FleetOf, ShipIds

\* A shot is fired at a complete fleet, at a cell not shot at before.
LEMMA FireShoots ==
  ASSUME IInv, Fire
  PROVE  F!Shoot
<1>1. /\ Len(board.ships) = NumShips /\ SameFleet
      /\ \E x \in Cells \ ShotAt : ShotAt' = ShotAt \cup {x}
  BY FireInvariant
<1>2. F!Complete
  <2>1. Len([i \in 1 .. Len(board.ships) |-> board.ships[i].cells]) = Len(board.ships)
    BY BoardFields DEF IInv
  <2> QED BY <1>1, <2>1 DEF F!Complete
<1>3. UNCHANGED FleetOf
  BY <1>1, SameFleetOf
<1> QED BY <1>1, <1>2, <1>3 DEF F!Shoot, FleetOf

\* A cleared board is a fleet with no ship and no shot.
LEMMA ClearClears == Clear => F!Clear
<1> SUFFICES ASSUME Clear PROVE F!Clear
  OBVIOUS
<1>1. board'.ships = << >> /\ board'.grid = [x \in Cells |-> "empty"]
  BY DEF Clear, EmptyBoard
<1>2. ShotAt' = {}
  BY <1>1 DEF ShotAt, AlreadyAttacked
<1>3. FleetOf' = << >>
  BY <1>1 DEF FleetOf
<1> QED BY <1>2, <1>3 DEF F!Clear, FleetOf

\* Every step of a board is a step of the abstract fleet: a placement deploys a
\* ship on free water, a shot adds one fresh cell.
THEOREM Refinement == Spec => ImplementsFleet
<1>1. Init => F!Init
  <2> SUFFICES ASSUME Init PROVE F!Init
    OBVIOUS
  <2>1. board.ships = << >> /\ board.grid = [x \in Cells |-> "empty"]
    BY DEF Init, EmptyBoard
  <2>2. ShotAt = {}
    BY <2>1 DEF ShotAt, AlreadyAttacked
  <2> QED BY <2>1, <2>2 DEF F!Init
<1>2. IInv /\ [Next]_board => [F!Next]_F!vars
  <2> SUFFICES ASSUME IInv, [Next]_board PROVE [F!Next]_F!vars
    OBVIOUS
  <2>1. CASE Place
    BY <2>1, PlaceDeploys DEF F!Next
  <2>2. CASE Fire
    BY <2>2, FireShoots DEF F!Next
  <2>3. CASE Clear
    BY <2>3, ClearClears DEF F!Next
  <2>4. CASE UNCHANGED board
    BY <2>4 DEF F!vars, ShotAt, AlreadyAttacked
  <2> QED BY <2>1, <2>2, <2>3, <2>4 DEF Next
<1> QED BY <1>1, <1>2, Invariance, PTL DEF Spec, F!Spec, ImplementsFleet

----------------------------------------------------------------------------
(* The bot against it *)

\* The directions, and the cells a direction starts from.
Dirs == 0 .. 3

\* Ships are straight.
Straight == \A i \in ShipIds : board.ships[i].cells \in Footprints(board.ships[i].size)

\* The bot has not begun before the fleet is complete.
Unstarted == Len(board.ships) < NumShips => bot.mode = "random"

\* It fires from a cell it has hit; while it searches, from the first one.
HuntsFromHit ==
  bot.mode # "random" =>
    /\ board.grid[bot.curr] = "hit"
    /\ bot.mode = "search" => bot.curr = bot.first

\* x and y are cells of the same ship.
Together(x, y) == \E i \in ShipIds : x \in board.ships[i].cells /\ y \in board.ships[i].cells

\* While ships do not touch every cell that shows a hit is of the ship hunted.
OneShipHit ==
  ~SomeShipsTouch /\ bot.mode # "random" =>
    \A x \in Cells : board.grid[x] = "hit" => Together(bot.first, x)

\* The search has tried the directions one after another, and has nothing but the
\* first hit.
Tried(d) ==
  LET x == Ahead(bot.first, d, 1)
  IN  x \in Cells => board.grid[x] \in {"miss", "sunk"}

SearchInOrder ==
  bot.mode = "search" =>
    /\ bot.tried < 4 /\ bot.dir = bot.tried
    /\ ~SomeShipsTouch =>
         /\ \A x \in Cells : board.grid[x] = "hit" => x = bot.first
         /\ \A d \in Dirs : d < bot.dir => Tried(d)

\* The inductive invariant.
HuntInv ==
  /\ IInv /\ Straight
  /\ bot \in BotType
  /\ Unstarted
  /\ AnchorStillFloats /\ HuntsFromHit
  /\ DestroyFollowsLine
  /\ OneShipHit /\ SearchInOrder
  /\ NeverGivesUp
----------------------------------------------------------------------------
(* Directions                                                              *)

\* A walk stays in the row or the column of its start.
LEMMA Walk ==
  ASSUME NEW x \in Cells, NEW d \in Dirs, NEW k \in Nat
  PROVE  /\ x = <<x[1], x[2]>> /\ x[1] \in Int /\ x[2] \in Int
         /\ d = 0 => Ahead(x, d, k) = <<x[1], x[2] - k>>
         /\ d = 1 => Ahead(x, d, k) = <<x[1] + k, x[2]>>
         /\ d = 2 => Ahead(x, d, k) = <<x[1], x[2] + k>>
         /\ d = 3 => Ahead(x, d, k) = <<x[1] - k, x[2]>>
  BY BoardAssumption DEF Cells, Ahead, Dirs

\* It starts where it starts, and leaves the sea.
LEMMA WalkEnds ==
  ASSUME NEW x \in Cells, NEW d \in Dirs
  PROVE  /\ Ahead(x, d, 0) = x
         /\ \A k \in Nat : Ahead(x, d, k) \in Cells => k < Cols + Rows
<1>1. Ahead(x, d, 0) = x
  BY Walk DEF Dirs
<1>2. ASSUME NEW k \in Nat, Ahead(x, d, k) \in Cells PROVE k < Cols + Rows
  <2>1. /\ x[1] \in 0 .. Cols - 1 /\ x[2] \in 0 .. Rows - 1
        /\ Ahead(x, d, k)[1] \in 0 .. Cols - 1 /\ Ahead(x, d, k)[2] \in 0 .. Rows - 1
    BY <1>2 DEF Cells
  <2>2. Cols \in Nat \ {0} /\ Rows \in Nat \ {0}
    BY BoardAssumption
  <2>3. CASE d = 0
    BY <2>1, <2>2, <2>3, Walk
  <2>4. CASE d = 1
    BY <2>1, <2>2, <2>4, Walk
  <2>5. CASE d = 2
    BY <2>1, <2>2, <2>5, Walk
  <2>6. CASE d = 3
    BY <2>1, <2>2, <2>6, Walk
  <2> QED BY <2>3, <2>4, <2>5, <2>6 DEF Dirs
<1> QED BY <1>1, <1>2

\* Each cell of a walk is next to the one before.
LEMMA WalkAdjacent ==
  ASSUME NEW x \in Cells, NEW d \in Dirs, NEW k \in Nat \ {0}
  PROVE  Adjacent(Ahead(x, d, k), Ahead(x, d, k - 1))
<1>1. k \in Nat /\ k - 1 \in Nat
  OBVIOUS
<1>2. CASE d = 0
  BY <1>1, <1>2, Walk DEF Adjacent
<1>3. CASE d = 1
  BY <1>1, <1>3, Walk DEF Adjacent
<1>4. CASE d = 2
  BY <1>1, <1>4, Walk DEF Adjacent
<1>5. CASE d = 3
  BY <1>1, <1>5, Walk DEF Adjacent
<1> QED BY <1>2, <1>3, <1>4, <1>5 DEF Dirs

\* Where Reach stops: past hits only, at something else.
StopsAfter(b, x, d, n) ==
  /\ Reach(b, x, d) = Ahead(x, d, n)
  /\ ~(Ahead(x, d, n) \in Cells /\ b.grid[Ahead(x, d, n)] = "hit")
  /\ \A j \in 1 .. n - 1 : Ahead(x, d, j) \in Cells /\ b.grid[Ahead(x, d, j)] = "hit"

LEMMA ReachStops ==
  ASSUME NEW b, NEW x \in Cells, NEW d \in Dirs
  PROVE  \E n \in Nat \ {0} : StopsAfter(b, x, d, n)
<1> DEFINE walked(k) == Ahead(x, d, k) \in Cells /\ b.grid[Ahead(x, d, k)] = "hit"
           stops     == {n \in 1 .. Cols + Rows : ~walked(n)}
           k == CHOOSE n \in 1 .. Cols + Rows : ~walked(n) /\ \A j \in 1 .. n - 1 : walked(j)
<1>1. Cols + Rows \in 1 .. Cols + Rows /\ Cols + Rows \in Nat
  BY BoardAssumption
<1>2. ~walked(Cols + Rows)
  BY <1>1, WalkEnds
<1>3. stops \in SUBSET Nat /\ stops # {}
  BY <1>1, <1>2
<1>4. PICK n \in stops : \A j \in stops : n <= j
  <2> HIDE DEF stops
  <2> QED BY <1>3, LeastNumber
<1>5. n \in 1 .. Cols + Rows /\ ~walked(n) /\ \A j \in 1 .. n - 1 : walked(j)
  <2>1. n \in 1 .. Cols + Rows /\ ~walked(n)
    BY <1>4
  <2>2. ASSUME NEW j \in 1 .. n - 1 PROVE walked(j)
    <3>1. j \in 1 .. Cols + Rows /\ ~(n <= j)
      BY <1>1, <2>1
    <3> HIDE DEF walked
    <3> QED BY <3>1, <1>4
  <2> HIDE DEF walked
  <2> QED BY <2>1, <2>2
<1>6. k \in 1 .. Cols + Rows /\ ~walked(k) /\ \A j \in 1 .. k - 1 : walked(j)
  <2> HIDE DEF walked
  <2> QED BY <1>5
<1>7. Reach(b, x, d) = Ahead(x, d, k)
  BY DEF Reach
<1>8. k \in Nat \ {0}
  BY <1>1, <1>6
<1> HIDE DEF k
<1>9. StopsAfter(b, x, d, k)
  BY <1>6, <1>7 DEF StopsAfter
<1> QED BY <1>8, <1>9

----------------------------------------------------------------------------
(* A ship's cells on a line                                                *)

\* From a cell of a straight ship every other one is reached by walking over the
\* ship's own cells.
LEMMA ShipLine ==
  ASSUME NEW at \in Cells, NEW size \in Nat, NEW orient \in Orientations,
         NEW x \in Span(at, size, orient), NEW y \in Span(at, size, orient),
         x \in Cells, x # y
  PROVE  \E d \in Dirs, m \in Nat \ {0} :
           /\ d \in IF orient = "horizontal" THEN {1, 3} ELSE {0, 2}
           /\ y = Ahead(x, d, m)
           /\ \A j \in 1 .. m : Ahead(x, d, j) \in Span(at, size, orient)
<1>1. /\ x = <<x[1], x[2]>> /\ x[1] \in Int /\ x[2] \in Int
      /\ at[1] \in Int /\ at[2] \in Int
  BY BoardAssumption DEF Cells
<1>2. CASE orient = "horizontal"
  <2>1. Span(at, size, orient) = (at[1] .. at[1] + size - 1) \X {at[2]}
    BY <1>2 DEF Span
  <2>2. /\ x[2] = at[2] /\ y = <<y[1], at[2]>> /\ y[1] \in Int /\ x[1] # y[1]
        /\ x[1] \in at[1] .. at[1] + size - 1 /\ y[1] \in at[1] .. at[1] + size - 1
    BY <1>1, <2>1
  <2>3. CASE x[1] < y[1]
    <3>1. y[1] - x[1] \in Nat \ {0} /\ 1 \in Dirs
      BY <1>1, <2>2, <2>3 DEF Dirs
    <3>2. y = Ahead(x, 1, y[1] - x[1])
      BY <1>1, <2>2, <3>1, Walk
    <3>3. \A j \in 1 .. y[1] - x[1] : Ahead(x, 1, j) \in Span(at, size, orient)
      BY <1>1, <2>1, <2>2, <3>1, Walk
    <3> QED BY <1>2, <3>1, <3>2, <3>3
  <2>4. CASE y[1] < x[1]
    <3>1. x[1] - y[1] \in Nat \ {0} /\ 3 \in Dirs
      BY <1>1, <2>2, <2>4 DEF Dirs
    <3>2. y = Ahead(x, 3, x[1] - y[1])
      BY <1>1, <2>2, <3>1, Walk
    <3>3. \A j \in 1 .. x[1] - y[1] : Ahead(x, 3, j) \in Span(at, size, orient)
      BY <1>1, <2>1, <2>2, <3>1, Walk
    <3> QED BY <1>2, <3>1, <3>2, <3>3
  <2> QED BY <1>1, <2>2, <2>3, <2>4
<1>3. CASE orient = "vertical"
  <2>1. Span(at, size, orient) = {at[1]} \X (at[2] .. at[2] + size - 1)
    BY <1>3 DEF Span
  <2>2. /\ x[1] = at[1] /\ y = <<at[1], y[2]>> /\ y[2] \in Int /\ x[2] # y[2]
        /\ x[2] \in at[2] .. at[2] + size - 1 /\ y[2] \in at[2] .. at[2] + size - 1
    BY <1>1, <2>1
  <2>3. CASE x[2] < y[2]
    <3>1. y[2] - x[2] \in Nat \ {0} /\ 2 \in Dirs
      BY <1>1, <2>2, <2>3 DEF Dirs
    <3>2. y = Ahead(x, 2, y[2] - x[2])
      BY <1>1, <2>2, <3>1, Walk
    <3>3. \A j \in 1 .. y[2] - x[2] : Ahead(x, 2, j) \in Span(at, size, orient)
      BY <1>1, <2>1, <2>2, <3>1, Walk
    <3> QED BY <1>3, <3>1, <3>2, <3>3
  <2>4. CASE y[2] < x[2]
    <3>1. x[2] - y[2] \in Nat \ {0} /\ 0 \in Dirs
      BY <1>1, <2>2, <2>4 DEF Dirs
    <3>2. y = Ahead(x, 0, x[2] - y[2])
      BY <1>1, <2>2, <3>1, Walk
    <3>3. \A j \in 1 .. x[2] - y[2] : Ahead(x, 0, j) \in Span(at, size, orient)
      BY <1>1, <2>1, <2>2, <3>1, Walk
    <3> QED BY <1>3, <3>1, <3>2, <3>3
  <2> QED BY <1>1, <2>2, <2>3, <2>4
<1> QED BY <1>2, <1>3 DEF Orientations

\* The other way round: a neighbour in the same ship tells how the ship lies.
LEMMA NeighbourTells ==
  ASSUME NEW at \in Cells, NEW size \in Nat, NEW orient \in Orientations,
         NEW x \in Cells, x \in Span(at, size, orient), NEW d \in Dirs,
         Ahead(x, d, 1) \in Span(at, size, orient)
  PROVE  d \in IF orient = "horizontal" THEN {1, 3} ELSE {0, 2}
<1>1. /\ x = <<x[1], x[2]>> /\ x[1] \in Int /\ x[2] \in Int
  BY BoardAssumption DEF Cells
<1>2. ASSUME orient = "horizontal" PROVE Ahead(x, d, 1)[2] = x[2]
  BY <1>2 DEF Span
<1>3. ASSUME orient = "vertical" PROVE Ahead(x, d, 1)[1] = x[1]
  BY <1>3 DEF Span
<1>4. /\ d = 0 \/ d = 2 => Ahead(x, d, 1)[2] # x[2]
      /\ d = 1 \/ d = 3 => Ahead(x, d, 1)[1] # x[1]
  <2>1. 1 \in Nat
    OBVIOUS
  <2>2. ASSUME d = 0 PROVE Ahead(x, d, 1) = <<x[1], x[2] - 1>>
    BY <2>1, <2>2, Walk
  <2>3. ASSUME d = 1 PROVE Ahead(x, d, 1) = <<x[1] + 1, x[2]>>
    BY <2>1, <2>3, Walk
  <2>4. ASSUME d = 2 PROVE Ahead(x, d, 1) = <<x[1], x[2] + 1>>
    BY <2>1, <2>4, Walk
  <2>5. ASSUME d = 3 PROVE Ahead(x, d, 1) = <<x[1] - 1, x[2]>>
    BY <2>1, <2>5, Walk
  <2> QED BY <1>1, <2>2, <2>3, <2>4, <2>5
<1> QED BY <1>2, <1>3, <1>4 DEF Orientations, Dirs

----------------------------------------------------------------------------
(* What the board shows of a shot                                          *)

\* A cell shot at is a miss outside the ships, and on a ship says whether it floats.
ShowsShots ==
  \A x \in Cells :
    /\ x \in ShotAt <=> board.grid[x] \in {"hit", "miss", "sunk"}
    /\ \A i \in ShipIds : x \in board.ships[i].cells /\ x \in ShotAt =>
         board.grid[x] = IF board.ships[i].cells \subseteq ShotAt THEN "sunk" ELSE "hit"
    /\ x \in ShotAt /\ (\A i \in ShipIds : x \notin board.ships[i].cells) =>
         board.grid[x] = "miss"

LEMMA Shown == IInv => ShowsShots
<1> SUFFICES ASSUME IInv, NEW x \in Cells
             PROVE  /\ x \in ShotAt <=> board.grid[x] \in {"hit", "miss", "sunk"}
                    /\ \A i \in ShipIds : x \in board.ships[i].cells /\ x \in ShotAt =>
                         board.grid[x] = IF board.ships[i].cells \subseteq ShotAt
                                         THEN "sunk" ELSE "hit"
                    /\ x \in ShotAt /\ (\A i \in ShipIds : x \notin board.ships[i].cells) =>
                         board.grid[x] = "miss"
  BY DEF ShowsShots
<1>1. x \in ShotAt <=> board.grid[x] \in {"hit", "miss", "sunk"}
  BY DEF ShotAt, AlreadyAttacked
<1>2. board.grid[x] = F!Colour(x)
  BY DEF IInv, GridShowsFleet
<1>3. F!At(x) = {i \in ShipIds : x \in board.ships[i].cells}
  BY DEF F!At, ShipIds
<1>4. \A i \in ShipIds : F!Down(i) <=> board.ships[i].cells \subseteq ShotAt
  BY DEF F!Down, ShipIds
<1>5. \A i \in ShipIds : x \in board.ships[i].cells => F!At(x) = {i}
  BY <1>3 DEF IInv, ShipsApart
<1>6. ASSUME NEW i \in ShipIds, x \in board.ships[i].cells, x \in ShotAt
      PROVE  board.grid[x] = IF board.ships[i].cells \subseteq ShotAt THEN "sunk" ELSE "hit"
  <2>1. F!At(x) = {i}
    BY <1>5, <1>6
  <2> QED BY <1>2, <1>4, <1>6, <2>1 DEF F!Colour
<1>7. ASSUME x \in ShotAt, \A i \in ShipIds : x \notin board.ships[i].cells
      PROVE  board.grid[x] = "miss"
  <2>1. F!At(x) = {}
    BY <1>3, <1>7
  <2> QED BY <1>2, <1>7, <2>1 DEF F!Colour
<1> QED BY <1>1, <1>6, <1>7

\* The bot fires at a fresh cell of a complete fleet.
Shot(x) ==
  /\ Len(board.ships) = NumShips
  /\ x \in Cells /\ ~AlreadyAttacked(board, x)
  /\ board' = Attack(board, x)

\* Such a shot keeps the board's invariant.
LEMMA ShotKeeps ==
  ASSUME IInv, NEW x, Shot(x)
  PROVE  /\ IInv' /\ ShotAt' = ShotAt \cup {x} /\ x \notin ShotAt
         /\ ShipIds' = ShipIds /\ Len(board'.ships) = NumShips
         /\ \A i \in ShipIds : board'.ships[i].cells = board.ships[i].cells
<1>1. IInv' /\ SameFleet /\ x \notin ShotAt /\ ShotAt' = ShotAt \cup {x}
  BY ShotInvariant DEF Shot
<1> QED BY <1>1 DEF SameFleet, ShipIds, Shot

\* What the shot changes of what is seen: its own cell, and the rest of the ship it
\* sinks.
LEMMA ShotShows ==
  ASSUME IInv, NEW x, Shot(x)
  PROVE  /\ board'.grid[x] \in {"hit", "miss", "sunk"}
         /\ ResultAt(board', x) = board'.grid[x]
         /\ \A y \in Cells : y # x /\ board.grid[y] \in {"miss", "sunk"} =>
              board'.grid[y] = board.grid[y]
         /\ \A y \in Cells : y # x /\ board'.grid[y] = "hit" => board.grid[y] = "hit"
         /\ board'.grid[x] # "sunk" =>
              \A y \in Cells : board.grid[y] = "hit" => board'.grid[y] = "hit"
         /\ board'.grid[x] = "miss" => \A i \in ShipIds : x \notin board.ships[i].cells
         /\ board'.grid[x] # "miss" => \E i \in ShipIds : x \in board.ships[i].cells
         /\ board'.grid[x] = "sunk" =>
              \A i \in ShipIds : x \in board.ships[i].cells =>
                \A y \in board.ships[i].cells : board'.grid[y] = "sunk"
<1>1. /\ IInv' /\ ShotAt' = ShotAt \cup {x} /\ x \notin ShotAt /\ ShipIds' = ShipIds
      /\ \A i \in ShipIds : board'.ships[i].cells = board.ships[i].cells
      /\ x \in Cells
  BY ShotKeeps DEF Shot
<1>2. \A i \in ShipIds : board.ships[i].cells \subseteq Cells
  BY BoardFields DEF IInv
<1>3. \A y \in Cells :
        /\ y \in ShotAt <=> board.grid[y] \in {"hit", "miss", "sunk"}
        /\ \A i \in ShipIds : y \in board.ships[i].cells /\ y \in ShotAt =>
             board.grid[y] = IF board.ships[i].cells \subseteq ShotAt THEN "sunk" ELSE "hit"
        /\ y \in ShotAt /\ (\A i \in ShipIds : y \notin board.ships[i].cells) =>
             board.grid[y] = "miss"
  BY Shown DEF ShowsShots
<1>4. \A y \in Cells :
        /\ y \in ShotAt' <=> board'.grid[y] \in {"hit", "miss", "sunk"}
        /\ \A i \in ShipIds : y \in board.ships[i].cells /\ y \in ShotAt' =>
             board'.grid[y] = IF board.ships[i].cells \subseteq ShotAt' THEN "sunk" ELSE "hit"
        /\ y \in ShotAt' /\ (\A i \in ShipIds : y \notin board.ships[i].cells) =>
             board'.grid[y] = "miss"
  <2>1. ShowsShots'
    BY <1>1, Shown, PTL
  <2> QED BY <1>1, <2>1 DEF ShowsShots
<1>5. board'.grid[x] \in {"hit", "miss", "sunk"}
  BY <1>1, <1>4
<1>6. ResultAt(board', x) = board'.grid[x]
  BY <1>5 DEF ResultAt
<1>7. \A y \in Cells : y # x /\ board.grid[y] \in {"miss", "sunk"} => board'.grid[y] = board.grid[y]
  BY <1>1, <1>3, <1>4
<1>8. \A y \in Cells : y # x /\ board'.grid[y] = "hit" => board.grid[y] = "hit"
  BY <1>1, <1>3, <1>4
<1>9. ASSUME board'.grid[x] # "sunk", NEW y \in Cells, board.grid[y] = "hit"
      PROVE  board'.grid[y] = "hit"
  <2>1. y \in ShotAt /\ y # x
    BY <1>1, <1>3, <1>9
  <2>2. PICK i \in ShipIds : y \in board.ships[i].cells /\ ~(board.ships[i].cells \subseteq ShotAt)
    BY <1>3, <1>9, <2>1
  <2>3. ~(board.ships[i].cells \subseteq ShotAt')
    BY <1>1, <1>4, <1>9, <2>2
  <2> QED BY <1>1, <1>4, <2>1, <2>2, <2>3
<1>10. board'.grid[x] = "miss" => \A i \in ShipIds : x \notin board.ships[i].cells
  BY <1>1, <1>4
<1>11. board'.grid[x] # "miss" => \E i \in ShipIds : x \in board.ships[i].cells
  BY <1>1, <1>4
<1>12. ASSUME board'.grid[x] = "sunk", NEW i \in ShipIds, x \in board.ships[i].cells,
              NEW y \in board.ships[i].cells
       PROVE  board'.grid[y] = "sunk"
  <2>1. board.ships[i].cells \subseteq ShotAt'
    BY <1>1, <1>4, <1>12
  <2> QED BY <1>2, <1>4, <1>12, <2>1
<1> QED BY <1>5, <1>6, <1>7, <1>8, <1>9, <1>10, <1>11, <1>12

----------------------------------------------------------------------------
(* Where the bot aims                                                      *)

\* Two ships that do not touch have no neighbouring cells.
LEMMA NeighboursAreOneShip ==
  ASSUME IInv, ~SomeShipsTouch, NEW i \in ShipIds, NEW j \in ShipIds,
         NEW x \in board.ships[i].cells, NEW y \in board.ships[j].cells, Adjacent(x, y)
  PROVE  i = j
<1>1. DOMAIN board.ships = ShipIds
  BY BoardFields DEF IInv
<1> QED BY <1>1 DEF SomeShipsTouch

\* From a hit cell Reach leads to the neighbour of a hit cell, and the first cell on
\* its way is hit or the one it leads to.
LEMMA ReachFromHit ==
  ASSUME NEW x \in Cells, board.grid[x] = "hit", NEW d \in Dirs
  PROVE  LET r == Reach(board, x, d)
         IN  /\ \E p \in Cells : board.grid[p] = "hit" /\ Adjacent(r, p)
             /\ \/ r = Ahead(x, d, 1)
                \/ Ahead(x, d, 1) \in Cells /\ board.grid[Ahead(x, d, 1)] = "hit"
<1>1. PICK n \in Nat \ {0} : StopsAfter(board, x, d, n)
  BY ReachStops
<1>2. Adjacent(Ahead(x, d, n), Ahead(x, d, n - 1))
  BY WalkAdjacent
<1>3. Ahead(x, d, n - 1) \in Cells /\ board.grid[Ahead(x, d, n - 1)] = "hit"
  <2>1. CASE n = 1
    BY <2>1, WalkEnds
  <2>2. CASE n # 1
    BY <1>1, <2>2 DEF StopsAfter
  <2> QED BY <2>1, <2>2
<1>4. n = 1 \/ (Ahead(x, d, 1) \in Cells /\ board.grid[Ahead(x, d, 1)] = "hit")
  BY <1>1 DEF StopsAfter
<1> QED BY <1>1, <1>2, <1>3, <1>4 DEF StopsAfter

\* What a probe finds, and the bot it leaves.
LEMMA ProbeAims ==
  ASSUME bot \in BotType, bot.mode # "random", NEW k \in OpenProbes(bot, board)
  PROVE  LET aimed == [Blocked(bot, k) EXCEPT !.curr = ProbeCell(bot, board, k)]
             d     == ProbeDir(bot, k)
         IN  /\ k \in 0 .. 3 /\ d \in Dirs /\ (bot.mode = "search" => bot.tried + k < 4)
             /\ aimed.mode = bot.mode /\ aimed.first = bot.first /\ aimed.dir = d
             /\ aimed.tried = IF bot.mode = "search" THEN bot.tried + k ELSE bot.tried
             /\ aimed.curr = Reach(board, IF k = 0 THEN bot.curr ELSE bot.first, d)
             /\ aimed.curr \in Cells /\ ~AlreadyAttacked(board, aimed.curr)
             /\ aimed \in BotType
<1>1. /\ bot.mode \in Modes /\ bot.dir \in 0 .. 3 /\ bot.tried \in 0 .. 4
      /\ bot.first \in Cells /\ bot.curr \in Cells
      /\ DOMAIN bot = {"mode", "first", "curr", "dir", "tried"}
  BY DEF BotType
<1>2. /\ k \in 0 .. 3 /\ (bot.mode = "search" => bot.tried + k < 4)
      /\ ProbeCell(bot, board, k) \in Cells /\ ~AlreadyAttacked(board, ProbeCell(bot, board, k))
  BY <1>1 DEF OpenProbes, Probes
<1>3. ProbeDir(bot, k) \in Dirs
  <2>1. CASE bot.mode = "search"
    BY <1>1, <1>2, <2>1 DEF ProbeDir, Turn, Dirs
  <2>2. CASE bot.mode # "search"
    BY <1>1, <1>2, <2>2 DEF ProbeDir, Turn, Dirs
  <2> QED BY <2>1, <2>2
<1>4. ProbeCell(bot, board, k) = Reach(board, IF k = 0 THEN bot.curr ELSE bot.first, ProbeDir(bot, k))
  BY DEF ProbeCell
<1> DEFINE d     == ProbeDir(bot, k)
           x     == ProbeCell(bot, board, k)
           t     == IF bot.mode = "search" THEN bot.tried + k ELSE bot.tried
           aimed == [Blocked(bot, k) EXCEPT !.curr = x]
<1>5. /\ aimed.mode = bot.mode /\ aimed.first = bot.first /\ aimed.dir = d
      /\ aimed.tried = t /\ aimed.curr = x
      /\ aimed = [mode |-> bot.mode, first |-> bot.first, curr |-> x, dir |-> d, tried |-> t]
  <2>1. Blocked(bot, k) = [bot EXCEPT !.dir = d, !.tried = t]
    BY DEF Blocked
  <2>2. bot = [mode |-> bot.mode, first |-> bot.first, curr |-> bot.curr,
               dir |-> bot.dir, tried |-> bot.tried]
    BY DEF BotType
  <2> HIDE DEF d, x, t
  <2>3. Blocked(bot, k) = [mode |-> bot.mode, first |-> bot.first, curr |-> bot.curr,
                           dir |-> d, tried |-> t]
    BY <2>1, <2>2
  <2>4. aimed = [mode |-> bot.mode, first |-> bot.first, curr |-> x, dir |-> d, tried |-> t]
    BY <2>3
  <2> QED BY <2>4
<1>6. aimed \in BotType
  <2>1. t \in 0 .. 4
    BY <1>1, <1>2
  <2> HIDE DEF d, x, t, aimed
  <2> QED BY <1>1, <1>2, <1>3, <1>5, <2>1 DEF BotType, Dirs, x, d
<1> HIDE DEF aimed
<1> QED BY <1>2, <1>3, <1>4, <1>5, <1>6 DEF aimed

----------------------------------------------------------------------------
(* While ships do not touch the hunt finds something to shoot at           *)

\* A ship that shows a hit has a cell not shot at, and shows hits only.
LEMMA HitShip ==
  ASSUME IInv, Straight, NEW x \in Cells, board.grid[x] = "hit"
  PROVE  \E i \in ShipIds, at \in Cells, size \in Nat, orient \in Orientations :
           /\ x \in board.ships[i].cells
           /\ board.ships[i].cells = Span(at, size, orient)
           /\ board.ships[i].cells \subseteq Cells
           /\ \E y \in board.ships[i].cells : y \notin ShotAt
           /\ \A y \in board.ships[i].cells : y \in ShotAt => board.grid[y] = "hit"
<1>1. ShowsShots
  BY Shown
<1>2. x \in ShotAt
  BY <1>1 DEF ShowsShots
<1>3. PICK i \in ShipIds : x \in board.ships[i].cells
  BY <1>1, <1>2 DEF ShowsShots
<1>4. board.ships[i].cells \subseteq Cells /\ board.ships[i].size \in Nat
  BY BoardFields DEF IInv
<1>5. ~(board.ships[i].cells \subseteq ShotAt)
  BY <1>1, <1>2, <1>3 DEF ShowsShots
<1>6. \A y \in board.ships[i].cells : y \in ShotAt => board.grid[y] = "hit"
  BY <1>1, <1>4, <1>5 DEF ShowsShots
<1>7. \E at \in Cells, orient \in Orientations :
        board.ships[i].cells = Span(at, board.ships[i].size, orient)
  BY DEF Straight, Footprints
<1> QED BY <1>3, <1>4, <1>5, <1>6, <1>7

\* The search has a direction left in which the ship goes on.
LEMMA SearchFinds ==
  ASSUME HuntInv, bot.mode = "search", ~SomeShipsTouch
  PROVE  \E d \in Dirs :
           /\ bot.dir <= d
           /\ Ahead(bot.first, d, 1) \in Cells
           /\ Ahead(bot.first, d, 1) \notin ShotAt
           /\ Together(bot.first, Ahead(bot.first, d, 1))
<1>1. bot.first \in Cells /\ board.grid[bot.first] = "hit" /\ bot.dir \in 0 .. 3
  BY DEF HuntInv, BotType, AnchorStillFloats
<1>2. PICK i \in ShipIds, at \in Cells, size \in Nat, orient \in Orientations :
        /\ bot.first \in board.ships[i].cells
        /\ board.ships[i].cells = Span(at, size, orient)
        /\ board.ships[i].cells \subseteq Cells
        /\ \E y \in board.ships[i].cells : y \notin ShotAt
        /\ \A y \in board.ships[i].cells : y \in ShotAt => board.grid[y] = "hit"
  BY <1>1, HitShip DEF HuntInv
<1>3. PICK y \in board.ships[i].cells : y \notin ShotAt
  BY <1>2
<1>4. y # bot.first
  BY <1>1, <1>3 DEF ShotAt, AlreadyAttacked
<1>5. PICK d \in Dirs, m \in Nat \ {0} :
        /\ d \in IF orient = "horizontal" THEN {1, 3} ELSE {0, 2}
        /\ y = Ahead(bot.first, d, m)
        /\ \A j \in 1 .. m : Ahead(bot.first, d, j) \in Span(at, size, orient)
  BY <1>1, <1>2, <1>3, <1>4, ShipLine
<1> DEFINE z == Ahead(bot.first, d, 1)
<1>6. z \in board.ships[i].cells /\ z \in Cells
  BY <1>2, <1>5
<1>7. z # bot.first
  <2>1. Adjacent(z, Ahead(bot.first, d, 0)) /\ Ahead(bot.first, d, 0) = bot.first
    BY <1>1, WalkAdjacent, WalkEnds
  <2>2. bot.first[1] \in Int /\ bot.first[2] \in Int
    BY <1>1, BoardAssumption DEF Cells
  <2> QED BY <2>1, <2>2 DEF Adjacent
<1>8. z \notin ShotAt
  BY <1>2, <1>6, <1>7 DEF HuntInv, SearchInOrder
<1>9. bot.dir <= d
  <2>1. d < bot.dir => board.grid[z] \in {"miss", "sunk"}
    BY <1>6 DEF HuntInv, SearchInOrder, Tried
  <2> QED BY <1>1, <1>6, <1>8, <2>1 DEF Dirs, ShotAt, AlreadyAttacked
<1> QED BY <1>2, <1>6, <1>8, <1>9 DEF Together

\* On the line of a ship the first cell past the hits, at one of the ends, is the
\* ship's.
LEMMA LineFinds ==
  ASSUME HuntInv, bot.mode = "destroy", ~SomeShipsTouch
  PROVE  \E d \in {bot.dir, (bot.dir + 2) % 4} :
           Reach(board, bot.first, d) \in Cells /\ Reach(board, bot.first, d) \notin ShotAt
<1>1. bot.first \in Cells /\ board.grid[bot.first] = "hit" /\ bot.dir \in 0 .. 3
  BY DEF HuntInv, BotType, AnchorStillFloats
<1>2. PICK i \in ShipIds, at \in Cells, size \in Nat, orient \in Orientations :
        /\ bot.first \in board.ships[i].cells
        /\ board.ships[i].cells = Span(at, size, orient)
        /\ board.ships[i].cells \subseteq Cells
        /\ \E y \in board.ships[i].cells : y \notin ShotAt
        /\ \A y \in board.ships[i].cells : y \in ShotAt => board.grid[y] = "hit"
  BY <1>1, HitShip DEF HuntInv
<1>3. PICK y \in board.ships[i].cells : y \notin ShotAt
  BY <1>2
<1>4. y # bot.first
  BY <1>1, <1>3 DEF ShotAt, AlreadyAttacked
<1>5. PICK d \in Dirs, m \in Nat \ {0} :
        /\ d \in IF orient = "horizontal" THEN {1, 3} ELSE {0, 2}
        /\ y = Ahead(bot.first, d, m)
        /\ \A j \in 1 .. m : Ahead(bot.first, d, j) \in Span(at, size, orient)
  BY <1>1, <1>2, <1>3, <1>4, ShipLine
<1>6. PICK e \in {bot.dir, (bot.dir + 2) % 4} :
        Ahead(bot.first, e, 1) \in Cells /\ board.grid[Ahead(bot.first, e, 1)] = "hit"
  BY DEF HuntInv, DestroyFollowsLine
<1>7. Ahead(bot.first, e, 1) \in board.ships[i].cells
  <2>1. Together(bot.first, Ahead(bot.first, e, 1))
    BY <1>6 DEF HuntInv, OneShipHit
  <2> QED BY <1>2, <2>1 DEF Together, HuntInv, IInv, ShipsApart
<1>8. e \in Dirs /\ e \in IF orient = "horizontal" THEN {1, 3} ELSE {0, 2}
  <2>1. e \in Dirs
    BY <1>1, <1>6 DEF Dirs
  <2> QED BY <1>1, <1>2, <1>7, <2>1, NeighbourTells
<1>9. d \in {bot.dir, (bot.dir + 2) % 4}
  BY <1>1, <1>5, <1>6, <1>8
<1>10. PICK n \in Nat \ {0} : StopsAfter(board, bot.first, d, n)
  BY <1>1, ReachStops
<1>11. n <= m
  <2>1. SUFFICES ASSUME m < n PROVE FALSE
    OBVIOUS
  <2>2. board.grid[y] = "hit" /\ y \in Cells
    BY <1>2, <1>5, <1>10, <2>1 DEF StopsAfter
  <2> QED BY <1>3, <2>2 DEF ShotAt, AlreadyAttacked
<1>12. Ahead(bot.first, d, n) \in board.ships[i].cells
  BY <1>2, <1>5, <1>11
<1>13. Ahead(bot.first, d, n) \in Cells /\ Ahead(bot.first, d, n) \notin ShotAt
  BY <1>2, <1>10, <1>12 DEF StopsAfter
<1> QED BY <1>9, <1>10, <1>13 DEF StopsAfter

\* So the bot does not fall back to a random cell.
LEMMA HuntGoesOn ==
  ASSUME HuntInv, bot.mode # "random", ~SomeShipsTouch
  PROVE  OpenProbes(bot, board) # {}
<1>1. bot.mode \in {"search", "destroy"} /\ bot.dir \in 0 .. 3 /\ bot.first \in Cells
  BY DEF HuntInv, BotType, Modes
<1>2. \A x \in Cells : x \notin ShotAt => ~AlreadyAttacked(board, x)
  BY DEF ShotAt
<1>3. CASE bot.mode = "search"
  <2>1. PICK d \in Dirs : bot.dir <= d /\ Ahead(bot.first, d, 1) \in Cells
                         /\ Ahead(bot.first, d, 1) \notin ShotAt
    BY <1>3, SearchFinds
  <2>2. Reach(board, bot.first, d) = Ahead(bot.first, d, 1)
    <3>1. board.grid[Ahead(bot.first, d, 1)] # "hit"
      BY <2>1 DEF ShotAt, AlreadyAttacked
    <3>2. board.grid[bot.first] = "hit"
      BY <1>3 DEF HuntInv, AnchorStillFloats
    <3> QED BY <1>1, <3>1, <3>2, ReachFromHit
  <2>3. bot.curr = bot.first /\ bot.dir = bot.tried
    BY <1>3 DEF HuntInv, HuntsFromHit, SearchInOrder
  <2>4. d - bot.dir \in 0 .. Probes(bot) - 1
    BY <1>1, <1>3, <2>1, <2>3 DEF Probes, Dirs
  <2>5. ProbeDir(bot, d - bot.dir) = d
    BY <1>1, <1>3, <2>1 DEF ProbeDir, Turn, Dirs
  <2>6. ProbeCell(bot, board, d - bot.dir) = Ahead(bot.first, d, 1)
    BY <2>2, <2>3, <2>5 DEF ProbeCell
  <2> QED BY <1>2, <2>1, <2>4, <2>6 DEF OpenProbes
<1>4. CASE bot.mode = "destroy"
  <2>1. PICK d \in {bot.dir, (bot.dir + 2) % 4} :
          Reach(board, bot.first, d) \in Cells /\ Reach(board, bot.first, d) \notin ShotAt
    BY <1>4, LineFinds
  <2>2. Probes(bot) = 4 /\ Turn(bot) = 2
    BY <1>4 DEF Probes, Turn
  <2>3. \E k \in {1, 2} : ProbeDir(bot, k) = d
    BY <1>1, <2>1, <2>2 DEF ProbeDir
  <2>4. PICK k \in {1, 2} : ProbeDir(bot, k) = d
    BY <2>3
  <2>5. ProbeCell(bot, board, k) = Reach(board, bot.first, d)
    BY <2>4 DEF ProbeCell
  <2> QED BY <1>2, <2>1, <2>2, <2>4, <2>5 DEF OpenProbes
<1> QED BY <1>1, <1>3, <1>4

----------------------------------------------------------------------------
(* One shot                                                                *)

\* bot_register_result, case by case.
LEMMA Registered ==
  ASSUME NEW aimed \in BotType, NEW result \in {"hit", "miss", "sunk"},
         aimed.mode = "search" => aimed.tried < 4
  PROVE  LET b == Register(aimed, result)
         IN  /\ b \in BotType
             /\ result = "sunk" => b.mode = "random"
             /\ aimed.mode = "random" /\ result = "hit" =>
                  /\ b.mode = "search" /\ b.first = aimed.curr /\ b.curr = aimed.curr
                  /\ b.dir = 0 /\ b.tried = 0
             /\ aimed.mode = "search" /\ result = "hit" =>
                  /\ b.mode = "destroy" /\ b.first = aimed.first /\ b.curr = aimed.curr
                  /\ b.dir = aimed.dir
             /\ aimed.mode = "search" /\ result = "miss" =>
                  /\ b.mode = IF aimed.tried + 1 >= 4 THEN "random" ELSE "search"
                  /\ b.first = aimed.first /\ b.curr = aimed.first
                  /\ b.dir = (aimed.dir + 1) % 4 /\ b.tried = aimed.tried + 1
             /\ aimed.mode = "destroy" /\ result = "miss" =>
                  /\ b.mode = "destroy" /\ b.first = aimed.first /\ b.curr = aimed.first
                  /\ b.dir = (aimed.dir + 2) % 4
             /\ \/ aimed.mode = "random" /\ result = "miss"
                \/ aimed.mode = "destroy" /\ result = "hit"
                => b = aimed
<1>1. /\ aimed.mode \in {"random", "search", "destroy"} /\ aimed.dir \in 0 .. 3
      /\ aimed.tried \in 0 .. 4 /\ aimed.first \in Cells /\ aimed.curr \in Cells
      /\ aimed = [mode |-> aimed.mode, first |-> aimed.first, curr |-> aimed.curr,
                  dir |-> aimed.dir, tried |-> aimed.tried]
  BY DEF BotType, Modes
<1> DEFINE b == Register(aimed, result)
<1>2. CASE result = "sunk"
  <2>1. b = [aimed EXCEPT !.mode = "random"]
    BY <1>2 DEF Register
  <2> HIDE DEF b
  <2> QED BY <1>1, <1>2, <2>1 DEF BotType, Modes, b
<1>3. CASE aimed.mode = "random" /\ result = "hit"
  <2>1. b = [aimed EXCEPT !.mode = "search", !.first = aimed.curr, !.dir = 0, !.tried = 0]
    BY <1>3 DEF Register
  <2> HIDE DEF b
  <2>2. b = [mode |-> "search", first |-> aimed.curr, curr |-> aimed.curr, dir |-> 0, tried |-> 0]
    BY <1>1, <2>1
  <2>3. b \in BotType
    BY <1>1, <2>2 DEF BotType, Modes
  <2> QED BY <1>3, <2>2, <2>3 DEF b
<1>4. CASE aimed.mode = "search" /\ result = "hit"
  <2>1. b = [aimed EXCEPT !.mode = "destroy"]
    BY <1>4 DEF Register
  <2> HIDE DEF b
  <2>2. b = [mode |-> "destroy", first |-> aimed.first, curr |-> aimed.curr,
             dir |-> aimed.dir, tried |-> aimed.tried]
    BY <1>1, <2>1
  <2>3. b \in BotType
    BY <1>1, <2>2 DEF BotType, Modes
  <2> QED BY <1>4, <2>2, <2>3 DEF b
<1>5. CASE aimed.mode = "search" /\ result = "miss"
  <2>1. b = [aimed EXCEPT !.dir = (aimed.dir + 1) % 4, !.tried = aimed.tried + 1,
                          !.curr = aimed.first,
                          !.mode = IF aimed.tried + 1 >= 4 THEN "random" ELSE "search"]
    BY <1>5 DEF Register
  <2>2. (aimed.dir + 1) % 4 \in 0 .. 3 /\ aimed.tried + 1 \in 0 .. 4
    BY <1>1, <1>5
  <2> DEFINE m == IF aimed.tried + 1 >= 4 THEN "random" ELSE "search"
  <2>3. m \in Modes
    BY DEF Modes
  <2> HIDE DEF b, m
  <2>4. b = [mode |-> m, first |-> aimed.first, curr |-> aimed.first,
             dir |-> (aimed.dir + 1) % 4, tried |-> aimed.tried + 1]
    BY <1>1, <2>1 DEF m
  <2>5. b \in BotType
    BY <1>1, <2>2, <2>3, <2>4 DEF BotType
  <2> QED BY <1>5, <2>4, <2>5 DEF b, m
<1>6. CASE aimed.mode = "destroy" /\ result = "miss"
  <2>1. b = [aimed EXCEPT !.dir = (aimed.dir + 2) % 4, !.curr = aimed.first]
    BY <1>6 DEF Register
  <2>2. (aimed.dir + 2) % 4 \in 0 .. 3
    BY <1>1
  <2> HIDE DEF b
  <2>3. b = [mode |-> aimed.mode, first |-> aimed.first, curr |-> aimed.first,
             dir |-> (aimed.dir + 2) % 4, tried |-> aimed.tried]
    BY <1>1, <2>1
  <2>4. b \in BotType
    BY <1>1, <2>2, <2>3 DEF BotType, Modes
  <2> QED BY <1>6, <2>3, <2>4 DEF b
<1>7. CASE \/ aimed.mode = "random" /\ result = "miss"
           \/ aimed.mode = "destroy" /\ result = "hit"
  <2>1. b = aimed
    BY <1>7 DEF Register
  <2> HIDE DEF b
  <2> QED BY <1>1, <1>7, <2>1 DEF b
<1> QED BY <1>1, <1>2, <1>3, <1>4, <1>5, <1>6, <1>7

\* A shot leaves the ships where they are.
LEMMA FleetStays ==
  ASSUME IInv, Straight, NEW x, Shot(x)
  PROVE  /\ IInv' /\ Straight' /\ Unstarted'
         /\ SomeShipsTouch' <=> SomeShipsTouch
         /\ \A y, z : Together(y, z)' <=> Together(y, z)
<1>1. /\ IInv' /\ ShipIds' = ShipIds /\ Len(board'.ships) = NumShips
      /\ \A i \in ShipIds : board'.ships[i].cells = board.ships[i].cells
  BY ShotKeeps
<1>2. DOMAIN board.ships = ShipIds
  BY BoardFields DEF IInv
<1>3. DOMAIN board'.ships = ShipIds
  <2>1. board'.ships \in Seq(Ship)
    BY <1>1 DEF IInv, TypeOK, Ship
  <2>2. DOMAIN board'.ships = 1 .. Len(board'.ships)
    BY <2>1, LenProperties
  <2> QED BY <1>1, <2>2 DEF ShipIds
<1>4. \A i \in ShipIds : board'.ships[i].size = board.ships[i].size
  BY <1>1 DEF IInv, ShipsWhole
<1>5. Straight'
  BY <1>1, <1>4 DEF Straight
<1>6. Unstarted'
  <2>1. ~(NumShips < NumShips)
    BY NumShipsType
  <2> QED BY <1>1, <2>1 DEF Unstarted
<1>7. SomeShipsTouch' <=> SomeShipsTouch
  BY <1>1, <1>2, <1>3 DEF SomeShipsTouch
<1>8. \A y, z : Together(y, z)' <=> Together(y, z)
  BY <1>1 DEF Together
<1> QED BY <1>1, <1>5, <1>6, <1>7, <1>8

\* A shot on a random cell.
LEMMA RandomShot ==
  ASSUME HuntInv, NEW aimed \in BotType, aimed.mode = "random", Shot(aimed.curr),
         ~SomeShipsTouch => bot.mode = "random",
         bot' = Register(aimed, board'.grid[aimed.curr])
  PROVE  HuntInv'
<1> DEFINE x == aimed.curr
<1>1. IInv' /\ Straight' /\ Unstarted' /\ (SomeShipsTouch' <=> SomeShipsTouch)
  BY FleetStays DEF HuntInv
<1>2. /\ board'.grid[x] \in {"hit", "miss", "sunk"}
      /\ \A y \in Cells : y # x /\ board'.grid[y] = "hit" => board.grid[y] = "hit"
      /\ board'.grid[x] # "miss" => \E i \in ShipIds : x \in board.ships[i].cells
  BY ShotShows DEF HuntInv
<1>3. x \in Cells
  BY DEF Shot
<1>4. ~SomeShipsTouch => \A y \in Cells : board'.grid[y] = "hit" => y = x
  BY <1>2 DEF HuntInv, NeverGivesUp
<1>5. bot' \in BotType
  BY <1>2, Registered
<1>6. CASE board'.grid[x] = "hit"
  <2>1. /\ bot'.mode = "search" /\ bot'.first = x /\ bot'.curr = x
        /\ bot'.dir = 0 /\ bot'.tried = 0
    BY <1>2, <1>6, Registered
  <2>2. AnchorStillFloats' /\ HuntsFromHit'
    BY <1>6, <2>1 DEF AnchorStillFloats, HuntsFromHit
  <2>3. DestroyFollowsLine' /\ NeverGivesUp'
    BY <2>1 DEF DestroyFollowsLine, NeverGivesUp
  <2>4. Together(x, x)
    BY <1>2, <1>6 DEF Together
  <2>5. OneShipHit'
    <3>1. Together(x, x)'
      BY <2>4, FleetStays DEF HuntInv
    <3> QED BY <1>1, <1>4, <2>1, <3>1 DEF OneShipHit, Together
  <2>6. SearchInOrder'
    BY <1>1, <1>4, <2>1 DEF SearchInOrder, Dirs
  <2> QED BY <1>1, <1>5, <2>2, <2>3, <2>5, <2>6 DEF HuntInv
<1>7. CASE board'.grid[x] # "hit"
  <2>1. bot'.mode = "random"
    BY <1>2, <1>7, Registered
  <2>2. NeverGivesUp'
    BY <1>1, <1>4, <1>7 DEF NeverGivesUp
  <2>3. AnchorStillFloats' /\ HuntsFromHit' /\ DestroyFollowsLine' /\ OneShipHit' /\ SearchInOrder'
    BY <2>1 DEF AnchorStillFloats, HuntsFromHit, DestroyFollowsLine, OneShipHit, SearchInOrder
  <2> QED BY <1>1, <1>5, <2>2, <2>3 DEF HuntInv
<1> QED BY <1>6, <1>7

\* A shot of the hunt, at the first open probe.
ProbeShot(k, aimed) ==
  /\ bot.mode # "random"
  /\ k \in OpenProbes(bot, board) /\ \A j \in OpenProbes(bot, board) : k <= j
  /\ aimed = [Blocked(bot, k) EXCEPT !.curr = ProbeCell(bot, board, k)]
  /\ bot' = Register(aimed, board'.grid[aimed.curr])
  /\ board' = Attack(board, aimed.curr)
  /\ Len(board.ships) = NumShips

\* Whom it is fired by, and where from.
LEMMA ProbeFired ==
  ASSUME HuntInv, NEW k, NEW aimed, ProbeShot(k, aimed)
  PROVE  LET x == aimed.curr
             d == ProbeDir(bot, k)
         IN  /\ k \in 0 .. 3 /\ d \in Dirs /\ bot.first \in Cells /\ Shot(x) /\ x \in Cells
             /\ bot.mode \in {"search", "destroy"} /\ board.grid[bot.first] = "hit"
             /\ aimed \in BotType
             /\ aimed.mode = bot.mode /\ aimed.first = bot.first /\ aimed.dir = d
             /\ aimed.tried = IF bot.mode = "search" THEN bot.tried + k ELSE bot.tried
             /\ bot.mode = "search" =>
                  bot.tried + k < 4 /\ aimed.tried < 4 /\ x = Reach(board, bot.first, d)
             /\ \E p \in Cells : board.grid[p] = "hit" /\ Adjacent(x, p)
<1> DEFINE x == aimed.curr
           d == ProbeDir(bot, k)
<1>1. /\ bot \in BotType /\ bot.mode \in {"search", "destroy"} /\ bot.first \in Cells
      /\ bot.curr \in Cells /\ board.grid[bot.first] = "hit" /\ board.grid[bot.curr] = "hit"
      /\ bot.mode = "search" => bot.curr = bot.first
  BY DEF HuntInv, ProbeShot, AnchorStillFloats, HuntsFromHit, BotType, Modes
<1>2. /\ k \in 0 .. 3 /\ d \in Dirs /\ (bot.mode = "search" => bot.tried + k < 4)
      /\ aimed.mode = bot.mode /\ aimed.first = bot.first /\ aimed.dir = d
      /\ aimed.tried = IF bot.mode = "search" THEN bot.tried + k ELSE bot.tried
      /\ x = Reach(board, IF k = 0 THEN bot.curr ELSE bot.first, d)
      /\ x \in Cells /\ ~AlreadyAttacked(board, x)
      /\ aimed \in BotType
  BY <1>1, ProbeAims DEF ProbeShot
<1>3. Shot(x)
  BY <1>2 DEF Shot, ProbeShot
<1>4. \E p \in Cells : board.grid[p] = "hit" /\ Adjacent(x, p)
  <2>1. CASE k = 0
    BY <1>1, <1>2, <2>1, ReachFromHit
  <2>2. CASE k # 0
    BY <1>1, <1>2, <2>2, ReachFromHit
  <2> QED BY <2>1, <2>2
<1>5. bot.mode = "search" => x = Reach(board, bot.first, d)
  BY <1>1, <1>2
<1> HIDE DEF x, d
<1> QED BY <1>1, <1>2, <1>3, <1>4, <1>5 DEF x, d

\* It stays with the ship that is hunted.
LEMMA ProbeStays ==
  ASSUME HuntInv, NEW k, NEW aimed, ProbeShot(k, aimed), ~SomeShipsTouch,
         NEW i \in ShipIds, aimed.curr \in board.ships[i].cells
  PROVE  bot.first \in board.ships[i].cells
<1>1. PICK p \in Cells : board.grid[p] = "hit" /\ Adjacent(aimed.curr, p)
  BY ProbeFired
<1>2. Together(bot.first, p)
  BY <1>1 DEF HuntInv, OneShipHit, ProbeShot
<1>3. PICK j \in ShipIds : bot.first \in board.ships[j].cells /\ p \in board.ships[j].cells
  BY <1>2 DEF Together
<1>4. i = j
  BY <1>1, <1>3, NeighboursAreOneShip DEF HuntInv
<1> QED BY <1>3, <1>4

\* It may sink the ship: nothing hit is left then.
LEMMA ProbeSinks ==
  ASSUME HuntInv, NEW k, NEW aimed, ProbeShot(k, aimed), board'.grid[aimed.curr] = "sunk"
  PROVE  HuntInv'
<1> DEFINE x == aimed.curr
<1>1. /\ Shot(x) /\ x \in Cells /\ aimed \in BotType /\ aimed.mode = bot.mode
      /\ aimed.mode = "search" => aimed.tried < 4
  BY ProbeFired
<1>2. IInv' /\ Straight' /\ Unstarted' /\ (SomeShipsTouch' <=> SomeShipsTouch)
  BY <1>1, FleetStays DEF HuntInv
<1>3. bot' = Register(aimed, "sunk")
  BY DEF ProbeShot
<1>4. bot' \in BotType /\ bot'.mode = "random"
  BY <1>1, <1>3, Registered
<1>5. ASSUME ~SomeShipsTouch, NEW y \in Cells, board'.grid[y] = "hit" PROVE FALSE
  <2>1. board.grid[y] = "hit" /\ y # x
    BY <1>1, <1>5, ShotShows DEF HuntInv
  <2>2. PICK i \in ShipIds : x \in board.ships[i].cells
    BY <1>1, ShotShows DEF HuntInv
  <2>3. bot.first \in board.ships[i].cells
    BY <1>5, <2>2, ProbeStays
  <2>4. Together(bot.first, y)
    BY <1>5, <2>1 DEF HuntInv, OneShipHit, ProbeShot
  <2>5. y \in board.ships[i].cells
    BY <2>3, <2>4 DEF Together, HuntInv, IInv, ShipsApart
  <2>6. board'.grid[y] = "sunk"
    BY <1>1, <2>2, <2>5, ShotShows DEF HuntInv
  <2> QED BY <1>5, <2>6
<1>6. NeverGivesUp'
  BY <1>2, <1>5 DEF NeverGivesUp
<1>7. AnchorStillFloats' /\ HuntsFromHit' /\ DestroyFollowsLine' /\ OneShipHit' /\ SearchInOrder'
  BY <1>4 DEF AnchorStillFloats, HuntsFromHit, DestroyFollowsLine, OneShipHit, SearchInOrder
<1> QED BY <1>2, <1>4, <1>6, <1>7 DEF HuntInv

\* While it does not, what was hit stays hit, and of the same ship.
LEMMA ProbeKeepsHits ==
  ASSUME HuntInv, NEW k, NEW aimed, ProbeShot(k, aimed), board'.grid[aimed.curr] # "sunk"
  PROVE  /\ \A y \in Cells : board.grid[y] = "hit" => board'.grid[y] = "hit"
         /\ ~SomeShipsTouch => \A y \in Cells : board'.grid[y] = "hit" => Together(bot.first, y)
<1> DEFINE x == aimed.curr
<1>1. Shot(x) /\ x \in Cells
  BY ProbeFired
<1>2. \A y \in Cells : board.grid[y] = "hit" => board'.grid[y] = "hit"
  BY <1>1, ShotShows DEF HuntInv
<1>3. ASSUME ~SomeShipsTouch, NEW y \in Cells, board'.grid[y] = "hit"
      PROVE  Together(bot.first, y)
  <2>1. CASE y = x
    <3>1. PICK i \in ShipIds : x \in board.ships[i].cells
      BY <1>1, <1>3, <2>1, ShotShows DEF HuntInv
    <3> QED BY <1>3, <2>1, <3>1, ProbeStays DEF Together
  <2>2. CASE y # x
    <3>1. board.grid[y] = "hit"
      BY <1>1, <1>3, <2>2, ShotShows DEF HuntInv
    <3> QED BY <1>3, <3>1 DEF HuntInv, OneShipHit, ProbeShot
  <2> QED BY <2>1, <2>2
<1> QED BY <1>2, <1>3

\* The parts of the invariant that look at hits only, after a shot that sinks nothing.
LEMMA HuntKept ==
  ASSUME HuntInv, NEW k, NEW aimed, ProbeShot(k, aimed), board'.grid[aimed.curr] # "sunk",
         bot'.first = bot.first, bot'.mode # "random",
         bot'.curr = bot.first \/ (bot'.curr = aimed.curr /\ board'.grid[aimed.curr] = "hit"),
         bot'.mode = "search" => bot'.curr = bot.first
  PROVE  AnchorStillFloats' /\ HuntsFromHit' /\ OneShipHit' /\ NeverGivesUp'
<1>1. bot.first \in Cells /\ board.grid[bot.first] = "hit" /\ Shot(aimed.curr)
  BY ProbeFired
<1>2. /\ \A y \in Cells : board.grid[y] = "hit" => board'.grid[y] = "hit"
      /\ ~SomeShipsTouch => \A y \in Cells : board'.grid[y] = "hit" => Together(bot.first, y)
  BY ProbeKeepsHits
<1>3. AnchorStillFloats' /\ HuntsFromHit'
  BY <1>1, <1>2 DEF AnchorStillFloats, HuntsFromHit
<1>4. OneShipHit'
  <2>1. SomeShipsTouch' <=> SomeShipsTouch
    BY <1>1, FleetStays DEF HuntInv
  <2>2. /\ ShipIds' = ShipIds
        /\ \A i \in ShipIds : board'.ships[i].cells = board.ships[i].cells
    BY <1>1, ShotKeeps DEF HuntInv
  <2>3. ASSUME ~SomeShipsTouch, NEW y \in Cells, board'.grid[y] = "hit"
        PROVE  Together(bot.first, y)'
    BY <1>2, <2>2, <2>3 DEF Together
  <2> QED BY <2>1, <2>2, <2>3 DEF OneShipHit, Together
<1>5. NeverGivesUp'
  BY DEF NeverGivesUp
<1> QED BY <1>3, <1>4, <1>5

\* A shot in MODE_DESTROY.
LEMMA DestroyShot ==
  ASSUME HuntInv, NEW k, NEW aimed, ProbeShot(k, aimed), bot.mode = "destroy",
         board'.grid[aimed.curr] # "sunk"
  PROVE  HuntInv'
<1> DEFINE x == aimed.curr
           d == ProbeDir(bot, k)
<1>1. /\ k \in 0 .. 3 /\ d \in Dirs /\ bot.first \in Cells /\ Shot(x) /\ x \in Cells
      /\ aimed \in BotType
      /\ aimed.mode = "destroy" /\ aimed.first = bot.first /\ aimed.dir = d
  BY ProbeFired
<1>2. board'.grid[x] \in {"hit", "miss"} /\ bot' = Register(aimed, board'.grid[x])
  BY <1>1, ShotShows DEF HuntInv, ProbeShot
<1>3. /\ bot' \in BotType /\ bot'.mode = "destroy" /\ bot'.first = bot.first
      /\ board'.grid[x] = "hit" => bot'.curr = x /\ bot'.dir = d
      /\ board'.grid[x] = "miss" => bot'.curr = bot.first /\ bot'.dir = (d + 2) % 4
  BY <1>1, <1>2, Registered
<1>4. AnchorStillFloats' /\ HuntsFromHit' /\ OneShipHit' /\ NeverGivesUp'
  BY <1>2, <1>3, HuntKept
<1>5. {bot'.dir, (bot'.dir + 2) % 4} = {bot.dir, (bot.dir + 2) % 4}
  <2>1. bot.dir \in 0 .. 3
    BY DEF HuntInv, BotType
  <2>2. d = (bot.dir + k * 2) % 4
    BY DEF ProbeDir, Turn
  <2>3. d = bot.dir \/ d = (bot.dir + 2) % 4
    BY <1>1, <2>1, <2>2
  <2> HIDE DEF d
  <2> QED BY <1>2, <1>3, <2>1, <2>3
<1>6. DestroyFollowsLine'
  <2>1. PICK e \in {bot.dir, (bot.dir + 2) % 4} :
          Ahead(bot.first, e, 1) \in Cells /\ board.grid[Ahead(bot.first, e, 1)] = "hit"
    BY DEF HuntInv, DestroyFollowsLine
  <2>2. board'.grid[Ahead(bot.first, e, 1)] = "hit"
    BY <2>1, ProbeKeepsHits
  <2> HIDE DEF d
  <2> QED BY <1>3, <1>5, <2>1, <2>2 DEF DestroyFollowsLine
<1>7. SearchInOrder'
  BY <1>3 DEF SearchInOrder
<1>8. IInv' /\ Straight' /\ Unstarted'
  BY <1>1, FleetStays DEF HuntInv
<1> QED BY <1>3, <1>4, <1>6, <1>7, <1>8 DEF HuntInv

\* In a search nothing but the first hit is hit, so that a probe looks at its
\* neighbour.
LEMMA SearchProbes ==
  ASSUME HuntInv, bot.mode = "search", ~SomeShipsTouch, NEW e \in Dirs
  PROVE  /\ Reach(board, bot.first, e) = Ahead(bot.first, e, 1)
         /\ Ahead(bot.first, e, 1) \in Cells => board.grid[Ahead(bot.first, e, 1)] # "hit"
<1>1. bot.first \in Cells /\ board.grid[bot.first] = "hit"
  BY DEF HuntInv, BotType, AnchorStillFloats
<1>2. Ahead(bot.first, e, 1) # bot.first
  <2>1. Adjacent(Ahead(bot.first, e, 1), Ahead(bot.first, e, 0)) /\ Ahead(bot.first, e, 0) = bot.first
    BY <1>1, WalkAdjacent, WalkEnds
  <2>2. bot.first[1] \in Int /\ bot.first[2] \in Int
    BY <1>1, BoardAssumption DEF Cells
  <2> QED BY <2>1, <2>2 DEF Adjacent
<1>3. Ahead(bot.first, e, 1) \in Cells => board.grid[Ahead(bot.first, e, 1)] # "hit"
  BY <1>2 DEF HuntInv, SearchInOrder
<1> QED BY <1>1, <1>3, ReachFromHit

\* The directions before the first open one are of no use.
LEMMA SearchSkips ==
  ASSUME HuntInv, bot.mode = "search", ~SomeShipsTouch, NEW k, NEW aimed, ProbeShot(k, aimed),
         NEW e \in Dirs, e < bot.tried + k
  PROVE  Tried(e)
<1>1. bot.tried \in Nat /\ bot.tried < 4 /\ bot.dir = bot.tried /\ bot.curr = bot.first
  BY DEF HuntInv, SearchInOrder, HuntsFromHit, BotType
<1>2. k \in 0 .. 3 /\ bot.tried + k < 4
  BY ProbeFired
<1>3. CASE e < bot.dir
  BY <1>3 DEF HuntInv, SearchInOrder
<1>4. CASE ~(e < bot.dir)
  <2> DEFINE j == e - bot.tried
  <2>1. j \in 0 .. 3 - bot.tried /\ j < k
    BY <1>1, <1>2, <1>4 DEF Dirs
  <2>2. j \notin OpenProbes(bot, board)
    BY <1>2, <2>1 DEF ProbeShot
  <2>3. j \in 0 .. Probes(bot) - 1 /\ ProbeDir(bot, j) = e
    <3>1. Probes(bot) = 4 - bot.tried
      BY DEF Probes
    <3>2. ProbeDir(bot, j) = (bot.dir + j * 1) % 4
      BY DEF ProbeDir, Turn
    <3>3. bot.dir + j * 1 = e /\ e % 4 = e
      BY <1>1 DEF Dirs
    <3> QED BY <1>1, <2>1, <3>1, <3>2, <3>3
  <2>4. ProbeCell(bot, board, j) = Ahead(bot.first, e, 1)
    <3> HIDE DEF j
    <3> QED BY <1>1, <2>3, SearchProbes DEF ProbeCell
  <2>5. Ahead(bot.first, e, 1) \in Cells => AlreadyAttacked(board, Ahead(bot.first, e, 1))
    BY <2>2, <2>3, <2>4 DEF OpenProbes
  <2>6. Ahead(bot.first, e, 1) \in Cells => board.grid[Ahead(bot.first, e, 1)] # "hit"
    BY SearchProbes
  <2> QED BY <2>5, <2>6 DEF Tried, AlreadyAttacked
<1> QED BY <1>3, <1>4

\* A shot in MODE_SEARCH_DIR that hits: the direction is found.
LEMMA SearchHit ==
  ASSUME HuntInv, NEW k, NEW aimed, ProbeShot(k, aimed), bot.mode = "search",
         board'.grid[aimed.curr] = "hit"
  PROVE  HuntInv'
<1> DEFINE x == aimed.curr
           d == ProbeDir(bot, k)
<1>1. /\ d \in Dirs /\ bot.first \in Cells /\ board.grid[bot.first] = "hit" /\ Shot(x) /\ x \in Cells
      /\ aimed \in BotType /\ aimed.tried < 4 /\ x = Reach(board, bot.first, d)
      /\ aimed.mode = "search" /\ aimed.first = bot.first /\ aimed.dir = d
  BY ProbeFired
<1>2. bot' = Register(aimed, "hit")
  BY DEF ProbeShot
<1>3. /\ bot' \in BotType /\ bot'.mode = "destroy" /\ bot'.first = bot.first
      /\ bot'.curr = x /\ bot'.dir = d
  BY <1>1, <1>2, Registered
<1>4. AnchorStillFloats' /\ HuntsFromHit' /\ OneShipHit' /\ NeverGivesUp'
  BY <1>3, HuntKept
<1>5. DestroyFollowsLine'
  <2>1. Ahead(bot.first, d, 1) \in Cells /\ board'.grid[Ahead(bot.first, d, 1)] = "hit"
    <3>1. CASE x = Ahead(bot.first, d, 1)
      BY <1>1, <3>1
    <3>2. CASE Ahead(bot.first, d, 1) \in Cells /\ board.grid[Ahead(bot.first, d, 1)] = "hit"
      BY <3>2, ProbeKeepsHits
    <3> QED BY <1>1, <3>1, <3>2, ReachFromHit
  <2> HIDE DEF d
  <2> QED BY <1>3, <2>1 DEF DestroyFollowsLine
<1>6. SearchInOrder'
  BY <1>3 DEF SearchInOrder
<1>7. IInv' /\ Straight' /\ Unstarted'
  BY <1>1, FleetStays DEF HuntInv
<1> QED BY <1>3, <1>4, <1>5, <1>6, <1>7 DEF HuntInv

\* One that misses: the next direction, of which there is one unless ships touch.
LEMMA SearchMiss ==
  ASSUME HuntInv, NEW k, NEW aimed, ProbeShot(k, aimed), bot.mode = "search",
         board'.grid[aimed.curr] = "miss"
  PROVE  HuntInv'
<1> DEFINE x == aimed.curr
           d == ProbeDir(bot, k)
<1>1. /\ k \in 0 .. 3 /\ d \in Dirs /\ bot.first \in Cells /\ board.grid[bot.first] = "hit"
      /\ Shot(x) /\ x \in Cells
      /\ aimed \in BotType /\ aimed.tried < 4 /\ aimed.tried = bot.tried + k
      /\ x = Reach(board, bot.first, d)
      /\ aimed.mode = "search" /\ aimed.first = bot.first /\ aimed.dir = d
  BY ProbeFired
<1>2. bot' = Register(aimed, "miss")
  BY DEF ProbeShot
<1>3. bot.tried \in 0 .. 4 /\ bot.dir = bot.tried
  BY DEF HuntInv, SearchInOrder, BotType
<1>4. d = bot.tried + k
  <2>1. d = (bot.dir + k * 1) % 4
    BY DEF ProbeDir, Turn
  <2>2. bot.dir + k * 1 = bot.tried + k /\ (bot.tried + k) % 4 = bot.tried + k
    BY <1>1, <1>3
  <2> QED BY <2>1, <2>2
<1> HIDE DEF d
<1>5. /\ bot' \in BotType /\ bot'.first = bot.first /\ bot'.curr = bot.first
      /\ bot'.dir = (d + 1) % 4 /\ bot'.tried = d + 1
      /\ bot'.mode = IF d + 1 >= 4 THEN "random" ELSE "search"
  BY <1>1, <1>2, <1>4, Registered
<1>6. IInv' /\ Straight' /\ Unstarted' /\ (SomeShipsTouch' <=> SomeShipsTouch)
  BY <1>1, FleetStays DEF HuntInv
<1>7. ~SomeShipsTouch => x = Ahead(bot.first, d, 1)
  BY <1>1, SearchProbes
<1>8. \A i \in ShipIds : x \notin board.ships[i].cells
  BY <1>1, ShotShows DEF HuntInv
<1>9. CASE d = 3
  <2>1. SomeShipsTouch
    <3>1. SUFFICES ASSUME ~SomeShipsTouch PROVE FALSE
      OBVIOUS
    <3>2. PICK e \in Dirs : /\ bot.dir <= e
                           /\ Ahead(bot.first, e, 1) \in Cells
                           /\ Ahead(bot.first, e, 1) \notin ShotAt
                           /\ Together(bot.first, Ahead(bot.first, e, 1))
      BY <3>1, SearchFinds
    <3>3. CASE e = 3
      BY <1>7, <1>8, <1>9, <3>1, <3>2, <3>3 DEF Together
    <3>4. CASE e # 3
      <4>1. e < bot.tried + k
        BY <1>1, <1>3, <1>4, <1>9, <3>4 DEF Dirs
      <4>2. Tried(e)
        BY <3>1, <4>1, SearchSkips
      <4> QED BY <3>2, <4>2 DEF Tried, ShotAt, AlreadyAttacked
    <3> QED BY <3>3, <3>4
  <2>2. bot'.mode = "random"
    BY <1>5, <1>9
  <2>3. NeverGivesUp'
    BY <1>6, <2>1 DEF NeverGivesUp
  <2>4. AnchorStillFloats' /\ HuntsFromHit' /\ DestroyFollowsLine' /\ OneShipHit' /\ SearchInOrder'
    BY <2>2 DEF AnchorStillFloats, HuntsFromHit, DestroyFollowsLine, OneShipHit, SearchInOrder
  <2> QED BY <1>5, <1>6, <2>3, <2>4 DEF HuntInv
<1>10. CASE d # 3
  <2>1. d \in 0 .. 2
    BY <1>1, <1>10 DEF Dirs
  <2>2. bot'.mode = "search" /\ bot'.dir = d + 1 /\ bot'.tried = d + 1 /\ bot'.tried < 4
    BY <1>5, <2>1
  <2>3. AnchorStillFloats' /\ HuntsFromHit' /\ OneShipHit' /\ NeverGivesUp'
    BY <1>5, <2>2, HuntKept
  <2>4. DestroyFollowsLine'
    BY <2>2 DEF DestroyFollowsLine
  <2>5. ASSUME ~SomeShipsTouch, NEW y \in Cells, board'.grid[y] = "hit" PROVE y = bot.first
    <3>1. y # x /\ board.grid[y] = "hit"
      BY <1>1, <2>5, ShotShows DEF HuntInv
    <3> QED BY <2>5, <3>1 DEF HuntInv, SearchInOrder
  <2>6. ASSUME ~SomeShipsTouch, NEW e \in Dirs, e < d + 1, Ahead(bot.first, e, 1) \in Cells
        PROVE  board'.grid[Ahead(bot.first, e, 1)] \in {"miss", "sunk"}
    <3>1. CASE e = d
      BY <1>7, <2>6, <3>1
    <3>2. CASE e # d
      <4>1. e < bot.tried + k
        BY <1>4, <2>1, <2>6, <3>2 DEF Dirs
      <4>2. board.grid[Ahead(bot.first, e, 1)] \in {"miss", "sunk"}
        BY <2>6, <4>1, SearchSkips DEF Tried
      <4>3. Ahead(bot.first, e, 1) # x
        BY <1>1, <4>2 DEF Shot, AlreadyAttacked
      <4> QED BY <1>1, <2>6, <4>2, <4>3, ShotShows DEF HuntInv
    <3> QED BY <3>1, <3>2
  <2>7. SearchInOrder'
    BY <1>5, <1>6, <2>2, <2>5, <2>6 DEF SearchInOrder, Tried
  <2> QED BY <1>5, <1>6, <2>3, <2>4, <2>7 DEF HuntInv
<1> QED BY <1>9, <1>10

----------------------------------------------------------------------------
(* The invariant                                                           *)

\* The bot starts out with nothing to remember.
LEMMA HuntInitInvariant == HuntInit => HuntInv
<1> SUFFICES ASSUME HuntInit PROVE HuntInv
  OBVIOUS
<1>1. IInv
  BY InitInvariant DEF HuntInit
<1>2. /\ board.ships = << >> /\ board.grid = [x \in Cells |-> "empty"]
      /\ bot = [mode |-> "random", first |-> <<0, 0>>, curr |-> <<0, 0>>, dir |-> 0, tried |-> 0]
  BY DEF HuntInit, Init, EmptyBoard, BotReset
<1>3. Straight
  BY <1>2 DEF Straight, ShipIds
<1>4. bot \in BotType
  <2>1. <<0, 0>> \in Cells
    BY BoardAssumption DEF Cells
  <2> QED BY <1>2, <2>1 DEF BotType, Modes
<1>5. Unstarted /\ NeverGivesUp
  BY <1>2 DEF Unstarted, NeverGivesUp
<1>6. AnchorStillFloats /\ HuntsFromHit /\ DestroyFollowsLine /\ OneShipHit /\ SearchInOrder
  BY <1>2 DEF AnchorStillFloats, HuntsFromHit, DestroyFollowsLine, OneShipHit, SearchInOrder
<1> QED BY <1>1, <1>3, <1>4, <1>5, <1>6 DEF HuntInv

\* A ship placed before it starts lies straight and shows no hit.
LEMMA HuntPlaceInvariant == HuntInv /\ HuntPlace => HuntInv'
<1> SUFFICES ASSUME HuntInv, Place, bot' = bot PROVE HuntInv'
  BY DEF HuntPlace
<1> DEFINE n == Len(board.ships)
<1>1. PICK cells \in SUBSET Cells, size \in Nat \ {0} :
        /\ cells \in Footprints(size)
        /\ n < NumShips
        /\ board'.grid = [x \in Cells |-> IF x \in cells THEN "ship" ELSE board.grid[x]]
        /\ board'.ships = Append(board.ships, [cells |-> cells, size |-> size,
                                               hits |-> 0, sunk |-> FALSE])
        /\ ShotAt = {}
  BY PlaceEffect DEF HuntInv
<1>2. IInv'
  BY PlaceInvariant DEF HuntInv
<1>3. bot'.mode = "random" /\ bot' \in BotType
  BY <1>1 DEF HuntInv, Unstarted
<1>4. Straight'
  <2> DEFINE ship == [cells |-> cells, size |-> size, hits |-> 0, sunk |-> FALSE]
  <2>1. board.ships \in Seq(Ship) /\ n \in Nat /\ ShipIds = 1 .. n
    BY BoardFields DEF HuntInv, IInv, ShipIds
  <2>2. ship \in Ship
    BY DEF Ship
  <2>3. /\ ShipIds' = 1 .. n + 1
        /\ \A i \in 1 .. n : board'.ships[i] = board.ships[i]
        /\ board'.ships[n + 1] = ship
    BY <1>1, <2>1, <2>2 DEF ShipIds
  <2>4. ship.cells = cells /\ ship.size = size
    OBVIOUS
  <2> SUFFICES ASSUME NEW i \in 1 .. n + 1
               PROVE  board'.ships[i].cells \in Footprints(board'.ships[i].size)
    BY <2>3 DEF Straight
  <2> HIDE DEF ship
  <2>5. CASE i = n + 1
    BY <1>1, <2>3, <2>4, <2>5
  <2>6. CASE i \in 1 .. n
    BY <2>1, <2>3, <2>6 DEF HuntInv, Straight
  <2> QED BY <2>1, <2>5, <2>6
<1>5. NeverGivesUp'
  BY <1>1 DEF NeverGivesUp, ShotAt, AlreadyAttacked
<1>6. Unstarted' /\ AnchorStillFloats' /\ HuntsFromHit' /\ DestroyFollowsLine'
      /\ OneShipHit' /\ SearchInOrder'
  BY <1>3 DEF Unstarted, AnchorStillFloats, HuntsFromHit, DestroyFollowsLine, OneShipHit,
              SearchInOrder
<1> QED BY <1>2, <1>3, <1>4, <1>5, <1>6 DEF HuntInv

\* A bot out of probes is still one before it falls back to a random cell.
LEMMA RandomAims ==
  ASSUME NEW b \in BotType, NEW aimed \in Random(b, board)
  PROVE  /\ aimed \in BotType /\ aimed.mode = "random"
         /\ aimed.curr \in Cells /\ ~AlreadyAttacked(board, aimed.curr)
<1>1. PICK x \in Cells : /\ ~AlreadyAttacked(board, x)
                         /\ aimed = [b EXCEPT !.mode = "random", !.curr = x]
  BY DEF Random
<1>2. aimed = [mode |-> "random", first |-> b.first, curr |-> x, dir |-> b.dir, tried |-> b.tried]
  BY <1>1 DEF BotType
<1> QED BY <1>1, <1>2 DEF BotType, Modes

LEMMA BlockedType ==
  ASSUME bot \in BotType
  PROVE  Blocked(bot, Probes(bot)) \in BotType
<1> DEFINE d == ProbeDir(bot, Probes(bot))
           t == IF bot.mode = "search" THEN bot.tried + Probes(bot) ELSE bot.tried
<1>1. /\ bot.mode \in Modes /\ bot.dir \in 0 .. 3 /\ bot.tried \in 0 .. 4
      /\ bot = [mode |-> bot.mode, first |-> bot.first, curr |-> bot.curr,
                dir |-> bot.dir, tried |-> bot.tried]
      /\ bot.first \in Cells /\ bot.curr \in Cells
  BY DEF BotType
<1>2. d \in 0 .. 3 /\ t \in 0 .. 4
  <2>1. CASE bot.mode = "search"
    <3>1. Probes(bot) = 4 - bot.tried /\ Turn(bot) = 1
      BY <2>1 DEF Probes, Turn
    <3>2. d = (bot.dir + (4 - bot.tried) * 1) % 4 /\ t = 4
      BY <1>1, <2>1, <3>1 DEF ProbeDir
    <3> QED BY <1>1, <3>2
  <2>2. CASE bot.mode # "search"
    <3>1. Probes(bot) = 4 /\ Turn(bot) = 2
      BY <2>2 DEF Probes, Turn
    <3>2. d = (bot.dir + 4 * 2) % 4 /\ t = bot.tried
      BY <2>2, <3>1 DEF ProbeDir
    <3> QED BY <1>1, <3>2
  <2> QED BY <2>1, <2>2
<1>3. Blocked(bot, Probes(bot)) = [bot EXCEPT !.dir = d, !.tried = t]
  BY DEF Blocked
<1> HIDE DEF d, t
<1>4. Blocked(bot, Probes(bot)) =
        [mode |-> bot.mode, first |-> bot.first, curr |-> bot.curr, dir |-> d, tried |-> t]
  BY <1>1, <1>3
<1> QED BY <1>1, <1>2, <1>4 DEF BotType

\* bot_choose_attack aims at a fresh cell, at random only when it hunts nothing or
\* when ships touch.
LEMMA ChooseAims ==
  ASSUME HuntInv, NEW aimed \in Choose(bot, board)
  PROVE  /\ aimed.curr \in Cells /\ ~AlreadyAttacked(board, aimed.curr)
         /\ \/ /\ aimed \in BotType /\ aimed.mode = "random"
               /\ ~SomeShipsTouch => bot.mode = "random"
            \/ /\ bot.mode # "random"
               /\ \E k \in OpenProbes(bot, board) :
                    /\ \A j \in OpenProbes(bot, board) : k <= j
                    /\ aimed = [Blocked(bot, k) EXCEPT !.curr = ProbeCell(bot, board, k)]
<1> DEFINE open == OpenProbes(bot, board)
           k == CHOOSE n \in open : \A j \in open : n <= j
<1>1. bot \in BotType
  BY DEF HuntInv
<1>2. CASE bot.mode = "random"
  <2>1. aimed \in Random(bot, board)
    BY <1>2 DEF Choose
  <2> QED BY <1>1, <1>2, <2>1, RandomAims
<1>3. CASE bot.mode # "random" /\ open = {}
  <2>1. aimed \in Random(Blocked(bot, Probes(bot)), board)
    BY <1>3 DEF Choose
  <2>2. SomeShipsTouch
    BY <1>3, HuntGoesOn
  <2> QED BY <1>1, <2>1, <2>2, BlockedType, RandomAims
<1>4. CASE bot.mode # "random" /\ open # {}
  <2>1. aimed = [Blocked(bot, k) EXCEPT !.curr = ProbeCell(bot, board, k)]
    BY <1>4 DEF Choose
  <2>2. open \in SUBSET Nat
    BY DEF OpenProbes
  <2>3. k \in open /\ \A j \in open : k <= j
    <3> HIDE DEF open
    <3>1. \E n \in open : \A j \in open : n <= j
      BY <1>4, <2>2, LeastNumber
    <3> QED BY <3>1
  <2> HIDE DEF k
  <2>4. aimed.curr \in Cells /\ ~AlreadyAttacked(board, aimed.curr)
    BY <1>1, <1>4, <2>1, <2>3, ProbeAims
  <2> QED BY <1>4, <2>1, <2>3, <2>4
<1> QED BY <1>2, <1>3, <1>4

\* A turn of the bot: bot_choose_attack, board_attack, bot_register_result.
LEMMA BotShotInvariant == HuntInv /\ BotShot => HuntInv'
<1> SUFFICES ASSUME HuntInv, BotShot PROVE HuntInv'
  OBVIOUS
<1>1. PICK aimed \in Choose(bot, board) :
        /\ board' = Attack(board, aimed.curr)
        /\ bot' = Register(aimed, ResultAt(board', aimed.curr))
  BY DEF BotShot
<1>2. Len(board.ships) = NumShips
  BY DEF BotShot
<1>3. Shot(aimed.curr)
  BY <1>1, <1>2, ChooseAims DEF Shot
<1>4. ResultAt(board', aimed.curr) = board'.grid[aimed.curr]
      /\ board'.grid[aimed.curr] \in {"hit", "miss", "sunk"}
  BY <1>3, ShotShows DEF HuntInv
<1>5. bot' = Register(aimed, board'.grid[aimed.curr])
  BY <1>1, <1>4
<1>6. CASE aimed \in BotType /\ aimed.mode = "random" /\ (~SomeShipsTouch => bot.mode = "random")
  BY <1>3, <1>5, <1>6, RandomShot
<1>7. ASSUME bot.mode # "random",
             NEW k \in OpenProbes(bot, board),
             \A j \in OpenProbes(bot, board) : k <= j,
             aimed = [Blocked(bot, k) EXCEPT !.curr = ProbeCell(bot, board, k)]
      PROVE  HuntInv'
  <2>1. ProbeShot(k, aimed)
    BY <1>1, <1>2, <1>5, <1>7 DEF ProbeShot
  <2>2. bot.mode \in {"search", "destroy"}
    BY <2>1, ProbeFired
  <2>3. CASE board'.grid[aimed.curr] = "sunk"
    BY <2>1, <2>3, ProbeSinks
  <2>4. CASE bot.mode = "destroy" /\ board'.grid[aimed.curr] # "sunk"
    BY <2>1, <2>4, DestroyShot
  <2>5. CASE bot.mode = "search" /\ board'.grid[aimed.curr] = "hit"
    BY <2>1, <2>5, SearchHit
  <2>6. CASE bot.mode = "search" /\ board'.grid[aimed.curr] = "miss"
    BY <2>1, <2>6, SearchMiss
  <2> QED BY <1>4, <2>2, <2>3, <2>4, <2>5, <2>6
<1> QED BY <1>6, <1>7, ChooseAims

\* The invariant reads nothing but the board and the bot's memory.
LEMMA HuntStillInvariant == HuntInv /\ UNCHANGED huntVars => HuntInv'
<1> SUFFICES ASSUME HuntInv, board' = board, bot' = bot PROVE HuntInv'
  BY DEF huntVars
<1>1. IInv'
  BY StillInvariant DEF HuntInv
<1>2. Straight' /\ Unstarted' /\ bot' \in BotType
  BY DEF HuntInv, Straight, Unstarted, ShipIds
<1>3. SomeShipsTouch' <=> SomeShipsTouch
  BY DEF SomeShipsTouch
<1>4. AnchorStillFloats' /\ HuntsFromHit' /\ DestroyFollowsLine'
  BY DEF HuntInv, AnchorStillFloats, HuntsFromHit, DestroyFollowsLine
<1>5. OneShipHit' /\ SearchInOrder' /\ NeverGivesUp'
  BY <1>3 DEF HuntInv, OneShipHit, Together, ShipIds, SearchInOrder, Tried, NeverGivesUp
<1> QED BY <1>1, <1>2, <1>4, <1>5 DEF HuntInv

\* Between two shots of bot.c the search has gone through the directions in their
\* order with nothing but the first hit to show, the line it follows is one of hits,
\* and whatever is hit belongs to the one ship it hunts unless ships touch.
THEOREM HuntInvariance == HuntSpec => []HuntInv
<1>1. HuntInit => HuntInv
  BY HuntInitInvariant
<1>2. HuntInv /\ [HuntNext]_huntVars => HuntInv'
  <2>1. HuntInv /\ HuntNext => HuntInv'
    BY HuntPlaceInvariant, BotShotInvariant DEF HuntNext
  <2> QED BY <2>1, HuntStillInvariant
<1> QED BY <1>1, <1>2, PTL DEF HuntSpec

----------------------------------------------------------------------------
(* What follows from it                                                    *)

\* The memory of bot.c keeps its type: a direction stays one of the four however
\* often a blocked probe or a miss turns it, and no fifth direction is tried.
THEOREM HuntTypeCorrect == HuntSpec => []HuntTypeOK
<1>1. HuntInv => HuntTypeOK
  BY DEF HuntInv, IInv, HuntTypeOK
<1> QED BY <1>1, HuntInvariance, PTL

\* bot_register_result never leaves the bot hunting around a ship that is gone.
THEOREM AnchorCorrect == HuntSpec => []AnchorStillFloats
<1>1. HuntInv => AnchorStillFloats
  BY DEF HuntInv
<1> QED BY <1>1, HuntInvariance, PTL

\* MODE_DESTROY, which only turns round, follows the line of two neighbouring hits.
THEOREM LineCorrect == HuntSpec => []DestroyFollowsLine
<1>1. HuntInv => DestroyFollowsLine
  BY DEF HuntInv
<1> QED BY <1>1, HuntInvariance, PTL

\* While no two ships touch, bot_choose_attack does not fall back to a random cell
\* with a hit ship afloat, on a sea and with a fleet of any size.
THEOREM ShipNotGivenUp == HuntSpec => []NeverGivesUp
<1>1. HuntInv => NeverGivesUp
  BY DEF HuntInv
<1> QED BY <1>1, HuntInvariance, PTL

\* The bot keeps to the rules its callers rely on: each of its shots is one the
\* board's callers let through, on the sea and at a cell not shot at before.
THEOREM HuntPlaysBoard == HuntSpec => Spec
<1>1. HuntInit => Init
  BY DEF HuntInit
<1>2. HuntInv /\ [HuntNext]_huntVars => [Next]_board
  <2> SUFFICES ASSUME HuntInv, [HuntNext]_huntVars PROVE [Next]_board
    OBVIOUS
  <2>1. CASE HuntPlace
    BY <2>1 DEF HuntPlace, Next
  <2>2. CASE BotShot
    <3>1. PICK aimed \in Choose(bot, board) : board' = Attack(board, aimed.curr)
      BY <2>2 DEF BotShot
    <3>2. aimed.curr \in Cells /\ ~AlreadyAttacked(board, aimed.curr)
      BY ChooseAims
    <3> QED BY <2>2, <3>1, <3>2 DEF BotShot, Fire, Next
  <2>3. CASE UNCHANGED huntVars
    BY <2>3 DEF huntVars
  <2> QED BY <2>1, <2>2, <2>3 DEF HuntNext
<1> QED BY <1>1, <1>2, HuntInvariance, PTL DEF HuntSpec, Spec
=============================================================================
