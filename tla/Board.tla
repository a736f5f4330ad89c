------------------------------- MODULE Board -------------------------------
(***************************************************************************)
(* One player's board: the operations of src/project/src/model/board.c, and *)
(* the way the client repeats on its own copy the results the host reports  *)
(* (game.c, client case MSG_ATTACK).  Pure operators on a board record; the *)
(* modules that keep a board in their state apply them.                     *)
(*                                                                         *)
(* A board is [grid, ships, sunk]: the cells' states, the ships in order of *)
(* placement (ships_placed is their number) and ships_sunk.  A ship is its  *)
(* footprint with its size, its hit counter and its sunk flag; the sprite   *)
(* index is left out.                                                       *)
(***************************************************************************)
EXTENDS Integers, Sequences, FiniteSets

CONSTANTS Cols,      \* BOARD_COLS
          Rows,      \* BOARD_ROWS
          ShipSizes  \* SHIP_SIZES, a sequence

ASSUME BoardAssumption ==
  /\ Cols \in Nat \ {0}
  /\ Rows \in Nat \ {0}
  /\ ShipSizes \in Seq(Nat \ {0})
  /\ ShipSizes # << >>

NumShips == Len(ShipSizes)

\* A cell is <<column, row>>.
Cells == (0 .. Cols - 1) \X (0 .. Rows - 1)

CellStates == {"empty", "ship", "hit", "miss", "sunk"}

Orientations == {"horizontal", "vertical"}

\* The cells a ship covers from its top-left cell.
Span(at, size, orient) ==
  IF orient = "horizontal"
  THEN (at[1] .. at[1] + size - 1) \X {at[2]}
  ELSE {at[1]} \X (at[2] .. at[2] + size - 1)

EmptyBoard == [grid |-> [x \in Cells |-> "empty"], ships |-> << >>, sunk |-> 0]

----------------------------------------------------------------------------
(* Placement                                                               *)

\* The cells a ship may cover, inside the sea or across its border.
Footprints(size) == {Span(at, size, orient) : at \in Cells, orient \in Orientations}

\* A plausible bug: the border is not checked.
CanPlaceAcross(b, cells) == \A x \in cells \cap Cells : b.grid[x] = "empty"

\* A plausible bug: only the border is checked.
CanPlaceOverlapping(b, cells) == cells \subseteq Cells

\* board_can_place: inside the grid and on empty water only.
CanPlace(b, cells) ==
  /\ cells \subseteq Cells
  /\ \A x \in cells : b.grid[x] = "empty"

\* board_place_ship: no validation, ships_placed becomes one more.
PlaceShip(b, cells, size) ==
  [b EXCEPT !.grid  = [x \in Cells |-> IF x \in cells THEN "ship" ELSE b.grid[x]],
            !.ships = Append(b.ships, [cells |-> cells, size |-> size,
                                       hits |-> 0, sunk |-> FALSE])]

----------------------------------------------------------------------------
(* Attack                                                                  *)

\* A plausible bug: a cell of a sunk ship counts as fresh water.
AlreadyAttackedNotSunk(b, x) == b.grid[x] \in {"hit", "miss"}

AlreadyAttacked(b, x) == b.grid[x] \in {"hit", "miss", "sunk"}

\* A plausible bug: one hit too many is needed.
SinksLate(ship) == ship.hits > ship.size

\* Whether the hit counter, just incremented, says that the ship is gone.
Sinks(ship) == ship.hits >= ship.size

\* The ships, still afloat, that a shot on x falls on.
Struck(b, x) == {i \in DOMAIN b.ships : ~b.ships[i].sunk /\ x \in b.ships[i].cells}

\* The loops over the ships stop at the first one found.
First(ids) == CHOOSE i \in ids : \A j \in ids : i <= j

\* A plausible bug: the ship goes down but only its last cell shows it.
SinkOneCell(b, x, i) ==
  [b EXCEPT !.grid[x] = "sunk", !.ships[i].sunk = TRUE, !.sunk = @ + 1]

\* Ship i goes down: all its cells show it and ships_sunk counts it.
Sink(b, x, i) ==
  [b EXCEPT !.grid = [y \in Cells |-> IF y \in b.ships[i].cells THEN "sunk" ELSE b.grid[y]],
            !.ships[i].sunk = TRUE,
            !.sunk = @ + 1]

\* Ship i is hit at x: the cell shows it and the ship counts it.
Hit(b, x, i) == [b EXCEPT !.grid[x] = "hit", !.ships[i].hits = @ + 1]

\* board_attack on a CELL_SHIP: the first ship afloat found there is hit.
Strike(b, x) ==
  LET struck == Struck(b, x)
      i      == First(struck)
      hit    == Hit(b, x, i)
  IN  IF struck = {} THEN [b EXCEPT !.grid[x] = "hit"]
      ELSE IF Sinks(hit.ships[i]) THEN Sink(hit, x, i)
      ELSE hit

\* board_attack: anything that is not an intact ship cell becomes a miss.
Attack(b, x) ==
  IF b.grid[x] = "ship" THEN Strike(b, x) ELSE [b EXCEPT !.grid[x] = "miss"]

\* The result the host reads off the grid and reports.
ResultAt(b, x) ==
  IF b.grid[x] \in {"miss", "sunk"} THEN b.grid[x] ELSE "hit"

AllSunk(b) == b.sunk >= NumShips

----------------------------------------------------------------------------
(* The client's copy                                                       *)

\* game.c, client case MSG_ATTACK: the grid takes the reported result, and
\* a sunk ship is looked up to paint the rest of it.
MirrorAttack(b, x, result) ==
  LET struck == Struck(b, x)
      i      == First(struck)
  IN  IF result # "sunk" THEN [b EXCEPT !.grid[x] = result]
      ELSE IF struck = {} THEN [b EXCEPT !.grid[x] = "sunk", !.sunk = @ + 1]
      ELSE [Sink(b, x, i) EXCEPT !.ships[i].hits = b.ships[i].size]
=============================================================================
