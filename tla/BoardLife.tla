----------------------------- MODULE BoardLife -----------------------------
(***************************************************************************)
(* The life of one board between two board_init: its owner places the fleet *)
(* ship by ship, the opponent then fires on it.  The guards are those every *)
(* caller in game.c and bot.c puts before the calls: board_can_place before *)
(* board_place_ship, board_already_attacked before board_attack.            *)
(***************************************************************************)
EXTENDS Board

VARIABLE board

TypeOK ==
  /\ DOMAIN board = {"grid", "ships", "sunk"}
  /\ board.grid \in [Cells -> CellStates]
  /\ board.ships \in Seq([cells : SUBSET Cells, size : Nat \ {0}, hits : Nat, sunk : BOOLEAN])
  /\ Len(board.ships) <= NumShips
  /\ board.sunk \in Nat

Init == board = EmptyBoard

\* The ships are placed in the order of SHIP_SIZES.
Place ==
  /\ Len(board.ships) < NumShips
  /\ LET size == ShipSizes[Len(board.ships) + 1]
     IN  \E cells \in Footprints(size) :
           /\ CanPlace(board, cells)
           /\ board' = PlaceShip(board, cells, size)

Fire ==
  /\ Len(board.ships) = NumShips
  /\ \E x \in Cells :
       /\ ~AlreadyAttacked(board, x)
       /\ board' = Attack(board, x)

\* board_init, on the way to a new game.
Clear == board' = EmptyBoard

Next == Place \/ Fire \/ Clear

Spec == Init /\ [][Next]_board

----------------------------------------------------------------------------
(* Properties                                                              *)

ShotAt == {x \in Cells : AlreadyAttacked(board, x)}

F == INSTANCE Fleet WITH Sea <- Cells, FleetSize <- NumShips,
       fleet <- [i \in 1 .. Len(board.ships) |-> board.ships[i].cells],
       shots <- ShotAt

\* Every cell shows what the positions of the ships and the shots fired so far
\* say it should: board_attack's marking, hit counting and repainting of a sunk
\* ship (board.c:51-82) agree with a definition that has no counters.
GridShowsFleet == \A x \in Cells : board.grid[x] = F!Colour(x)

\* The hit counter of a ship is the number of its cells shot at, its flag says
\* that there is none left, and ships_sunk is the number of flags set
\* (board.c:63-66).
CountsExact ==
  /\ \A i \in DOMAIN board.ships :
       LET s == board.ships[i]
       IN  /\ s.hits = Cardinality(s.cells \cap ShotAt)
           /\ s.sunk <=> s.cells \subseteq ShotAt
  /\ board.sunk = Cardinality({i \in DOMAIN board.ships : board.ships[i].sunk})

\* board_all_sunk, which only compares a counter (board.c:90-92), is true exactly
\* when a complete fleet has no cell left: the game cannot end early or never.
LossIsExact == AllSunk(board) <=> F!Lost

\* A cell shot at stays so and no shot changes where ships are: a hit may only
\* become sunk, a miss and a sunk cell never change before the board is cleared.
ShotsStay ==
  [][board' # EmptyBoard =>
       \A x \in Cells :
         /\ board.grid[x] = "hit" => board'.grid[x] \in {"hit", "sunk"}
         /\ board.grid[x] \in {"miss", "sunk"} => board'.grid[x] = board.grid[x]]_board

\* The board implements the abstract fleet: disjoint ships on the sea, one
\* fresh cell per shot.
ImplementsFleet == F!Spec
=============================================================================
