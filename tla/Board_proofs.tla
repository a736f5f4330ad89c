---------------------------- MODULE Board_proofs ----------------------------
(***************************************************************************)
(* What the operations of a board do to a board that is in order, whatever  *)
(* its size and its fleet.  The lemmas are about any record, so that they   *)
(* serve for a board that is a variable (BoardLife) and for the two boards  *)
(* of a program (SinglePlayer).                                             *)
(***************************************************************************)
EXTENDS Board, FiniteSetTheorems, SequenceTheorems, WellFoundedInduction, TLAPS

\* What board.ships holds.
Ship == [cells : SUBSET Cells, size : Nat \ {0}, hits : Nat, sunk : BOOLEAN]

\* The ships by order of placement.
Ids(b) == 1 .. Len(b.ships)

\* The cells shot at, and what follows from them and the ships' positions: which
\* ships lie at a cell, which are gone, and what the cell shows.
ShotOn(b) == {x \in Cells : AlreadyAttacked(b, x)}
ShipsAt(b, x) == {i \in Ids(b) : x \in b.ships[i].cells}
Gone(b, i) == b.ships[i].cells \subseteq ShotOn(b)
Shows(b, x) ==
  IF x \notin ShotOn(b) THEN IF ShipsAt(b, x) = {} THEN "empty" ELSE "ship"
  ELSE IF ShipsAt(b, x) = {} THEN "miss"
  ELSE IF \E i \in ShipsAt(b, x) : Gone(b, i) THEN "sunk" ELSE "hit"

BoardType(b) ==
  /\ DOMAIN b = {"grid", "ships", "sunk"}
  /\ b.grid \in [Cells -> CellStates]
  /\ b.ships \in Seq(Ship)
  /\ Len(b.ships) <= NumShips
  /\ b.sunk \in Nat

\* No two ships share a cell.
Apart(b) == \A i, j \in Ids(b) : i # j => b.ships[i].cells \cap b.ships[j].cells = {}

\* A ship has as many cells as its size says.
Whole(b) == \A i \in Ids(b) : Cardinality(b.ships[i].cells) = b.ships[i].size

\* The fleet is complete before the first shot.
Untouched(b) == Len(b.ships) < NumShips => ShotOn(b) = {}

GridFits(b) == \A x \in Cells : b.grid[x] = Shows(b, x)

CountsFit(b) ==
  /\ \A i \in DOMAIN b.ships :
       /\ b.ships[i].hits = Cardinality(b.ships[i].cells \cap ShotOn(b))
       /\ b.ships[i].sunk <=> b.ships[i].cells \subseteq ShotOn(b)
  /\ b.sunk = Cardinality({i \in DOMAIN b.ships : b.ships[i].sunk})

\* A board in order.  GridFits alone is not kept: painting a sunk ship needs the
\* counters exact, the counters need the ships apart and whole, and a placement
\* is harmless only because no shot came before it.
Good(b) ==
  /\ BoardType(b)
  /\ Apart(b) /\ Whole(b) /\ Untouched(b)
  /\ GridFits(b) /\ CountsFit(b)

\* A step that leaves the ships where they are.
SameShips(b, c) ==
  /\ Len(c.ships) = Len(b.ships)
  /\ \A i \in Ids(b) : c.ships[i].cells = b.ships[i].cells

----------------------------------------------------------------------------
(* The sea                                                                 *)

\* An interval of integers is finite and as large as its bounds say.
LEMMA Interval ==
  \A a, b \in Int : /\ IsFiniteSet(a .. b)
                    /\ Cardinality(a .. b) = IF a > b THEN 0 ELSE b - a + 1
  BY FS_Interval

\* A product of finite sets is finite, and the sizes multiply.
LEMMA Product ==
  \A S, T : IsFiniteSet(S) /\ IsFiniteSet(T) =>
    /\ IsFiniteSet(S \X T)
    /\ Cardinality(S \X T) = Cardinality(S) * Cardinality(T)
  BY FS_Product

\* The sea is finite.
LEMMA CellsFinite == IsFiniteSet(Cells)
<1>1. Cols - 1 \in Int /\ Rows - 1 \in Int /\ 0 \in Int
  BY BoardAssumption
<1>2. IsFiniteSet(0 .. Cols - 1) /\ IsFiniteSet(0 .. Rows - 1)
  BY <1>1, Interval
<1> QED
  BY <1>2, Product DEF Cells

\* There is at least one ship, and every ship has at least one cell.
LEMMA NumShipsType == NumShips \in Nat \ {0} /\ \A i \in 1 .. NumShips : ShipSizes[i] \in Nat \ {0}
  BY BoardAssumption, LenProperties, EmptySeq, ElementOfSeq DEF NumShips

\* A ship covers as many cells as its size says.
LEMMA SpanSize ==
  ASSUME NEW at \in Cells, NEW size \in Nat \ {0}, NEW orient \in Orientations
  PROVE  Cardinality(Span(at, size, orient)) = size
<1>1. at[1] \in Int /\ at[2] \in Int
  BY BoardAssumption DEF Cells
<1>2. ASSUME NEW a \in Int
      PROVE  IsFiniteSet(a .. a + size - 1) /\ Cardinality(a .. a + size - 1) = size
  <2>1. a + size - 1 \in Int /\ ~(a > a + size - 1) /\ a + size - 1 - a + 1 = size
    OBVIOUS
  <2> QED BY <2>1, Interval
<1>3. \A c : IsFiniteSet({c}) /\ Cardinality({c}) = 1
  BY FS_Singleton
<1>4. CASE orient = "horizontal"
  <2>1. Span(at, size, orient) = (at[1] .. at[1] + size - 1) \X {at[2]}
    BY <1>4 DEF Span
  <2>2. Cardinality((at[1] .. at[1] + size - 1) \X {at[2]})
          = Cardinality(at[1] .. at[1] + size - 1) * Cardinality({at[2]})
    BY <1>1, <1>2, <1>3, Product
  <2>3. Cardinality(at[1] .. at[1] + size - 1) = size /\ Cardinality({at[2]}) = 1
    BY <1>1, <1>2, <1>3
  <2> QED BY <2>1, <2>2, <2>3
<1>5. CASE orient = "vertical"
  <2>1. Span(at, size, orient) = {at[1]} \X (at[2] .. at[2] + size - 1)
    BY <1>5 DEF Span
  <2>2. Cardinality({at[1]} \X (at[2] .. at[2] + size - 1))
          = Cardinality({at[1]}) * Cardinality(at[2] .. at[2] + size - 1)
    BY <1>1, <1>2, <1>3, Product
  <2>3. Cardinality(at[2] .. at[2] + size - 1) = size /\ Cardinality({at[1]}) = 1
    BY <1>1, <1>2, <1>3
  <2> QED BY <2>1, <2>2, <2>3
<1> QED BY <1>4, <1>5 DEF Orientations

\* And so has any footprint.
LEMMA FootprintSize ==
  ASSUME NEW size \in Nat \ {0}, NEW cells \in Footprints(size)
  PROVE  Cardinality(cells) = size
  BY SpanSize DEF Footprints

----------------------------------------------------------------------------
(* What a shot does                                                        *)

\* The ships of a well-typed board.
LEMMA RecordFields ==
  ASSUME NEW b, BoardType(b)
  PROVE  /\ b.ships \in Seq(Ship)
         /\ Len(b.ships) \in Nat /\ DOMAIN b.ships = Ids(b)
         /\ \A i \in Ids(b) : /\ b.ships[i] \in Ship
                               /\ b.ships[i].cells \in SUBSET Cells
                               /\ b.ships[i].size \in Nat \ {0}
                               /\ b.ships[i].hits \in Nat
                               /\ b.ships[i].sunk \in BOOLEAN
<1>1. b.ships \in Seq(Ship)
  BY DEF BoardType, Ship
<1>2. Len(b.ships) \in Nat /\ DOMAIN b.ships = Ids(b)
  BY <1>1, LenProperties DEF Ids
<1>3. \A i \in Ids(b) : b.ships[i] \in Ship
  BY <1>1, ElementOfSeq DEF Ids
<1> QED BY <1>1, <1>2, <1>3 DEF Ship

\* A cell that shows a ship belongs to one ship, which is still afloat.
LEMMA ShipStruck ==
  ASSUME NEW b, Good(b), NEW x \in Cells, b.grid[x] = "ship"
  PROVE  \E k \in Ids(b) :
           /\ x \in b.ships[k].cells
           /\ ~b.ships[k].sunk
           /\ Struck(b, x) = {k}
<1>1. x \notin ShotOn(b)
  BY DEF ShotOn, AlreadyAttacked
<1>2. \E k \in Ids(b) : x \in b.ships[k].cells
  BY <1>1 DEF Good, GridFits, Shows, ShipsAt, Ids
<1>3. PICK k \in Ids(b) : x \in b.ships[k].cells
  BY <1>2
<1>4. DOMAIN b.ships = Ids(b)
  BY RecordFields DEF Good
<1>5. ~b.ships[k].sunk
  BY <1>1, <1>3, <1>4 DEF Good, CountsFit
<1>6. Struck(b, x) = {k}
  BY <1>3, <1>4, <1>5 DEF Struck, Good, Apart
<1> QED BY <1>3, <1>5, <1>6

\* A shot in the water changes the cell and nothing else.
LEMMA MissEffect ==
  ASSUME NEW b, BoardType(b), NEW x \in Cells, b.grid[x] # "ship"
  PROVE  LET c == Attack(b, x)
         IN  /\ DOMAIN c = {"grid", "ships", "sunk"}
             /\ c.grid \in [Cells -> CellStates]
             /\ \A y \in Cells : c.grid[y] = IF y = x THEN "miss" ELSE b.grid[y]
             /\ c.ships = b.ships
             /\ c.sunk = b.sunk
  BY DEF Attack, CellStates, BoardType

\* A ship stays one when its counter or its flag changes.
LEMMA ShipUpdate ==
  ASSUME NEW s \in Ship, NEW hits \in Nat, NEW sunk \in BOOLEAN
  PROVE  [s EXCEPT !.hits = hits] \in Ship /\ [s EXCEPT !.sunk = sunk] \in Ship
  BY DEF Ship

\* Changing one ship's flag leaves everything else of the ships as it was.
LEMMA ShipsUpdate ==
  ASSUME NEW ships \in Seq(Ship), NEW k \in 1 .. Len(ships), NEW v
  PROVE  LET t == [ships EXCEPT ![k].sunk = v]
         IN  \A i \in 1 .. Len(ships) :
               /\ t[i].cells = ships[i].cells
               /\ t[i].size = ships[i].size
               /\ t[i].hits = ships[i].hits
               /\ t[i].sunk = IF i = k THEN v ELSE ships[i].sunk
  BY DEF Ship

\* A hit counts one on the ship and shows on the cell.
LEMMA HitEffect ==
  ASSUME NEW b, BoardType(b), NEW x \in Cells, NEW k \in Ids(b)
  PROVE  LET c == Hit(b, x, k)
         IN  /\ DOMAIN c = {"grid", "ships", "sunk"}
             /\ c.grid = [b.grid EXCEPT ![x] = "hit"]
             /\ c.ships = [b.ships EXCEPT ![k].hits = @ + 1]
             /\ c.ships \in Seq(Ship) /\ Len(c.ships) = Len(b.ships)
             /\ c.sunk = b.sunk
<1>1. /\ DOMAIN Hit(b, x, k) = {"grid", "ships", "sunk"}
      /\ Hit(b, x, k).grid = [b.grid EXCEPT ![x] = "hit"]
      /\ Hit(b, x, k).ships = [b.ships EXCEPT ![k].hits = @ + 1]
      /\ Hit(b, x, k).sunk = b.sunk
  BY DEF Hit, BoardType
<1>2. [b.ships[k] EXCEPT !.hits = @ + 1] \in Ship
  <2>1. b.ships[k] \in Ship /\ b.ships[k].hits + 1 \in Nat
    BY RecordFields
  <2> QED BY <2>1, ShipUpdate
<1>3. /\ [b.ships EXCEPT ![k].hits = @ + 1] \in Seq(Ship)
      /\ Len([b.ships EXCEPT ![k].hits = @ + 1]) = Len(b.ships)
  BY <1>2, RecordFields, ExceptSeq DEF Ids
<1> QED BY <1>1, <1>3

\* A shot on a ship afloat counts one hit on it and, when that was the last
\* cell, shows and counts the ship as sunk.
LEMMA StrikeEffect ==
  ASSUME NEW b, BoardType(b), NEW x \in Cells, b.grid[x] = "ship",
         NEW k \in Ids(b), ~b.ships[k].sunk, Struck(b, x) = {k}
  PROVE  LET c    == Attack(b, x)
             s    == b.ships[k]
             last == s.hits + 1 >= s.size
         IN  /\ DOMAIN c = {"grid", "ships", "sunk"}
             /\ c.ships \in Seq(Ship) /\ Len(c.ships) = Len(b.ships)
             /\ \A i \in Ids(b) :
                  /\ c.ships[i].cells = b.ships[i].cells
                  /\ c.ships[i].size = b.ships[i].size
                  /\ c.ships[i].hits = IF i = k THEN s.hits + 1 ELSE b.ships[i].hits
                  /\ c.ships[i].sunk <=> IF i = k THEN last ELSE b.ships[i].sunk
             /\ c.sunk = IF last THEN b.sunk + 1 ELSE b.sunk
             /\ c.grid \in [Cells -> CellStates]
             /\ \A y \in Cells : c.grid[y] = IF last /\ y \in s.cells THEN "sunk"
                                             ELSE IF y = x THEN "hit" ELSE b.grid[y]
<1> DEFINE s    == b.ships[k]
           last == s.hits + 1 >= s.size
           hit  == Hit(b, x, k)
           c    == Attack(b, x)
<1>1. First({k}) = k
  <2>1. k <= k
    BY DEF Ids
  <2> QED BY <2>1 DEF First
<1>2. c = IF Sinks(hit.ships[k]) THEN Sink(hit, x, k) ELSE hit
  <2>1. c = Strike(b, x)
    BY DEF Attack
  <2>2. Strike(b, x) = IF Sinks(hit.ships[k]) THEN Sink(hit, x, k) ELSE hit
    <3> HIDE DEF hit
    <3> QED BY <1>1 DEF Strike, hit
  <2> QED BY <2>1, <2>2
<1>3. /\ DOMAIN hit = {"grid", "ships", "sunk"}
      /\ hit.grid = [b.grid EXCEPT ![x] = "hit"]
      /\ hit.ships = [b.ships EXCEPT ![k].hits = @ + 1]
      /\ hit.ships \in Seq(Ship) /\ Len(hit.ships) = Len(b.ships)
      /\ hit.sunk = b.sunk
  BY HitEffect
<1>4. /\ b.ships \in Seq(Ship) /\ DOMAIN b.ships = Ids(b)
      /\ b.grid \in [Cells -> CellStates] /\ b.sunk \in Nat
      /\ s \in Ship
  BY RecordFields DEF BoardType
<1>5. \A i \in Ids(b) :
        /\ hit.ships[i].cells = b.ships[i].cells
        /\ hit.ships[i].size = b.ships[i].size
        /\ hit.ships[i].hits = IF i = k THEN s.hits + 1 ELSE b.ships[i].hits
        /\ hit.ships[i].sunk = b.ships[i].sunk
  <2> HIDE DEF hit
  <2>1. hit.ships = [b.ships EXCEPT ![k] = [s EXCEPT !.hits = s.hits + 1]]
    BY <1>3
  <2>2. hit.ships[k] = [s EXCEPT !.hits = s.hits + 1]
    BY <2>1, <1>4
  <2>3. /\ hit.ships[k].cells = s.cells /\ hit.ships[k].size = s.size
        /\ hit.ships[k].hits = s.hits + 1 /\ hit.ships[k].sunk = s.sunk
    BY <2>2, <1>4 DEF Ship
  <2>4. \A i \in Ids(b) : i # k => hit.ships[i] = b.ships[i]
    BY <2>1, <1>4
  <2> QED BY <2>3, <2>4
<1>6. Sinks(hit.ships[k]) <=> last
  BY <1>5 DEF Sinks
<1>7. CASE ~last
  <2>1. c = hit
    BY <1>2, <1>6, <1>7
  <2>2. hit.grid \in [Cells -> CellStates] /\ \A y \in Cells : hit.grid[y] = IF y = x THEN "hit" ELSE b.grid[y]
    BY <1>3, <1>4 DEF CellStates
  <2> HIDE DEF c, hit
  <2> QED BY <1>3, <1>5, <1>7, <2>1, <2>2 DEF c
<1>8. CASE last
  <2>1. c = Sink(hit, x, k)
    BY <1>2, <1>6, <1>8
  <2>2. /\ DOMAIN c = {"grid", "ships", "sunk"}
        /\ c.grid = [y \in Cells |-> IF y \in hit.ships[k].cells THEN "sunk" ELSE hit.grid[y]]
        /\ c.ships = [hit.ships EXCEPT ![k].sunk = TRUE]
        /\ c.sunk = hit.sunk + 1
    <3> HIDE DEF c, hit
    <3> QED BY <1>3, <2>1 DEF Sink
  <2>3. c.ships \in Seq(Ship) /\ Len(c.ships) = Len(hit.ships)
    <3> HIDE DEF c, hit
    <3>1. hit.ships[k] \in Ship /\ k \in 1 .. Len(hit.ships)
      BY <1>3, ElementOfSeq DEF Ids
    <3>2. [hit.ships[k] EXCEPT !.sunk = TRUE] \in Ship
      BY <3>1, ShipUpdate
    <3> QED BY <1>3, <2>2, <3>1, <3>2, ExceptSeq
  <2>4. \A i \in Ids(b) :
          /\ c.ships[i].cells = hit.ships[i].cells
          /\ c.ships[i].size = hit.ships[i].size
          /\ c.ships[i].hits = hit.ships[i].hits
          /\ i = k => c.ships[i].sunk
          /\ i # k => c.ships[i].sunk = hit.ships[i].sunk
    <3> HIDE DEF c, hit
    <3>1. hit.ships \in Seq(Ship) /\ Ids(b) = 1 .. Len(hit.ships) /\ k \in 1 .. Len(hit.ships)
      BY <1>3 DEF Ids
    <3>2. PICK v : v = TRUE
      OBVIOUS
    <3>3. c.ships = [hit.ships EXCEPT ![k].sunk = v]
      BY <2>2, <3>2
    <3>4. \A i \in Ids(b) :
            /\ c.ships[i].cells = hit.ships[i].cells
            /\ c.ships[i].size = hit.ships[i].size
            /\ c.ships[i].hits = hit.ships[i].hits
            /\ c.ships[i].sunk = IF i = k THEN v ELSE hit.ships[i].sunk
      BY <3>1, <3>3, ShipsUpdate
    <3> QED BY <3>2, <3>4
  <2>5. /\ c.grid \in [Cells -> CellStates]
        /\ \A y \in Cells : c.grid[y] = IF y \in s.cells THEN "sunk"
                                        ELSE IF y = x THEN "hit" ELSE b.grid[y]
    <3> HIDE DEF c, hit
    <3> QED BY <1>3, <1>4, <1>5, <2>2 DEF CellStates
  <2>6. \A i \in Ids(b) :
          /\ c.ships[i].cells = b.ships[i].cells
          /\ c.ships[i].size = b.ships[i].size
          /\ c.ships[i].hits = IF i = k THEN s.hits + 1 ELSE b.ships[i].hits
          /\ c.ships[i].sunk <=> IF i = k THEN last ELSE b.ships[i].sunk
    <3> HIDE DEF c, hit
    <3> QED BY <1>5, <1>8, <2>4
  <2>7. c.sunk = b.sunk + 1 /\ Len(c.ships) = Len(b.ships)
    <3> HIDE DEF c, hit
    <3> QED BY <1>3, <2>2, <2>3
  <2> HIDE DEF c, hit
  <2> QED BY <1>8, <2>2, <2>3, <2>5, <2>6, <2>7 DEF c
<1> QED BY <1>7, <1>8

----------------------------------------------------------------------------
(* Placements and shots keep a board in order                               *)

\* board_init yields a board in order.
LEMMA EmptyIsGood == Good(EmptyBoard) /\ ShotOn(EmptyBoard) = {} /\ Len(EmptyBoard.ships) = 0
<1> DEFINE b == EmptyBoard
<1>1. /\ DOMAIN b = {"grid", "ships", "sunk"}
      /\ b.grid = [x \in Cells |-> "empty"] /\ b.ships = << >> /\ b.sunk = 0
  BY DEF EmptyBoard
<1> HIDE DEF b
<1>2. /\ Len(b.ships) = 0 /\ Ids(b) = {} /\ DOMAIN b.ships = {}
      /\ ShotOn(b) = {}
  BY <1>1 DEF Ids, ShotOn, AlreadyAttacked
<1>3. BoardType(b)
  BY <1>1, <1>2, NumShipsType DEF BoardType, CellStates
<1>4. Apart(b) /\ Whole(b) /\ Untouched(b)
  BY <1>2 DEF Apart, Whole, Untouched
<1>5. GridFits(b)
  BY <1>1, <1>2 DEF GridFits, Shows, ShipsAt
<1>6. CountsFit(b)
  <2>1. {i \in DOMAIN b.ships : b.ships[i].sunk} = {}
    BY <1>2
  <2> QED BY <1>1, <1>2, <2>1, FS_EmptySet DEF CountsFit
<1> QED BY <1>2, <1>3, <1>4, <1>5, <1>6 DEF Good, b

\* Placing a ship: no shot was fired yet, and the new ship lies on free water.
LEMMA PlacingShows ==
  ASSUME NEW b, Good(b), Len(b.ships) < NumShips, NEW cells, CanPlace(b, cells),
         NEW size \in Nat \ {0}, NEW c, c = PlaceShip(b, cells, size)
  PROVE  /\ cells \in SUBSET Cells
         /\ \A i \in Ids(b) : b.ships[i].cells \cap cells = {}
         /\ DOMAIN c = {"grid", "ships", "sunk"}
         /\ c.grid = [x \in Cells |-> IF x \in cells THEN "ship" ELSE b.grid[x]]
         /\ c.ships = Append(b.ships, [cells |-> cells, size |-> size,
                                       hits |-> 0, sunk |-> FALSE])
         /\ c.sunk = b.sunk
         /\ ShotOn(b) = {} /\ ShotOn(c) = {}
<1>3. cells \in SUBSET Cells /\ \A x \in cells : b.grid[x] = "empty"
  BY DEF CanPlace
<1>4. ShotOn(b) = {}
  BY DEF Good, Untouched
<1>5. ASSUME NEW i \in Ids(b), NEW x \in cells PROVE x \notin b.ships[i].cells
  <2>1. Shows(b, x) = "empty"
    BY <1>3 DEF Good, GridFits
  <2>2. ShipsAt(b, x) = {}
    BY <1>4, <2>1 DEF Shows
  <2> QED BY <2>2 DEF ShipsAt
<1>6. /\ DOMAIN c = {"grid", "ships", "sunk"}
      /\ c.grid = [x \in Cells |-> IF x \in cells THEN "ship" ELSE b.grid[x]]
      /\ c.ships = Append(b.ships, [cells |-> cells, size |-> size,
                                    hits |-> 0, sunk |-> FALSE])
      /\ c.sunk = b.sunk
  BY DEF PlaceShip, Good, BoardType
<1>7. ShotOn(c) = {}
  BY <1>4, <1>6 DEF ShotOn, AlreadyAttacked
<1> QED BY <1>3, <1>4, <1>5, <1>6, <1>7

\* A ship placed on free water, inside the sea, before any shot.
LEMMA PlacingKeeps ==
  ASSUME NEW b, Good(b), Len(b.ships) < NumShips, NEW cells, CanPlace(b, cells),
         NEW size \in Nat \ {0}, Cardinality(cells) = size,
         NEW c, c = PlaceShip(b, cells, size)
  PROVE  Good(c) /\ ShotOn(c) = {} /\ Len(c.ships) = Len(b.ships) + 1
<1> DEFINE n == Len(b.ships)
<1>1. /\ cells \in SUBSET Cells /\ Cardinality(cells) = size
      /\ \A i \in Ids(b) : b.ships[i].cells \cap cells = {}
      /\ n < NumShips
      /\ DOMAIN c = {"grid", "ships", "sunk"}
      /\ c.grid = [x \in Cells |-> IF x \in cells THEN "ship" ELSE b.grid[x]]
      /\ c.ships = Append(b.ships, [cells |-> cells, size |-> size,
                                    hits |-> 0, sunk |-> FALSE])
      /\ c.sunk = b.sunk
      /\ ShotOn(b) = {} /\ ShotOn(c) = {}
  BY PlacingShows
<1> DEFINE ship == [cells |-> cells, size |-> size, hits |-> 0, sunk |-> FALSE]
<1>2. /\ b.ships \in Seq(Ship) /\ n \in Nat /\ DOMAIN b.ships = Ids(b)
      /\ b.grid \in [Cells -> CellStates] /\ b.sunk \in Nat
  BY RecordFields DEF Good, BoardType
<1>3. ship \in Ship
  BY <1>1 DEF Ship
<1>4. /\ c.ships \in Seq(Ship) /\ Len(c.ships) = n + 1
      /\ Ids(c) = 1 .. n + 1 /\ DOMAIN c.ships = 1 .. n + 1
      /\ Ids(b) = 1 .. n
  BY <1>1, <1>2, <1>3, LenProperties DEF Ids
<1>5. /\ \A i \in 1 .. n : c.ships[i] = b.ships[i]
      /\ c.ships[n + 1] = ship
  BY <1>1, <1>2, <1>3
<1>6. BoardType(c)
  BY <1>1, <1>2, <1>4, NumShipsType DEF BoardType, CellStates, Ship
<1>7. Apart(c)
  <2>1. ship.cells = cells
    OBVIOUS
  <2> HIDE DEF ship, n
  <2> QED BY <1>1, <1>2, <1>4, <1>5, <2>1 DEF Good, Apart
<1>8. Whole(c)
  BY <1>1, <1>2, <1>4, <1>5 DEF Good, Whole
<1>9. Untouched(c)
  BY <1>1 DEF Untouched
<1>10. GridFits(c)
  <2> SUFFICES ASSUME NEW x \in Cells PROVE c.grid[x] = Shows(c, x)
    BY DEF GridFits
  <2>1. b.grid[x] = IF ShipsAt(b, x) = {} THEN "empty" ELSE "ship"
    BY <1>1 DEF Good, GridFits, Shows
  <2>2. Shows(c, x) = IF ShipsAt(c, x) = {} THEN "empty" ELSE "ship"
    BY <1>1 DEF Shows
  <2>3. ShipsAt(c, x) = {} <=> ShipsAt(b, x) = {} /\ x \notin cells
    <3>1. ShipsAt(b, x) = {i \in 1 .. n : x \in b.ships[i].cells}
      BY <1>4 DEF ShipsAt
    <3>2. ShipsAt(c, x) = {i \in 1 .. n + 1 : x \in c.ships[i].cells}
      BY <1>4 DEF ShipsAt
    <3>3. c.ships[n + 1].cells = cells /\ n + 1 \in 1 .. n + 1
      BY <1>2, <1>5
    <3>4. \A i \in 1 .. n + 1 : i = n + 1 \/ i \in 1 .. n
      BY <1>2
    <3>5. \A i \in 1 .. n : i \in 1 .. n + 1 /\ c.ships[i].cells = b.ships[i].cells
      BY <1>2, <1>5
    <3> HIDE DEF n, ship
    <3> QED BY <3>1, <3>2, <3>3, <3>4, <3>5
  <2> QED BY <1>1, <2>1, <2>2, <2>3
<1>11. CountsFit(c)
  <2>1. \A i \in 1 .. n : /\ b.ships[i].hits = Cardinality(b.ships[i].cells \cap {})
                          /\ b.ships[i].sunk <=> b.ships[i].cells \subseteq {}
    BY <1>1, <1>2, <1>4 DEF Good, CountsFit
  <2>2. 0 = Cardinality(cells \cap {}) /\ ~(cells \subseteq {})
    BY <1>1, FS_EmptySet
  <2>3. {i \in DOMAIN c.ships : c.ships[i].sunk} = {i \in DOMAIN b.ships : b.ships[i].sunk}
    BY <1>2, <1>4, <1>5
  <2>4. \A i \in 1 .. n + 1 : /\ c.ships[i].hits = Cardinality(c.ships[i].cells \cap {})
                              /\ c.ships[i].sunk <=> c.ships[i].cells \subseteq {}
    <3> SUFFICES ASSUME NEW i \in 1 .. n + 1
                 PROVE  /\ c.ships[i].hits = Cardinality(c.ships[i].cells \cap {})
                        /\ c.ships[i].sunk <=> c.ships[i].cells \subseteq {}
      OBVIOUS
    <3>1. CASE i = n + 1
      BY <1>5, <2>2, <3>1
    <3>2. CASE i \in 1 .. n
      BY <1>5, <2>1, <3>2
    <3> QED BY <1>2, <3>1, <3>2
  <2> QED BY <1>1, <1>4, <2>3, <2>4 DEF Good, CountsFit
<1> QED BY <1>1, <1>4, <1>6, <1>7, <1>8, <1>9, <1>10, <1>11 DEF Good

\* The hit counter says whether a fresh shot on the ship is the last one.
LEMMA LastHit ==
  ASSUME NEW b, Good(b), NEW x \in Cells, x \notin ShotOn(b),
         NEW k \in Ids(b), x \in b.ships[k].cells
  PROVE  LET s == b.ships[k]
         IN  /\ Cardinality(s.cells \cap (ShotOn(b) \cup {x})) = s.hits + 1
             /\ s.hits + 1 >= s.size <=> s.cells \subseteq ShotOn(b) \cup {x}
<1> DEFINE s    == b.ships[k]
           all  == s.cells
           old  == all \cap ShotOn(b)
           new  == all \cap (ShotOn(b) \cup {x})
<1>1. /\ s.hits = Cardinality(old) /\ s.size = Cardinality(all)
      /\ s.hits \in Nat /\ s.size \in Nat /\ all \in SUBSET Cells
  BY RecordFields DEF Good, CountsFit, Whole
<1>2. IsFiniteSet(all)
  BY <1>1, CellsFinite, FS_Subset
<1>3. IsFiniteSet(old)
  <2>1. old \in SUBSET all
    OBVIOUS
  <2> HIDE DEF old, all
  <2> QED BY <1>2, <2>1, FS_Subset
<1>4. new = old \cup {x} /\ x \notin old
  OBVIOUS
<1>5. Cardinality(new) = s.hits + 1
  <2> HIDE DEF old, new
  <2> QED BY <1>1, <1>3, <1>4, FS_AddElement
<1>6. Cardinality(new) <= Cardinality(all) /\ (Cardinality(new) = Cardinality(all) => new = all)
  <2>1. new \in SUBSET all
    OBVIOUS
  <2> HIDE DEF new, all
  <2> QED BY <1>2, <2>1, FS_Subset
<1>7. all \subseteq ShotOn(b) \cup {x} <=> new = all
  OBVIOUS
<1>8. s.hits + 1 >= s.size <=> Cardinality(new) = Cardinality(all)
  <2> HIDE DEF new, all, s
  <2> QED BY <1>1, <1>5, <1>6
<1> HIDE DEF new, all
<1> QED BY <1>5, <1>6, <1>7, <1>8 DEF new, all

\* A shot on empty water.
LEMMA WaterKeeps ==
  ASSUME NEW b, Good(b), NEW x \in Cells, b.grid[x] = "empty", Len(b.ships) = NumShips,
         NEW c, c = Attack(b, x)
  PROVE  Good(c) /\ ShotOn(c) = ShotOn(b) \cup {x} /\ SameShips(b, c)
<1>1. /\ DOMAIN c = {"grid", "ships", "sunk"}
      /\ c.grid \in [Cells -> CellStates]
      /\ \A y \in Cells : c.grid[y] = IF y = x THEN "miss" ELSE b.grid[y]
      /\ c.ships = b.ships
      /\ c.sunk = b.sunk
  BY MissEffect DEF Good
<1>2. ShotOn(c) = ShotOn(b) \cup {x} /\ x \notin ShotOn(b)
  BY <1>1 DEF ShotOn, AlreadyAttacked
<1>3. Ids(c) = Ids(b) /\ DOMAIN b.ships = Ids(b)
  BY <1>1, RecordFields DEF Ids, Good
<1>4. \A i \in Ids(b) : x \notin b.ships[i].cells
  <2>1. Shows(b, x) = "empty"
    BY DEF Good, GridFits
  <2>2. ShipsAt(b, x) = {}
    BY <1>2, <2>1 DEF Shows
  <2> QED BY <2>2 DEF ShipsAt, Ids
<1>5. BoardType(c)
  BY <1>1 DEF Good, BoardType
<1>6. Apart(c) /\ Whole(c)
  BY <1>1, <1>3 DEF Good, Apart, Whole
<1>7. Untouched(c)
  BY <1>1, NumShipsType DEF Untouched
<1>8. GridFits(c)
  <2> SUFFICES ASSUME NEW y \in Cells PROVE c.grid[y] = Shows(c, y)
    BY DEF GridFits
  <2>1. ShipsAt(c, y) = ShipsAt(b, y) /\ \A i \in ShipsAt(b, y) : Gone(c, i) <=> Gone(b, i)
    BY <1>1, <1>2, <1>4 DEF ShipsAt, Gone, Ids
  <2>2. CASE y = x
    <3>1. ShipsAt(b, x) = {}
      BY <1>4 DEF ShipsAt, Ids
    <3> QED BY <1>1, <1>2, <2>1, <2>2, <3>1 DEF Shows
  <2>3. CASE y # x
    <3>1. b.grid[y] = Shows(b, y)
      BY DEF Good, GridFits
    <3>2. y \in ShotOn(c) <=> y \in ShotOn(b)
      BY <1>2, <2>3
    <3>3. Shows(c, y) = Shows(b, y)
      BY <2>1, <3>2 DEF Shows
    <3> QED BY <1>1, <2>3, <3>1, <3>3
  <2> QED BY <2>2, <2>3
<1>9. CountsFit(c)
  <2>1. \A i \in Ids(b) : b.ships[i].cells \cap ShotOn(c) = b.ships[i].cells \cap ShotOn(b)
    BY <1>2, <1>4
  <2>2. \A i \in Ids(b) : b.ships[i].cells \subseteq ShotOn(c) <=> b.ships[i].cells \subseteq ShotOn(b)
    BY <1>2, <1>4
  <2> QED BY <1>1, <1>3, <2>1, <2>2 DEF Good, CountsFit
<1>10. SameShips(b, c)
  BY <1>1 DEF SameShips
<1> QED BY <1>2, <1>5, <1>6, <1>7, <1>8, <1>9, <1>10 DEF Good

\* A shot on a ship, hit or sunk by it.
LEMMA StrikeKeeps ==
  ASSUME NEW b, Good(b), NEW x \in Cells, b.grid[x] = "ship", Len(b.ships) = NumShips,
         NEW c, c = Attack(b, x)
  PROVE  Good(c) /\ ShotOn(c) = ShotOn(b) \cup {x} /\ SameShips(b, c)
<1>1. PICK k \in Ids(b) : /\ x \in b.ships[k].cells
                          /\ ~b.ships[k].sunk
                          /\ Struck(b, x) = {k}
  BY ShipStruck
<1> DEFINE s    == b.ships[k]
           last == s.hits + 1 >= s.size
<1>2. /\ DOMAIN c = {"grid", "ships", "sunk"}
      /\ c.ships \in Seq(Ship) /\ Len(c.ships) = Len(b.ships)
      /\ \A i \in Ids(b) :
           /\ c.ships[i].cells = b.ships[i].cells
           /\ c.ships[i].size = b.ships[i].size
           /\ c.ships[i].hits = IF i = k THEN s.hits + 1 ELSE b.ships[i].hits
           /\ c.ships[i].sunk <=> IF i = k THEN last ELSE b.ships[i].sunk
      /\ c.sunk = IF last THEN b.sunk + 1 ELSE b.sunk
      /\ c.grid \in [Cells -> CellStates]
      /\ \A y \in Cells : c.grid[y] = IF last /\ y \in s.cells THEN "sunk"
                                           ELSE IF y = x THEN "hit" ELSE b.grid[y]
  BY <1>1, StrikeEffect DEF Good
<1>3. x \notin ShotOn(b)
  BY DEF ShotOn, AlreadyAttacked
<1>4. /\ Cardinality(s.cells \cap (ShotOn(b) \cup {x})) = s.hits + 1
      /\ last <=> s.cells \subseteq ShotOn(b) \cup {x}
  BY <1>1, <1>3, LastHit
<1> HIDE DEF last
<1>5. ShotOn(c) = ShotOn(b) \cup {x}
  BY <1>2, <1>4 DEF ShotOn, AlreadyAttacked
<1>6. Ids(c) = Ids(b) /\ DOMAIN b.ships = Ids(b) /\ DOMAIN c.ships = Ids(b)
  BY <1>2, RecordFields, LenProperties DEF Ids, Good
<1>7. \A i \in Ids(b) : i # k => x \notin b.ships[i].cells
  BY <1>1 DEF Good, Apart
<1>8. BoardType(c)
  <2>1. b.sunk \in Nat /\ c.sunk \in Nat
    BY <1>2 DEF Good, BoardType
  <2> QED BY <1>2, <2>1 DEF Good, BoardType, Ship
<1>9. Apart(c) /\ Whole(c)
  BY <1>2, <1>6 DEF Good, Apart, Whole
<1>10. Untouched(c)
  BY <1>2, NumShipsType DEF Untouched
<1>11. ASSUME NEW y \in Cells
       PROVE  /\ ShipsAt(b, y) = {i \in Ids(b) : y \in b.ships[i].cells}
              /\ ShipsAt(c, y) = {i \in Ids(b) : y \in b.ships[i].cells}
  BY <1>2, <1>6 DEF ShipsAt, Ids
<1>12. ASSUME NEW i \in Ids(b)
       PROVE  /\ Gone(b, i) <=> b.ships[i].cells \subseteq ShotOn(b)
              /\ Gone(c, i) <=> b.ships[i].cells \subseteq ShotOn(c)
  BY <1>2, <1>6 DEF Gone, Ids
<1>13. ASSUME NEW i \in Ids(b), i # k
       PROVE  b.ships[i].cells \subseteq ShotOn(c) <=> b.ships[i].cells \subseteq ShotOn(b)
  BY <1>5, <1>7, <1>13
<1>14. (s.cells \subseteq ShotOn(c) <=> last) /\ ~(s.cells \subseteq ShotOn(b))
  BY <1>1, <1>3, <1>4, <1>5
<1>15. GridFits(c)
  <2> SUFFICES ASSUME NEW y \in Cells PROVE c.grid[y] = Shows(c, y)
    BY DEF GridFits
  <2> DEFINE at == {i \in Ids(b) : y \in b.ships[i].cells}
  <2>1. /\ b.grid[y] = IF y \notin ShotOn(b) THEN IF at = {} THEN "empty" ELSE "ship"
                           ELSE IF at = {} THEN "miss"
                           ELSE IF \E i \in at : b.ships[i].cells \subseteq ShotOn(b)
                                THEN "sunk" ELSE "hit"
        /\ Shows(c, y) = IF y \notin ShotOn(c) THEN IF at = {} THEN "empty" ELSE "ship"
                          ELSE IF at = {} THEN "miss"
                          ELSE IF \E i \in at : b.ships[i].cells \subseteq ShotOn(c)
                               THEN "sunk" ELSE "hit"
    <3>1. b.grid[y] = Shows(b, y)
      BY DEF Good, GridFits
    <3>2. ShipsAt(b, y) = at /\ ShipsAt(c, y) = at
      BY <1>11
    <3>3. (\E i \in at : Gone(b, i)) <=> \E i \in at : b.ships[i].cells \subseteq ShotOn(b)
      BY <1>12
    <3>4. (\E i \in at : Gone(c, i)) <=> \E i \in at : b.ships[i].cells \subseteq ShotOn(c)
      BY <1>12
    <3> HIDE DEF at
    <3>5. Shows(b, y) = IF y \notin ShotOn(b) THEN IF at = {} THEN "empty" ELSE "ship"
                        ELSE IF at = {} THEN "miss"
                        ELSE IF \E i \in at : Gone(b, i) THEN "sunk" ELSE "hit"
      BY <3>2 DEF Shows
    <3>6. Shows(c, y) = IF y \notin ShotOn(c) THEN IF at = {} THEN "empty" ELSE "ship"
                         ELSE IF at = {} THEN "miss"
                         ELSE IF \E i \in at : Gone(c, i) THEN "sunk" ELSE "hit"
      BY <3>2 DEF Shows
    <3> QED BY <3>1, <3>3, <3>4, <3>5, <3>6
  <2>2. CASE y \in s.cells
    <3>1. at = {k}
      BY <1>1, <2>2 DEF Good, Apart
    <3> HIDE DEF at, s
    <3>2. (\E i \in at : b.ships[i].cells \subseteq ShotOn(c)) <=> last
      BY <1>14, <3>1 DEF s
    <3>3. ~ \E i \in at : b.ships[i].cells \subseteq ShotOn(b)
      BY <1>14, <3>1 DEF s
    <3>4. last => y \in ShotOn(c)
      BY <1>14, <2>2
    <3>5. y \in ShotOn(c) <=> y = x \/ y \in ShotOn(b)
      BY <1>5
    <3>6. c.grid[y] = IF last THEN "sunk" ELSE IF y = x THEN "hit" ELSE b.grid[y]
      BY <1>2, <2>2 DEF s
    <3> QED BY <2>1, <3>1, <3>2, <3>3, <3>4, <3>5, <3>6
  <2>3. CASE y \notin s.cells
    <3>1. y # x /\ k \notin at
      BY <1>1, <2>3
    <3>2. y \in ShotOn(c) <=> y \in ShotOn(b)
      BY <1>5, <3>1
    <3>3. (\E i \in at : b.ships[i].cells \subseteq ShotOn(c))
            <=> \E i \in at : b.ships[i].cells \subseteq ShotOn(b)
      BY <1>13, <3>1
    <3>4. c.grid[y] = b.grid[y]
      BY <1>2, <2>3, <3>1
    <3> HIDE DEF at
    <3> QED BY <2>1, <3>2, <3>3, <3>4
  <2> QED BY <2>2, <2>3
<1>16. CountsFit(c)
  <2>1. \A i \in DOMAIN c.ships :
          /\ c.ships[i].hits = Cardinality(c.ships[i].cells \cap ShotOn(c))
          /\ c.ships[i].sunk <=> c.ships[i].cells \subseteq ShotOn(c)
    <3> SUFFICES ASSUME NEW i \in Ids(b)
                 PROVE  /\ c.ships[i].hits = Cardinality(c.ships[i].cells \cap ShotOn(c))
                        /\ c.ships[i].sunk <=> c.ships[i].cells \subseteq ShotOn(c)
      BY <1>6
    <3>1. CASE i = k
      <4>1. /\ c.ships[i].cells = s.cells /\ c.ships[i].hits = s.hits + 1
            /\ c.ships[i].sunk <=> last
        BY <1>2, <3>1
      <4>2. c.ships[i].hits = Cardinality(c.ships[i].cells \cap ShotOn(c))
        BY <1>4, <1>5, <4>1
      <4> QED BY <1>14, <4>1, <4>2
    <3>2. CASE i # k
      <4>1. b.ships[i].cells \cap ShotOn(c) = b.ships[i].cells \cap ShotOn(b)
        BY <1>5, <1>7, <3>2
      <4>2. b.ships[i].cells \subseteq ShotOn(c) <=> b.ships[i].cells \subseteq ShotOn(b)
        BY <1>5, <1>7, <3>2
      <4>3. /\ b.ships[i].hits = Cardinality(b.ships[i].cells \cap ShotOn(b))
            /\ b.ships[i].sunk <=> b.ships[i].cells \subseteq ShotOn(b)
        BY <1>6 DEF Good, CountsFit
      <4>4. /\ c.ships[i].cells = b.ships[i].cells /\ c.ships[i].hits = b.ships[i].hits
            /\ c.ships[i].sunk <=> b.ships[i].sunk
        BY <1>2, <3>2
      <4>5. c.ships[i].hits = Cardinality(c.ships[i].cells \cap ShotOn(c))
        BY <4>1, <4>3, <4>4
      <4> QED BY <4>2, <4>3, <4>4, <4>5
    <3> QED BY <3>1, <3>2
  <2> DEFINE down == {i \in Ids(b) : b.ships[i].sunk}
  <2>2. b.sunk = Cardinality(down) /\ IsFiniteSet(down)
    <3>1. Len(b.ships) \in Int /\ 1 \in Int
      BY RecordFields DEF Good
    <3>2. IsFiniteSet(Ids(b))
      BY <3>1, Interval DEF Ids
    <3>3. down \in SUBSET Ids(b)
      OBVIOUS
    <3>4. b.sunk = Cardinality({i \in DOMAIN b.ships : b.ships[i].sunk})
      BY DEF Good, CountsFit
    <3> QED BY <1>6, <3>2, <3>3, <3>4, FS_Subset
  <2>3. {i \in Ids(b) : c.ships[i].sunk} = IF last THEN down \cup {k} ELSE down
    BY <1>1, <1>2
  <2>4. k \notin down
    BY <1>1
  <2>5. c.sunk = Cardinality({i \in Ids(b) : c.ships[i].sunk})
    <3> HIDE DEF down
    <3>1. Cardinality(down \cup {k}) = Cardinality(down) + 1
      BY <2>2, <2>4, FS_AddElement
    <3>2. CASE last
      BY <1>2, <2>2, <2>3, <3>1, <3>2
    <3>3. CASE ~last
      BY <1>2, <2>2, <2>3, <3>3
    <3> QED BY <3>2, <3>3
  <2>6. c.sunk = Cardinality({i \in DOMAIN c.ships : c.ships[i].sunk})
    BY <1>6, <2>5
  <2> QED BY <2>1, <2>6 DEF CountsFit
<1>17. SameShips(b, c)
  BY <1>2 DEF SameShips
<1> QED BY <1>5, <1>8, <1>9, <1>10, <1>15, <1>16, <1>17 DEF Good

\* Every shot the callers let through keeps the board in order, leaves the ships
\* where they are and adds one fresh cell to those shot at.
LEMMA AttackKeeps ==
  ASSUME NEW b, Good(b), Len(b.ships) = NumShips,
         NEW x \in Cells, ~AlreadyAttacked(b, x), NEW c, c = Attack(b, x)
  PROVE  /\ Good(c) /\ SameShips(b, c)
         /\ x \notin ShotOn(b) /\ ShotOn(c) = ShotOn(b) \cup {x}
<1>1. b.grid[x] = "empty" \/ b.grid[x] = "ship"
  BY DEF AlreadyAttacked, Good, BoardType, CellStates
<1>2. Good(c) /\ ShotOn(c) = ShotOn(b) \cup {x} /\ SameShips(b, c)
  BY <1>1, WaterKeeps, StrikeKeeps
<1>3. x \notin ShotOn(b)
  BY DEF ShotOn
<1> QED BY <1>2, <1>3

\* Nothing shown of a shot is taken back by another one.
LEMMA VerdictsStay ==
  ASSUME NEW b, Good(b), NEW c, Good(c), SameShips(b, c), ShotOn(b) \subseteq ShotOn(c),
         NEW y \in Cells
  PROVE  /\ b.grid[y] = "hit" => c.grid[y] \in {"hit", "sunk"}
         /\ b.grid[y] \in {"miss", "sunk"} => c.grid[y] = b.grid[y]
<1>1. b.grid[y] = Shows(b, y) /\ c.grid[y] = Shows(c, y)
  BY DEF Good, GridFits
<1>2. ShipsAt(c, y) = ShipsAt(b, y)
  BY DEF SameShips, ShipsAt, Ids
<1>3. \A i \in ShipsAt(b, y) : Gone(b, i) => Gone(c, i)
  BY DEF SameShips, ShipsAt, Gone
<1> QED BY <1>1, <1>2, <1>3 DEF Shows

\* A fleet is lost, by the counter, when it is complete and every ship is gone.
LEMMA LossIsCounted ==
  ASSUME NEW b, Good(b)
  PROVE  AllSunk(b) <=> Len(b.ships) = NumShips /\ \A i \in Ids(b) : Gone(b, i)
<1> DEFINE n    == Len(b.ships)
           down == {i \in Ids(b) : b.ships[i].sunk}
<1>1. n \in Nat /\ n <= NumShips /\ DOMAIN b.ships = Ids(b) /\ Ids(b) = 1 .. n
  BY RecordFields DEF Good, BoardType, Ids
<1>2. NumShips \in Nat
  BY NumShipsType
<1>3. IsFiniteSet(Ids(b)) /\ Cardinality(Ids(b)) = n
  <2>1. n \in Int /\ 1 \in Int /\ (IF 1 > n THEN 0 ELSE n - 1 + 1) = n
    BY <1>1
  <2> HIDE DEF n
  <2> QED BY <1>1, <2>1, Interval
<1>4. down \in SUBSET Ids(b)
  OBVIOUS
<1>5. b.sunk = Cardinality(down)
  <2>1. b.sunk = Cardinality({i \in DOMAIN b.ships : b.ships[i].sunk})
    BY DEF Good, CountsFit
  <2> QED BY <1>1, <2>1
<1>6. /\ Cardinality(down) \in Nat
      /\ Cardinality(down) <= n
      /\ Cardinality(down) = n <=> down = Ids(b)
  <2> HIDE DEF down, n
  <2>1. IsFiniteSet(down) /\ Cardinality(down) <= Cardinality(Ids(b))
        /\ (Cardinality(down) = Cardinality(Ids(b)) => down = Ids(b))
    BY <1>3, <1>4, FS_Subset
  <2>2. Cardinality(down) \in Nat
    BY <2>1, FS_CardinalityType
  <2> QED BY <1>3, <2>1, <2>2
<1>7. (\A i \in Ids(b) : Gone(b, i)) <=> down = Ids(b)
  BY <1>1 DEF Good, CountsFit, Gone
<1> HIDE DEF down, n
<1> QED BY <1>1, <1>2, <1>5, <1>6, <1>7 DEF AllSunk, n

----------------------------------------------------------------------------
(* Numbers                                                                 *)

\* The order on the naturals, as a relation.
Below == {pair \in Nat \X Nat : pair[1] < pair[2]}

\* A set of numbers with an element has a least one.
LEMMA LeastNumber ==
  ASSUME NEW S \in SUBSET Nat, S # {}
  PROVE  \E n \in S : \A j \in S : n <= j
<1>1. IsWellFoundedOn(Below, Nat)
  BY NatLessThanWellFounded DEF OpToRel, Below
<1>2. PICK n \in S : \A j \in S : ~(<<j, n>> \in Below)
  BY <1>1, WFMin
<1>3. \A j \in S : n \in Nat /\ j \in Nat /\ ~(j < n)
  BY <1>2 DEF Below
<1> QED BY <1>3
=============================================================================
