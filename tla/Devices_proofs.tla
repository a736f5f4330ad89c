--------------------------- MODULE Devices_proofs ---------------------------
(***************************************************************************)
(* The pointer, for every size of the screen and of the board and every      *)
(* stream of bytes: PointerSafe is inductive as it stands, and the lemmas    *)
(* about the arithmetic of mouse.c and board.c say why, and what else it     *)
(* does.  Then the program and its devices, for every set of packets and     *)
(* every number of keys, damaged bytes and tries: the invariant, part by     *)
(* part; from it what the runs check of the end of the program and of the    *)
(* interrupts, that no packet is torn, and that the pointer, fed by these    *)
(* devices, is the pointer of Pointer, so that what is proved of it holds.   *)
(***************************************************************************)
EXTENDS Devices, TLAPS

MouseType == [x : 0 .. HRes - 1, y : 0 .. VRes - 1,
              lb : BOOLEAN, clicked : BOOLEAN, moved : BOOLEAN]

----------------------------------------------------------------------------
(* Arithmetic                                                              *)

\* int16_t keeps every number it can hold.
LEMMA Int16Keeps ==
  ASSUME NEW v \in Int, -32768 <= v, v <= 32767
  PROVE  Int16(v) = v
<1>1. v + 32768 \in Nat /\ v + 32768 < 65536
  OBVIOUS
<1>2. PICK a \in Nat : a = v + 32768
  BY <1>1
<1>3. a % 65536 = a
  BY <1>1, <1>2
<1> QED
  BY <1>2, <1>3 DEF Int16

\* int16_t is a number whatever it is asked to keep.
LEMMA Int16IsInt ==
  ASSUME NEW v \in Int
  PROVE  Int16(v) \in Int
<1>1. (v + 32768) % 65536 \in Int
  OBVIOUS
<1> QED
  BY <1>1 DEF Int16

\* A byte and its sign move the pointer by less than 256 either way, or 256 back.
LEMMA DisplacementBounds ==
  ASSUME NEW sign \in BOOLEAN, NEW byte \in Byte
  PROVE  /\ Displacement(sign, byte) \in Int
         /\ -256 <= Displacement(sign, byte) /\ Displacement(sign, byte) <= 256
BY DEF Displacement, Byte

\* A clamped coordinate is one of the screen's.
LEMMA ClampOnScreen ==
  ASSUME NEW v \in Int, NEW res \in Nat \ {0}
  PROVE  Clamp(v, res) \in 0 .. res - 1
BY DEF Clamp

\* So is what mouse_state_update makes of any sum.
LEMMA EndsOnScreen ==
  ASSUME NEW v \in Int
  PROVE  Clamp(Int16(v), HRes) \in 0 .. HRes - 1 /\ Clamp(Int16(v), VRes) \in 0 .. VRes - 1
<1>1. HRes \in Nat \ {0} /\ VRes \in Nat \ {0}
  BY ScreenAssumption
<1> QED
  BY <1>1, Int16IsInt, ClampOnScreen, Zenon

\* A packet leaves a state of the mouse, whatever its three bytes.
LEMMA UpdateType ==
  ASSUME NEW m \in MouseType, NEW p \in Seq(Byte), Len(p) = 3
  PROVE  Update(m, p) \in MouseType
<1>1. p[1] \in Byte /\ p[2] \in Byte /\ p[3] \in Byte
  OBVIOUS
<1> DEFINE dx == IF Overflown(p[1]) THEN 0 ELSE Displacement(XSign(p[1]), p[2])
           dy == IF Overflown(p[1]) THEN 0 ELSE Displacement(YSign(p[1]), p[3])
<1>2. XSign(p[1]) \in BOOLEAN /\ YSign(p[1]) \in BOOLEAN /\ Overflown(p[1]) \in BOOLEAN
  BY DEF XSign, YSign, Overflown, Has
<1>3. dx \in Int /\ dy \in Int
  BY <1>1, <1>2, DisplacementBounds
<1>4. m.x \in Int /\ m.y \in Int /\ m.clicked \in BOOLEAN /\ m.lb \in BOOLEAN
  BY ScreenAssumption DEF MouseType
<1>5. m.x + dx \in Int /\ m.y - dy \in Int
  <2> HIDE DEF dx, dy
  <2> QED
    BY <1>3, <1>4
<1>6. Clamp(Int16(m.x + dx), HRes) \in 0 .. HRes - 1 /\ Clamp(Int16(m.y - dy), VRes) \in 0 .. VRes - 1
  <2> HIDE DEF dx, dy
  <2> QED
    BY <1>5, EndsOnScreen, Zenon
<1>7. Left(p[1]) \in BOOLEAN
  BY DEF Left, Has
<1>8. Update(m, p) = [x |-> Clamp(Int16(m.x + dx), HRes), y |-> Clamp(Int16(m.y - dy), VRes),
                      lb |-> Left(p[1]), clicked |-> m.clicked \/ (Left(p[1]) /\ ~m.lb),
                      moved |-> Overflown(p[1]) \/ dx # 0 \/ dy # 0]
  BY DEF Update
<1> HIDE DEF dx, dy
<1>9. (m.clicked \/ (Left(p[1]) /\ ~m.lb)) \in BOOLEAN /\ (Overflown(p[1]) \/ dx # 0 \/ dy # 0) \in BOOLEAN
  OBVIOUS
<1> QED
  BY <1>6, <1>7, <1>8, <1>9 DEF MouseType

\* The sums of mouse.c:35-36 never wrap round: the pointer goes exactly as far as
\* the packet says, up to the edge of the screen.
THEOREM MovesExactly ==
  ASSUME NEW m \in MouseType, NEW p \in [1 .. 3 -> Byte]
  PROVE  ~Overflown(p[1]) =>
           /\ Update(m, p).x = Clamp(m.x + Displacement(XSign(p[1]), p[2]), HRes)
           /\ Update(m, p).y = Clamp(m.y - Displacement(YSign(p[1]), p[3]), VRes)
<1>1. p[2] \in Byte /\ p[3] \in Byte
  OBVIOUS
<1>2. XSign(p[1]) \in BOOLEAN /\ YSign(p[1]) \in BOOLEAN
  BY DEF XSign, YSign, Has
<1>3. PICK dx \in Int : dx = Displacement(XSign(p[1]), p[2]) /\ -256 <= dx /\ dx <= 256
  BY <1>1, <1>2, DisplacementBounds
<1>4. PICK dy \in Int : dy = Displacement(YSign(p[1]), p[3]) /\ -256 <= dy /\ dy <= 256
  BY <1>1, <1>2, DisplacementBounds
<1>5. m.x \in Int /\ 0 <= m.x /\ m.x <= 32511 /\ m.y \in Int /\ 0 <= m.y /\ m.y <= 32511
  BY ScreenAssumption DEF MouseType
<1>6. PICK v \in Int : v = m.x + dx
  BY <1>5
<1>7. PICK w \in Int : w = m.y - dy
  BY <1>5
<1>8. -32768 <= v /\ v <= 32767 /\ -32768 <= w /\ w <= 32767
  BY <1>3, <1>4, <1>5, <1>6, <1>7
<1>9. Int16(v) = v /\ Int16(w) = w
  BY <1>8, Int16Keeps
<1> QED
  BY <1>3, <1>4, <1>6, <1>7, <1>9 DEF Update

\* Division towards zero, bounded: a quotient below n is a number below n * b.
LEMMA QuotientBelow ==
  ASSUME NEW a \in Int, NEW b \in Nat \ {0}, NEW n \in Nat \ {0}
  PROVE  /\ Quotient(a, b) \in Int
         /\ Quotient(a, b) \in 0 .. n - 1 <=> a \in -(b - 1) .. n * b - 1
<1>1. CASE a >= 0
  <2>1. PICK q \in Nat : q = a \div b /\ b * q <= a /\ a < b * q + b
    BY <1>1
  <2>2. q <= n - 1 <=> a < n * b
    BY <1>1, <2>1
  <2>3. n * b \in Nat
    OBVIOUS
  <2> QED
    BY <1>1, <2>1, <2>2, <2>3 DEF Quotient
<1>2. CASE a < 0
  <2>1. PICK c \in Nat : c = -a /\ c > 0
    BY <1>2
  <2>2. PICK q \in Nat : q = c \div b /\ b * q <= c /\ c < b * q + b
    OBVIOUS
  <2>3. Quotient(a, b) = -q
    BY <1>2, <2>1, <2>2 DEF Quotient
  <2>4. q = 0 <=> c < b
    BY <2>1, <2>2
  <2>5. n * b \in Nat \ {0}
    OBVIOUS
  <2> QED
    BY <1>2, <2>1, <2>3, <2>4, <2>5
<1> QED
  BY <1>1, <1>2

\* What the handlers take for the board (game.c:534, 589, 617) is the board and a
\* margin to the left of it and above of one pixel less than a cell: C divides
\* towards zero, and -44 / 45 is 0.
THEOREM CellsAndMargin ==
  ASSUME NEW px \in Int, NEW py \in Int
  PROVE  CellAt(px, py) \in BoardCells <=>
           /\ px \in BoardX - CellSize + 1 .. BoardX + BoardCols * CellSize - 1
           /\ py \in BoardY - CellSize + 1 .. BoardY + BoardRows * CellSize - 1
<1>1. px - BoardX \in Int /\ py - BoardY \in Int /\ BoardX \in Int /\ BoardY \in Int
  BY ScreenAssumption
<1>2. Quotient(px - BoardX, CellSize) \in 0 .. BoardCols - 1 <=>
        px - BoardX \in -(CellSize - 1) .. BoardCols * CellSize - 1
  BY <1>1, QuotientBelow, ScreenAssumption
<1>3. Quotient(py - BoardY, CellSize) \in 0 .. BoardRows - 1 <=>
        py - BoardY \in -(CellSize - 1) .. BoardRows * CellSize - 1
  BY <1>1, QuotientBelow, ScreenAssumption
<1>4. BoardCols * CellSize \in Nat /\ BoardRows * CellSize \in Nat /\ CellSize \in Nat
  BY ScreenAssumption
<1>5. px - BoardX \in -(CellSize - 1) .. BoardCols * CellSize - 1 <=>
        px \in BoardX - CellSize + 1 .. BoardX + BoardCols * CellSize - 1
  BY <1>1, <1>4
<1>6. py - BoardY \in -(CellSize - 1) .. BoardRows * CellSize - 1 <=>
        py \in BoardY - CellSize + 1 .. BoardY + BoardRows * CellSize - 1
  BY <1>1, <1>4
<1>7. CellAt(px, py) \in BoardCells <=>
        /\ Quotient(px - BoardX, CellSize) \in 0 .. BoardCols - 1
        /\ Quotient(py - BoardY, CellSize) \in 0 .. BoardRows - 1
  BY DEF CellAt, BoardCells
<1> QED
  BY <1>2, <1>3, <1>5, <1>6, <1>7

\* A cell drawn where board_cell_to_pixel says is clicked there: every pixel of it,
\* from its top left corner on, is converted back to it.
THEOREM CellsRoundTrip ==
  ASSUME NEW c \in BoardCells, NEW i \in 0 .. CellSize - 1, NEW j \in 0 .. CellSize - 1
  PROVE  CellAt(PixelOf(c).x + i, PixelOf(c).y + j) = c
<1>1. c.col \in Nat /\ c.row \in Nat /\ c = [col |-> c.col, row |-> c.row]
  BY DEF BoardCells
<1>2. CellSize \in Nat \ {0} /\ BoardX \in Nat /\ BoardY \in Nat
  BY ScreenAssumption
<1>3. ASSUME NEW n \in Nat, NEW k \in 0 .. CellSize - 1
      PROVE  Quotient(n * CellSize + k, CellSize) = n
  <2>1. PICK a \in Nat : a = n * CellSize + k
    BY <1>2
  <2>2. PICK q \in Nat : q = a \div CellSize /\ CellSize * q <= a /\ a < CellSize * q + CellSize
    BY <1>2
  <2>3. q = n
    BY <1>2, <2>1, <2>2
  <2> QED
    BY <2>1, <2>2, <2>3 DEF Quotient
<1>4. c.col * CellSize \in Nat /\ c.row * CellSize \in Nat
  BY <1>1, <1>2
<1>5. (PixelOf(c).x + i) - BoardX = c.col * CellSize + i
  BY <1>2, <1>4 DEF PixelOf
<1>6. (PixelOf(c).y + j) - BoardY = c.row * CellSize + j
  BY <1>2, <1>4 DEF PixelOf
<1> QED
  BY <1>1, <1>3, <1>5, <1>6 DEF CellAt

----------------------------------------------------------------------------
(* The pointer and the cursor                                              *)

\* Whole numbers, as the union's words are on every path.
DataType == [ship_idx : Nat, orient : Nat, cursor_col : Nat, cursor_row : Nat]

\* What a screen that places ships needs of the words.
Placing(d) ==
  ShipCell(d) \in BoardCells /\ d.ship_idx \in 0 .. NumShips - 1 /\ d.orient \in {0, 1}

\* The words d are fit for a screen: a pause and the lobby keep them for the screen that
\* comes back or comes next, which does not set them itself.
Fit(d, screen) ==
  /\ d \in DataType /\ screen \in Modes
  /\ screen \in {"place", "heldPlace", "lobby"} => Placing(d)
  /\ screen \in {"turn", "heldTurn"} => ShotCell(d) \in BoardCells

\* The mouse's part of PointerSafe.
Assembled ==
  /\ buf \in Seq(Byte) /\ Len(buf) <= 2 /\ (buf # << >> => Sync(buf[1]))
  /\ ms \in MouseType
  /\ ms.clicked => mode = "theirs"

PointerInv == Assembled /\ Fit(data, mode)

LEMMA PointerInvSafe == PointerInv => PointerSafe
BY DEF PointerInv, Assembled, Fit, Placing, PointerSafe, MouseType

LEMMA Corners == Corner \in BoardCells /\ NumShips \in Nat \ {0}
BY ScreenAssumption, FleetAssumption DEF Corner, BoardCells

\* The words set to zero are fit for every screen.
LEMMA ZeroedFits ==
  ASSUME NEW screen \in Modes
  PROVE  Fit(Zeroed, screen)
<1>1. Zeroed \in DataType
  BY DEF Zeroed, DataType
<1>2. ShipCell(Zeroed) = Corner /\ ShotCell(Zeroed) = Corner
  BY DEF Zeroed, ShipCell, ShotCell, Corner
<1>3. Zeroed.ship_idx \in 0 .. NumShips - 1 /\ Zeroed.orient \in {0, 1}
  BY Corners DEF Zeroed
<1> QED
  BY <1>1, <1>2, <1>3, Corners DEF Fit, Placing

\* A cell as two words of the union.
LEMMA AimedFits ==
  ASSUME NEW d \in DataType, NEW c \in BoardCells
  PROVE  AimedAt(d, c) \in DataType /\ ShotCell(AimedAt(d, c)) = c
<1>1. c.col \in Nat /\ c.row \in Nat /\ c = [col |-> c.col, row |-> c.row]
  BY ScreenAssumption DEF BoardCells
<1>2. AimedAt(d, c) \in DataType
  BY <1>1 DEF AimedAt, DataType
<1>3. AimedAt(d, c).ship_idx = c.col /\ AimedAt(d, c).orient = c.row
  BY DEF AimedAt, DataType
<1> QED
  BY <1>1, <1>2, <1>3 DEF ShotCell

LEMMA PlacedFits ==
  ASSUME NEW d \in DataType, NEW c \in BoardCells
  PROVE  /\ PlacedAt(d, c) \in DataType /\ ShipCell(PlacedAt(d, c)) = c
         /\ PlacedAt(d, c).ship_idx = d.ship_idx /\ PlacedAt(d, c).orient = d.orient
<1>1. c.col \in Nat /\ c.row \in Nat /\ c = [col |-> c.col, row |-> c.row]
  BY ScreenAssumption DEF BoardCells
<1>2. PlacedAt(d, c) \in DataType
  BY <1>1 DEF PlacedAt, DataType
<1>3. /\ PlacedAt(d, c).cursor_col = c.col /\ PlacedAt(d, c).cursor_row = c.row
      /\ PlacedAt(d, c).ship_idx = d.ship_idx /\ PlacedAt(d, c).orient = d.orient
  BY DEF PlacedAt, DataType
<1> QED
  BY <1>1, <1>2, <1>3 DEF ShipCell

\* A turn may begin with any words.
LEMMA NewTurnFits ==
  ASSUME NEW d \in DataType, NEW screen \in {"turn", "theirs", "other"}
  PROVE  Fit(NewTurn(d), screen)
BY AimedFits, Corners DEF NewTurn, Fit, Modes

\* With every ship but the last ship_idx grows by one, and not past the last.
LEMMA PlaceShipFits ==
  ASSUME NEW d \in DataType, Placing(d), PlaceShip(d)
  PROVE  Fit(data', mode')
<1>1. CASE d.ship_idx + 1 < NumShips /\ Goes("place", PlacedAt([d EXCEPT !.ship_idx = @ + 1], Corner))
  <2>1. PICK e : e = [d EXCEPT !.ship_idx = @ + 1]
    OBVIOUS
  <2>2. e \in DataType /\ e.ship_idx = d.ship_idx + 1 /\ e.orient = d.orient
    BY <2>1 DEF DataType
  <2>3. PICK w : w = PlacedAt(e, Corner)
    OBVIOUS
  <2>4. /\ w \in DataType /\ ShipCell(w) = Corner
        /\ w.ship_idx = d.ship_idx + 1 /\ w.orient = d.orient
    BY <2>2, <2>3, PlacedFits, Corners
  <2>5. w.ship_idx \in 0 .. NumShips - 1 /\ w.orient \in {0, 1}
    BY <1>1, <2>4, Corners DEF Placing
  <2>6. Fit(w, "place")
    BY <2>4, <2>5, Corners DEF Fit, Placing, Modes
  <2>7. data' = w /\ mode' = "place"
    BY <1>1, <2>1, <2>3 DEF Goes
  <2> QED
    BY <2>6, <2>7
<1>2. CASE Goes("place", Zeroed)
  BY <1>2, ZeroedFits DEF Goes, Modes
<1>3. CASE \E words \in {Zeroed, d} : Goes("other", words)
  <2>1. Fit(d, "other") /\ Fit(Zeroed, "other")
    BY ZeroedFits DEF Fit, Modes
  <2> QED
    BY <1>3, <2>1 DEF Goes
<1> QED
  BY <1>1, <1>2, <1>3 DEF PlaceShip

LEMMA ChosenFits ==
  ASSUME Fit(data, mode), Chosen
  PROVE  Fit(data', mode')
<1>1. CASE \E screen \in {"place", "lobby"} : Goes(screen, Zeroed)
  BY <1>1, ZeroedFits DEF Goes, Modes
<1>2. CASE Goes("other", data)
  BY <1>2 DEF Goes, Fit, Modes
<1> QED
  BY <1>1, <1>2 DEF Chosen

\* A pause keeps the words.
LEMMA PauseFits ==
  ASSUME Fit(data, mode),
         \/ mode \in {"place", "turn"} /\ Pause
         \/ mode \in {"heldPlace", "heldTurn"} /\ Resumed
  PROVE  Fit(data', mode')
BY DEF Fit, Pause, Resumed, Goes, Modes

LEMMA FollowedCell ==
  ASSUME NEW m, NEW c \in BoardCells
  PROVE  Followed(m, c) \in BoardCells
BY DEF Followed

\* Whatever the game does with a packet, the words stay fit for its screen.
LEMMA UsedFits ==
  ASSUME NEW m, Fit(data, mode), Used(m)
  PROVE  Fit(data', mode')
<1>1. CASE UNCHANGED <<data, mode>>
  BY <1>1
<1>2. CASE /\ mode = "place"
           /\ \E d \in {PlacedAt(data, Followed(m, ShipCell(data)))} :
                Goes("place", d) \/ (m.clicked /\ PlaceShip(d))
  <2>1. data \in DataType /\ Placing(data) /\ ShipCell(data) \in BoardCells
    BY <1>2 DEF Fit, Placing
  <2>2. PICK c \in BoardCells : c = Followed(m, ShipCell(data))
    BY <2>1, FollowedCell
  <2>3. PICK d : d = PlacedAt(data, c)
    OBVIOUS
  <2>4. /\ d \in DataType /\ ShipCell(d) = c
        /\ d.ship_idx = data.ship_idx /\ d.orient = data.orient
    BY <2>1, <2>3, PlacedFits
  <2>5. Placing(d)
    BY <2>1, <2>4 DEF Placing
  <2>6. Goes("place", d) \/ PlaceShip(d)
    BY <1>2, <2>2, <2>3
  <2>7. CASE Goes("place", d)
    BY <2>4, <2>5, <2>7 DEF Goes, Fit, Modes
  <2> QED
    BY <2>4, <2>5, <2>6, <2>7, PlaceShipFits
<1>3. CASE mode = "turn" /\ Goes("turn", AimedAt(data, Followed(m, ShotCell(data))))
  <2>1. data \in DataType /\ ShotCell(data) \in BoardCells
    BY <1>3 DEF Fit
  <2>2. PICK c \in BoardCells : c = Followed(m, ShotCell(data))
    BY <2>1, FollowedCell
  <2>3. AimedAt(data, c) \in DataType /\ ShotCell(AimedAt(data, c)) = c
    BY <2>1, AimedFits
  <2>4. data' = AimedAt(data, c) /\ mode' = "turn"
    BY <1>3, <2>2 DEF Goes
  <2> QED
    BY <2>3, <2>4 DEF Fit, Modes
<1>4. CASE mode \in {"heldPlace", "heldTurn"} /\ m.clicked /\ Resumed
  BY <1>4, PauseFits
<1>5. CASE mode = "other" /\ m.clicked /\ Chosen
  BY <1>5, ChosenFits
<1> QED
  BY <1>1, <1>2, <1>3, <1>4, <1>5 DEF Used

LEMMA PointerStarts ==
  ASSUME PointerInit
  PROVE  PointerInv
<1>1. HRes \div 2 \in 0 .. HRes - 1 /\ VRes \div 2 \in 0 .. VRes - 1
  <2>1. ASSUME NEW n \in Nat \ {0} PROVE n \div 2 \in 0 .. n - 1
    <3>1. PICK h \in Nat : h = n \div 2 /\ 2 * h <= n
      OBVIOUS
    <3> QED
      BY <3>1
  <2> QED
    BY <2>1, ScreenAssumption
<1>2. Centred \in MouseType /\ Centred.clicked = FALSE
  BY <1>1 DEF Centred, MouseType
<1>3. Fit(Zeroed, "other")
  BY ZeroedFits DEF Modes
<1> QED
  BY <1>2, <1>3 DEF PointerInit, PointerInv, Assembled

\* The flags are cleared unless the opponent shoots.
LEMMA HandledSafe ==
  ASSUME NEW m \in MouseType, Fit(data, mode), Handled(m)
  PROVE  /\ ms' \in MouseType /\ Fit(data', mode')
         /\ ms'.clicked => mode' = "theirs"
<1>1. Unmoved(m) \in MouseType
  BY DEF Unmoved, MouseType
<1>2. Unclicked(m) \in MouseType /\ ~Unclicked(m).clicked
  BY DEF Unclicked, MouseType
<1>3. CASE mode = "theirs" /\ ms' = Unmoved(m) /\ UNCHANGED <<data, mode>>
  BY <1>1, <1>3
<1>4. CASE mode # "theirs" /\ ms' = Unclicked(m) /\ Used(m)
  BY <1>2, <1>4, UsedFits
<1> QED
  BY <1>3, <1>4 DEF Handled

\* Any byte may come at any time.
LEMMA ByteInSafe ==
  ASSUME PointerInv, NEW byte \in Byte, ByteIn(byte)
  PROVE  PointerInv'
<1>0. /\ ms \in MouseType /\ Fit(data, mode) /\ (ms.clicked => mode = "theirs")
      /\ buf \in Seq(Byte) /\ Len(buf) <= 2 /\ (buf # << >> => Sync(buf[1]))
  BY DEF PointerInv, Assembled
<1>1. CASE Skipped(byte) /\ UNCHANGED pointerVars
  BY <1>1 DEF pointerVars, PointerInv, Assembled
<1>2. CASE /\ ~Skipped(byte) /\ Len(buf) < 2
           /\ buf' = Append(buf, byte) /\ UNCHANGED <<ms, data, mode>>
  <2>1. buf' \in Seq(Byte) /\ Len(buf') <= 2
    BY <1>0, <1>2
  <2>2. Sync(buf'[1])
    <3>1. CASE buf = << >>
      BY <1>2, <3>1 DEF Skipped
    <3>2. CASE buf # << >>
      <4>1. buf'[1] = buf[1]
        BY <1>0, <1>2, <3>2
      <4> QED
        BY <1>0, <3>2, <4>1
    <3> QED
      BY <3>1, <3>2
  <2> QED
    BY <1>0, <1>2, <2>1, <2>2 DEF PointerInv, Assembled
<1>3. CASE /\ ~Skipped(byte) /\ Len(buf) = 2
           /\ buf' = << >> /\ Handled(Update(ms, Append(buf, byte)))
  <2>1. Append(buf, byte) \in Seq(Byte) /\ Len(Append(buf, byte)) = 3
    <3>1. Len(buf) = 2
      BY <1>3
    <3>2. Append(buf, byte) \in Seq(Byte) /\ Len(Append(buf, byte)) = Len(buf) + 1
      BY <1>0
    <3> QED
      BY <3>1, <3>2
  <2>2. PICK m \in MouseType : m = Update(ms, Append(buf, byte))
    BY <1>0, <2>1, UpdateType
  <2>3. ms' \in MouseType /\ Fit(data', mode') /\ (ms'.clicked => mode' = "theirs")
    BY <1>0, <1>3, <2>2, HandledSafe
  <2>4. buf' \in Seq(Byte) /\ Len(buf') <= 2 /\ buf' = << >>
    BY <1>3
  <2> QED
    BY <2>3, <2>4 DEF PointerInv, Assembled
<1> QED
  BY <1>1, <1>2, <1>3 DEF ByteIn

\* An arrow key stops at the board's edges.
LEMMA StepsOnBoard ==
  ASSUME NEW c, NEW n \in Steps(c)
  PROVE  n \in BoardCells
BY DEF Steps, Beside, BoardCells

LEMMA MoveCursorSafe ==
  ASSUME PointerInv, MoveCursor
  PROVE  PointerInv'
<1>1. Fit(data, mode)
  BY DEF PointerInv
<1>2. Fit(data', mode') /\ mode' = mode
  <2>1. CASE mode = "place" /\ \E c \in Steps(ShipCell(data)) : Goes("place", PlacedAt(data, c))
    <3>1. PICK c \in BoardCells : Goes("place", PlacedAt(data, c))
      BY <2>1, StepsOnBoard
    <3>2. PICK d : d = PlacedAt(data, c) /\ data' = d /\ mode' = "place"
      BY <3>1 DEF Goes
    <3>3. /\ d \in DataType /\ ShipCell(d) = c
          /\ d.ship_idx = data.ship_idx /\ d.orient = data.orient
      BY <1>1, <3>2, PlacedFits DEF Fit
    <3> QED
      BY <1>1, <2>1, <3>2, <3>3 DEF Fit, Placing, Modes
  <2>2. CASE mode = "place" /\ Goes("place", Flipped(data))
    <3>1. data \in DataType /\ Placing(data)
      BY <1>1, <2>2 DEF Fit
    <3>2. data.orient \in {0, 1} /\ 0 % 2 = 0 /\ 1 % 2 = 1
      BY <3>1 DEF Placing
    <3>3. PICK o \in {0, 1} : Flipped(data) = [data EXCEPT !.orient = o]
      <4>1. CASE data.orient = 0
        BY <3>1, <3>2, <4>1 DEF Flipped, DataType
      <4>2. CASE data.orient = 1
        BY <3>1, <3>2, <4>2 DEF Flipped, DataType
      <4> QED
        BY <3>2, <4>1, <4>2
    <3>4. PICK d : d = [data EXCEPT !.orient = o] /\ data' = d /\ mode' = "place"
      BY <2>2, <3>3 DEF Goes
    <3>5. /\ d \in DataType /\ d.orient = o /\ d.ship_idx = data.ship_idx
          /\ d.cursor_col = data.cursor_col /\ d.cursor_row = data.cursor_row
      BY <3>1, <3>4 DEF DataType
    <3>6. Placing(d)
      BY <3>1, <3>5 DEF Placing, ShipCell
    <3> QED
      BY <2>2, <3>4, <3>5, <3>6 DEF Fit, Modes
  <2>3. CASE mode = "turn" /\ \E c \in Steps(ShotCell(data)) : Goes("turn", AimedAt(data, c))
    <3>1. PICK c \in BoardCells : Goes("turn", AimedAt(data, c))
      BY <2>3, StepsOnBoard
    <3>2. AimedAt(data, c) \in DataType /\ ShotCell(AimedAt(data, c)) = c
      BY <1>1, AimedFits DEF Fit
    <3> QED
      BY <2>3, <3>1, <3>2 DEF Goes, Fit, Modes
  <2> QED
    BY <2>1, <2>2, <2>3 DEF MoveCursor
<1>3. UNCHANGED <<buf, ms>>
  BY DEF MoveCursor
<1> QED
  BY <1>2, <1>3 DEF PointerInv, Assembled

\* A change of the screen clears the flags.
LEMMA ScreenSafe ==
  ASSUME PointerInv, ms' = Unclicked(ms), UNCHANGED buf, Fit(data', mode')
  PROVE  PointerInv'
<1>1. Unclicked(ms) \in MouseType /\ ~Unclicked(ms).clicked
  BY DEF PointerInv, Assembled, Unclicked, MouseType
<1> QED
  BY <1>1 DEF PointerInv, Assembled

LEMMA KeyScreenSafe ==
  ASSUME PointerInv, KeyScreen
  PROVE  PointerInv'
<1>1. Fit(data, mode) /\ ms' = Unclicked(ms) /\ UNCHANGED buf
  BY DEF PointerInv, KeyScreen
<1>2. CASE mode = "place" /\ PlaceShip(data)
  BY <1>1, <1>2, PlaceShipFits, ScreenSafe DEF Fit
<1>3. CASE \/ mode \in {"place", "turn"} /\ Pause
           \/ mode \in {"heldPlace", "heldTurn"} /\ Resumed
  BY <1>1, <1>3, PauseFits, ScreenSafe
<1>4. CASE mode = "other" /\ Chosen
  BY <1>1, <1>4, ChosenFits, ScreenSafe
<1> QED
  BY <1>2, <1>3, <1>4 DEF KeyScreen

LEMMA NewScreenSafe ==
  ASSUME PointerInv, NewScreen
  PROVE  PointerInv'
<1>1. Fit(data, mode) /\ ms' = Unclicked(ms) /\ UNCHANGED buf /\ data \in DataType
  BY DEF PointerInv, NewScreen, Fit
<1>2. Fit(data', mode')
  <2>1. CASE \E screen \in {"turn", "theirs", "other"} : Goes(screen, NewTurn(data))
    BY <1>1, <2>1, NewTurnFits DEF Goes
  <2>2. CASE Goes("other", data)
    BY <1>1, <2>2 DEF Goes, Fit, Modes
  <2>3. CASE mode = "lobby" /\ Goes("place", data)
    BY <1>1, <2>3 DEF Goes, Fit, Modes
  <2>4. CASE Goes("place", Zeroed)
    BY <2>4, ZeroedFits DEF Goes, Modes
  <2> QED
    BY <2>1, <2>2, <2>3, <2>4 DEF NewScreen, TimerScreen, MessageScreen
<1> QED
  BY <1>1, <1>2, ScreenSafe

\* Every step of the pointer, or none, keeps the words fit for the screen.
THEOREM PointerStep ==
  ASSUME PointerInv, [PointerNext]_pointerVars
  PROVE  PointerInv'
<1>1. CASE \E byte \in Byte : ByteIn(byte)
  BY <1>1, ByteInSafe
<1>2. CASE MoveCursor
  BY <1>2, MoveCursorSafe
<1>3. CASE KeyScreen
  BY <1>3, KeyScreenSafe
<1>4. CASE NewScreen
  BY <1>4, NewScreenSafe
<1>5. CASE UNCHANGED pointerVars
  BY <1>5 DEF pointerVars, PointerInv, Assembled
<1> QED
  BY <1>1, <1>2, <1>3, <1>4, <1>5 DEF PointerNext

\* The pointer stays on the screen, no click is held back but while the opponent shoots,
\* and where ships are placed or shots fired the union holds a cell of the board and a
\* ship of the fleet, although each screen takes the words as it finds them
\* (game.c:42-49): whatever bytes the mouse sends and whatever the screens are before.
THEOREM PointerCorrect == PointerSpec => []PointerSafe
<1>1. PointerInit => PointerInv
  BY PointerStarts
<1>2. PointerInv /\ [PointerNext]_pointerVars => PointerInv'
  BY PointerStep
<1> QED
  BY <1>1, <1>2, PointerInvSafe, PTL DEF PointerSpec

----------------------------------------------------------------------------
(* What has to hold of the devices                                         *)

OutByte == [dev : Devs \cup {"none"}, val : Byte, bad : BOOLEAN]

\* What every variable may hold.
Typed ==
  /\ pc \in Setup \cup {"run", "leave", "silence", "answer", "release", "ended"}
  /\ status \in {"none", "refused", "ok", "failed"}
  /\ held \subseteq Setup
  /\ obuf \in OutByte /\ (obuf # Empty => obuf.dev \in Devs)
  /\ mq \in Seq(Byte) /\ Len(mq) <= 3
  /\ keys \in Nat
  /\ flagged \subseteq Devs /\ irqs \subseteq Devs
  /\ tries \in Nat /\ mishaps \in Nat /\ mishaps <= MaxMishaps
  /\ calm \in BOOLEAN

\* What is held when a step of the set-up is about to be taken.
Before(step) ==
  CASE step = "video"  -> {}
    [] step = "rate"   -> {"video"}
    [] step = "timer"  -> {"video", "rate"}
    [] step = "kbd"    -> {"video", "rate", "timer"}
    [] step = "mouse"  -> {"video", "rate", "timer", "kbd"}
    [] step = "stream" -> {"video", "rate", "timer", "kbd", "mouse"}
    [] step = "uart"   -> {"video", "rate", "timer", "kbd", "mouse", "stream"}
    [] step = "run"    -> Setup

Live == pc \in Setup \cup {"run"}

\* Set-up takes things in order, clean-up gives them back.
HeldInOrder ==
  /\ Live => held = Before(pc)
  /\ pc = "leave" => held = Setup
  /\ pc \in {"silence", "answer", "release"} => "uart" \notin held
  /\ status # "none" <=> pc = "ended"
  /\ status = "refused" => held \cap Lines = {}
  /\ status = "ok" => held \subseteq {"rate", "stream"}

\* Up to the end of the main loop a byte in the controller is noted, and nothing
\* waits but on a device whose interrupt is subscribed.
Noted ==
  Live =>
    /\ obuf # Empty => obuf.dev \in flagged \cup irqs
    /\ keys > 0 => "kbd" \in held
    /\ mq # << >> => {"mouse", "stream"} \subseteq held

\* Up to then the mouse's bytes are packets.
Packeted ==
  Live =>
    /\ Len(mq) = 3 => Sync(mq[1])
    /\ obuf.dev = "mouse" /\ Len(mq) = 2 => Sync(obuf.val)

\* The mouse's byte in the controller acknowledges, if there is one.
OnlyAckHeld == obuf.dev = "mouse" => obuf.val = Ack

\* The mouse has told of the last command it heard; misheard ones and one byte that
\* was in the controller before are all that can cost another try.
Counted ==
  /\ Live \/ pc = "leave" => tries = 0
  /\ pc = "silence" =>
       \/ "stream" \in held /\ tries <= mishaps
       \/ /\ "stream" \notin held /\ tries <= mishaps + 1
          /\ mq = << >> \/ mq = <<Ack>>
          /\ OnlyAckHeld
  /\ pc = "answer" /\ "stream" \in held =>
       /\ tries <= mishaps
       /\ mq = <<Nack>> \/ (mq = << >> /\ obuf # Empty /\ obuf.val = Nack)
  /\ pc = "answer" /\ "stream" \notin held =>
       /\ \/ tries <= mishaps + 1
          \/ tries <= mishaps + 2 /\ (mq = << >> \/ mq = <<Ack>>) /\ OnlyAckHeld
       /\ \/ mq = <<Ack>>
          \/ mq = << >> /\ obuf # Empty
          \/ mq = <<Nack>> /\ OnlyAckHeld
  /\ pc = "release" /\ "stream" \in held => mq # << >> \/ obuf # Empty

\* When things are calm no byte can be mistaken for an answer.
Calmed ==
  calm =>
    /\ keys = 0 /\ status # "failed"
    /\ \A i \in 1 .. Len(mq) : mq[i] # Error /\ ("stream" \in held => mq[i] # Ack)
    /\ obuf # Empty =>
         /\ obuf.dev = "mouse" /\ ~obuf.bad /\ obuf.val # Error
         /\ "stream" \in held => obuf.val # Ack
    /\ pc = "release" => "stream" \notin held
    /\ status = "ok" => held \subseteq {"rate"}

DevicesInv == Typed /\ HeldInOrder /\ Noted /\ Packeted /\ Counted /\ Calmed

----------------------------------------------------------------------------
(* What the actions do                                                     *)

\* The step taken is one of the actions, or none.
LEMMA StepCases ==
  ASSUME [Next]_vars
  PROVE  \/ Key \/ Move
         \/ pc # "ended" /\ CalmDown
         \/ pc # "ended" /\ LoadMouse
         \/ pc # "ended" /\ LoadKey
         \/ \E step \in Setup : Done(step)
         \/ \E step \in Setup : Refused(step)
         \/ Receive \/ HandleMouse \/ HandleKeyboard \/ ScreenChanges \/ LeaveLoop
         \/ CloseSerial \/ Command \/ Answer \/ Release
         \/ UNCHANGED vars
BY DEF Next, User, Controller, Start, Loop, Finish

\* No byte without the sync bit, and no first byte of a small movement, is taken
\* for an acknowledgement or an error.
LEMMA AnswersLookLarge ==
  ASSUME NEW b \in Byte, ~Sync(b) \/ ~Overflown(b)
  PROVE  b # Ack /\ b # Error
<1>1. Sync(250) /\ Sync(252)
  BY DEF Sync, Has
<1>2. Overflown(250) /\ Overflown(252)
  BY DEF Overflown, Has
<1> QED
  BY <1>1, <1>2 DEF Ack, Error

\* A packet is a sequence of three bytes, the first with the sync bit.
LEMMA MoveGives ==
  ASSUME Move
  PROVE  /\ "stream" \in held /\ mq = << >> /\ pc # "answer"
         /\ mq' \in Seq(Byte) /\ Len(mq') = 3 /\ Sync(mq'[1])
         /\ calm => \A i \in 1 .. 3 : mq'[i] # Ack /\ mq'[i] # Error
         /\ UNCHANGED <<pc, status, held, obuf, keys, flagged, irqs, tries, mishaps, calm>>
<1>1. PICK p \in Packets : mq' = p /\ (calm => Gentle(p))
  BY DEF Move
<1>2. p \in Seq(Byte) /\ Len(p) = 3
  BY DevicesAssumption
<1>3. Sync(p[1])
  BY DevicesAssumption
<1>4. p[1] \in Byte /\ p[2] \in Byte /\ p[3] \in Byte
  BY <1>2
<1>5. CASE Gentle(p)
  <2>1. ~Overflown(p[1]) /\ ~Sync(p[2]) /\ ~Sync(p[3])
    BY <1>5 DEF Gentle
  <2>2. p[1] # Ack /\ p[1] # Error /\ p[2] # Ack /\ p[2] # Error /\ p[3] # Ack /\ p[3] # Error
    BY <1>4, <2>1, AnswersLookLarge
  <2>3. \A i \in 1 .. 3 : p[i] # Ack /\ p[i] # Error
    BY <2>2
  <2> QED
    BY <1>1, <1>2, <1>3, <2>3 DEF Move
<1>6. CASE ~Gentle(p)
  BY <1>1, <1>2, <1>3, <1>6 DEF Move
<1> QED
  BY <1>5, <1>6

\* What the controller takes is noted if its device's interrupt is subscribed, and
\* in good order when things are calm.
LEMMA LoadGives ==
  ASSUME Typed, NEW d \in Devs, NEW v \in Byte, NEW bad \in BOOLEAN, Load(d, v, bad)
  PROVE  /\ obuf' \in OutByte /\ obuf' # Empty
         /\ obuf'.dev = d /\ obuf'.val = v /\ obuf'.bad = bad
         /\ obuf = Empty
         /\ flagged' = flagged \cup ({d} \cap held)
         /\ bad => ~calm
         /\ mishaps' \in Nat /\ mishaps <= mishaps' /\ mishaps' <= MaxMishaps
         /\ UNCHANGED <<pc, status, held, irqs, tries, calm>>
<1>1. obuf' = [dev |-> d, val |-> v, bad |-> bad] /\ obuf = Empty
  BY DEF Load
<1>2. d # "none"
  BY DEF Devs
<1>3. obuf' \in OutByte /\ obuf'.dev = d /\ obuf'.val = v /\ obuf'.bad = bad
  BY <1>1 DEF OutByte
<1>4. obuf' # Empty
  BY <1>2, <1>3 DEF Empty
<1>5. mishaps' \in Nat /\ mishaps <= mishaps' /\ mishaps' <= MaxMishaps
  BY DevicesAssumption DEF Load, Typed
<1>6. flagged' = flagged \cup ({d} \cap held) /\ (bad => ~calm)
  BY DEF Load
<1>7. UNCHANGED <<pc, status, held, irqs, tries, calm>>
  BY DEF Load
<1> QED
  BY <1>1, <1>3, <1>4, <1>5, <1>6, <1>7

\* The mouse's next byte.
LEMMA LoadMouseGives ==
  ASSUME Typed, LoadMouse
  PROVE  /\ obuf' \in OutByte /\ obuf' # Empty /\ obuf'.dev = "mouse" /\ obuf = Empty
         /\ mq # << >> /\ obuf'.val = mq[1] /\ mq' = Tail(mq)
         /\ mq' \in Seq(Byte) /\ Len(mq) = Len(mq') + 1 /\ \A i \in 1 .. Len(mq') : mq'[i] = mq[i + 1]
         /\ flagged' = flagged \cup ({"mouse"} \cap held)
         /\ calm => ~obuf'.bad
         /\ mishaps' \in Nat /\ mishaps <= mishaps' /\ mishaps' <= MaxMishaps
         /\ UNCHANGED <<pc, status, held, irqs, tries, calm, keys>>
<1>1. PICK bad \in BOOLEAN : Load("mouse", Head(mq), bad)
  BY DEF LoadMouse
<1>2. mq \in Seq(Byte) /\ mq # << >>
  BY DEF LoadMouse, Typed
<1>3. Head(mq) \in Byte /\ Head(mq) = mq[1]
  BY <1>2
<1>4. /\ Tail(mq) \in Seq(Byte) /\ Len(mq) = Len(Tail(mq)) + 1
      /\ \A i \in 1 .. Len(Tail(mq)) : Tail(mq)[i] = mq[i + 1]
  BY <1>2
<1>5. mq' = Tail(mq) /\ keys' = keys
  BY DEF LoadMouse
<1>6. "mouse" \in Devs
  BY DEF Devs
<1>7. /\ obuf' \in OutByte /\ obuf' # Empty
      /\ obuf'.dev = "mouse" /\ obuf'.val = Head(mq) /\ obuf'.bad = bad
      /\ obuf = Empty
      /\ flagged' = flagged \cup ({"mouse"} \cap held)
      /\ bad => ~calm
      /\ mishaps' \in Nat /\ mishaps <= mishaps' /\ mishaps' <= MaxMishaps
      /\ UNCHANGED <<pc, status, held, irqs, tries, calm>>
  BY <1>1, <1>3, <1>6, LoadGives
<1>8. calm => ~obuf'.bad
  BY <1>7
<1> QED
  BY <1>2, <1>3, <1>4, <1>5, <1>7, <1>8

\* The keyboard's.
LEMMA LoadKeyGives ==
  ASSUME Typed, LoadKey
  PROVE  /\ obuf' \in OutByte /\ obuf' # Empty /\ obuf'.dev = "kbd" /\ obuf = Empty
         /\ keys > 0 /\ keys' = keys - 1 /\ keys' \in Nat
         /\ flagged' = flagged \cup ({"kbd"} \cap held)
         /\ mishaps' \in Nat /\ mishaps <= mishaps' /\ mishaps' <= MaxMishaps
         /\ UNCHANGED <<pc, status, held, irqs, tries, calm, mq>>
<1>1. PICK bad \in BOOLEAN : Load("kbd", 0, bad)
  BY DEF LoadKey
<1>2. "kbd" \in Devs /\ 0 \in Byte
  BY DEF Devs, Byte
<1>3. /\ obuf' \in OutByte /\ obuf' # Empty /\ obuf'.dev = "kbd" /\ obuf = Empty
      /\ flagged' = flagged \cup ({"kbd"} \cap held)
      /\ mishaps' \in Nat /\ mishaps <= mishaps' /\ mishaps' <= MaxMishaps
      /\ UNCHANGED <<pc, status, held, irqs, tries, calm>>
  BY <1>1, <1>2, LoadGives
<1>4. keys > 0 /\ keys' = keys - 1 /\ keys' \in Nat /\ mq' = mq
  BY DEF LoadKey, Typed
<1> QED
  BY <1>3, <1>4

\* A step of the set-up leaves the controller as it is or reads it out.
LEMMA DoneGives ==
  ASSUME NEW step \in Setup, Done(step)
  PROVE  /\ pc = step /\ pc' = After(step) /\ held' = held \cup {step}
         /\ \/ obuf' = obuf /\ flagged' = flagged
            \/ obuf' = Empty /\ flagged' = flagged \cup {"mouse"}
         /\ UNCHANGED <<status, mq, keys, irqs, tries, mishaps, calm>>
<1>1. CASE step = "stream"
  BY <1>1 DEF Done, PolledAnswer
<1>2. CASE step # "stream"
  BY <1>2 DEF Done
<1> QED
  BY <1>1, <1>2

\* The mouse hears the command, or does not and says so.
LEMMA CommandGives ==
  ASSUME Command
  PROVE  /\ pc = "silence" /\ pc' = "answer" /\ tries' = tries + 1
         /\ \/ mq' = <<Ack>> /\ held' = held \ {"stream"} /\ mishaps' = mishaps
            \/ /\ mq' = <<Nack>> /\ held' = held
               /\ ~calm /\ mishaps < MaxMishaps /\ mishaps' = mishaps + 1
         /\ UNCHANGED <<status, obuf, keys, flagged, irqs, calm>>
BY DEF Command

\* The answer ends the waiting, asks for another try, or ends the program.
LEMMA AnswerGives ==
  ASSUME Answer
  PROVE  /\ pc = "answer" /\ obuf # Empty /\ obuf' = Empty
         /\ \/ /\ ~obuf.bad /\ obuf.dev = "mouse" /\ obuf.val = Ack
               /\ pc' = "release" /\ status' = status
            \/ /\ ~obuf.bad /\ obuf.dev = "mouse" /\ obuf.val # Ack /\ tries # MaxTries
               /\ pc' = "silence" /\ status' = status
            \/ /\ \/ obuf.bad \/ obuf.dev # "mouse" \/ obuf.val = Error
                  \/ obuf.val # Ack /\ tries = MaxTries
               /\ pc' = "ended" /\ status' = "failed"
         /\ UNCHANGED <<held, mq, keys, flagged, irqs, tries, mishaps, calm>>
BY DEF Answer, Verdict, Ack, Error


----------------------------------------------------------------------------
(* The invariant is kept, part by part                                     *)

\* Both handlers of the controller's interrupts read it out.
LEMMA HandlersGive ==
  ASSUME HandleMouse \/ HandleKeyboard
  PROVE  /\ pc = "run" /\ obuf' = Empty
         /\ \E dev \in Devs : dev \in irqs /\ irqs' = irqs \ {dev}
         /\ UNCHANGED <<pc, status, held, mq, keys, flagged, tries, mishaps, calm>>
BY DEF HandleMouse, HandleKeyboard, ReadOut, Devs

\* An empty buffer holds no byte of any device, and no answer.
LEMMA EmptyIsByte ==
  /\ Empty \in OutByte /\ Empty.dev = "none" /\ Empty.bad = FALSE
  /\ Empty.val # Ack /\ Empty.val # Error
BY DEF Empty, OutByte, Byte, Ack, Error

\* An answer is one byte.
LEMMA OneByte ==
  ASSUME NEW s, s = <<Ack>> \/ s = <<Nack>>
  PROVE  s \in Seq(Byte) /\ Len(s) = 1
<1>1. Ack \in Byte /\ Nack \in Byte
  BY DEF Ack, Nack, Byte
<1>2. CASE s = <<Ack>>
  BY <1>1, <1>2
<1>3. CASE s = <<Nack>>
  BY <1>1, <1>3
<1> QED
  BY <1>2, <1>3

\* The set-up goes on by one step at a time.
LEMMA AfterIn ==
  ASSUME NEW step \in Setup
  PROVE  /\ After(step) \in Setup \cup {"run"}
         /\ Before(After(step)) = Before(step) \cup {step}
         /\ step \notin Before(step)
BY DEF After, Before, Setup

\* No step takes a variable out of its type.
LEMMA TypedStep ==
  ASSUME DevicesInv, [Next]_vars
  PROVE  Typed'
<1>0. Typed
  BY DEF DevicesInv
<1>1. CASE Key \/ CalmDown
  <2>1. keys' \in Nat
    BY <1>0, <1>1 DEF Key, CalmDown, Typed, hardware
  <2>3. calm' \in BOOLEAN
    BY <1>0, <1>1 DEF Key, CalmDown, Typed
  <2>2. UNCHANGED <<pc, status, held, obuf, mq, flagged, irqs, tries, mishaps>>
    BY <1>1 DEF Key, CalmDown, hardware
  <2> QED
    BY <1>0, <2>1, <2>2, <2>3 DEF Typed
<1>2. CASE Move
  <2>1. mq' \in Seq(Byte) /\ Len(mq') = 3
    BY <1>2, MoveGives
  <2>2. UNCHANGED <<pc, status, held, obuf, keys, flagged, irqs, tries, mishaps, calm>>
    BY <1>2, MoveGives
  <2> QED
    BY <1>0, <2>1, <2>2 DEF Typed
<1>3. CASE LoadMouse
  <2>1. mq' \in Seq(Byte) /\ Len(mq') <= 3
    <3>1. mq' \in Seq(Byte) /\ Len(mq) = Len(mq') + 1
      BY <1>0, <1>3, LoadMouseGives
    <3>2. Len(mq) <= 3 /\ Len(mq') \in Nat
      BY <1>0, <3>1 DEF Typed
    <3> QED
      BY <3>1, <3>2
  <2>2. flagged' \subseteq Devs
    BY <1>0, <1>3, LoadMouseGives DEF Typed, Devs
  <2>3. obuf' \in OutByte /\ obuf'.dev \in Devs
    BY <1>0, <1>3, LoadMouseGives DEF Devs
  <2> QED
    BY <1>0, <1>3, <2>1, <2>2, <2>3, LoadMouseGives DEF Typed
<1>4. CASE LoadKey
  <2>2. flagged' \subseteq Devs
    BY <1>0, <1>4, LoadKeyGives DEF Typed, Devs
  <2>3. obuf' \in OutByte /\ obuf'.dev \in Devs
    BY <1>0, <1>4, LoadKeyGives DEF Devs
  <2> QED
    BY <1>0, <1>4, <2>2, <2>3, LoadKeyGives DEF Typed
<1>5. ASSUME NEW step \in Setup, Done(step) PROVE Typed'
  <2>1. pc' \in Setup \cup {"run"} /\ held' \subseteq Setup
    BY <1>0, <1>5, DoneGives, AfterIn DEF Typed
  <2>2. flagged' \subseteq Devs
    BY <1>0, <1>5, DoneGives DEF Typed, Devs
  <2>3. obuf' \in OutByte /\ (obuf' # Empty => obuf'.dev \in Devs)
    BY <1>0, <1>5, DoneGives, EmptyIsByte DEF Typed
  <2> QED
    BY <1>0, <1>5, <2>1, <2>2, <2>3, DoneGives DEF Typed
<1>6. ASSUME NEW step \in Setup, Refused(step) PROVE Typed'
  BY <1>0, <1>6 DEF Refused, Typed, hardware
<1>7. CASE Receive
  BY <1>0, <1>7 DEF Receive, Typed, hardware
<1>8. CASE HandleMouse \/ HandleKeyboard
  BY <1>0, <1>8, HandlersGive, EmptyIsByte DEF Typed
<1>9. CASE ScreenChanges \/ LeaveLoop
  BY <1>0, <1>9 DEF ScreenChanges, LeaveLoop, Typed, hardware
<1>10. CASE CloseSerial
  BY <1>0, <1>10 DEF CloseSerial, Typed, hardware
<1>11. CASE Command
  <2>1. mq' \in Seq(Byte) /\ Len(mq') <= 3
    <3>1. mq' = <<Ack>> \/ mq' = <<Nack>>
      BY <1>11, CommandGives
    <3>2. mq' \in Seq(Byte) /\ Len(mq') = 1
      BY <3>1, OneByte
    <3> QED
      BY <3>2
  <2>2. mishaps' \in Nat /\ mishaps' <= MaxMishaps
    BY <1>0, <1>11, CommandGives, DevicesAssumption DEF Typed
  <2>3. held' \subseteq Setup /\ tries' \in Nat /\ pc' = "answer"
    BY <1>0, <1>11, CommandGives DEF Typed
  <2>4. UNCHANGED <<status, obuf, keys, flagged, irqs, calm>>
    BY <1>11, CommandGives
  <2> QED
    BY <1>0, <2>1, <2>2, <2>3, <2>4 DEF Typed
<1>12. CASE Answer
  BY <1>0, <1>12, AnswerGives, EmptyIsByte DEF Typed
<1>13. CASE Release
  BY <1>0, <1>13 DEF Release, Typed, hardware
<1>14. CASE UNCHANGED vars
  BY <1>0, <1>14 DEF Typed, vars
<1> QED
  BY <1>1, <1>2, <1>3, <1>4, <1>5, <1>6, <1>7, <1>8, <1>9, <1>10, <1>11, <1>12, <1>13, <1>14, StepCases

\* Nothing is held twice, forgotten or given back too early.
LEMMA HeldStep ==
  ASSUME DevicesInv, [Next]_vars
  PROVE  HeldInOrder'
<1>0. Typed /\ HeldInOrder /\ (pc # "ended" => status = "none")
  BY DEF DevicesInv, HeldInOrder
<1>1. ASSUME UNCHANGED <<pc, held, status>> PROVE HeldInOrder'
  BY <1>0, <1>1 DEF HeldInOrder, Live, Before, Lines
<1>2. CASE Key \/ CalmDown \/ Receive \/ ScreenChanges
  BY <1>1, <1>2 DEF Key, CalmDown, Receive, ScreenChanges
<1>3. CASE Move
  BY <1>1, <1>3, MoveGives
<1>4. CASE LoadMouse \/ LoadKey
  BY <1>0, <1>1, <1>4, LoadMouseGives, LoadKeyGives
<1>5. CASE HandleMouse \/ HandleKeyboard
  BY <1>1, <1>5, HandlersGive
<1>6. ASSUME NEW step \in Setup, Done(step) PROVE HeldInOrder'
  <2>1. pc = step /\ pc' = After(step) /\ held' = held \cup {step} /\ status' = status
    BY <1>6, DoneGives
  <2>2. held = Before(step) /\ status = "none"
    BY <1>0, <2>1 DEF HeldInOrder, Live, Setup
  <2>3. pc' \in Setup \cup {"run"} /\ held' = Before(pc')
    BY <2>1, <2>2, AfterIn
  <2> QED
    BY <2>1, <2>2, <2>3 DEF HeldInOrder, Setup
<1>7. ASSUME NEW step \in Setup, Refused(step) PROVE HeldInOrder'
  <2>1. held = Before(step)
    BY <1>0, <1>7 DEF HeldInOrder, Live, Refused
  <2>2. held' \cap Lines = {}
    BY <1>7, <2>1 DEF Refused, Before, Undone, Lines, Setup
  <2> QED
    BY <1>7, <2>2 DEF Refused, HeldInOrder, Live, Setup
<1>8. CASE LeaveLoop
  <2>1. pc' = "leave" /\ held' = held /\ status' = status /\ pc = "run"
    BY <1>8 DEF LeaveLoop
  <2>2. held = Setup /\ status = "none"
    BY <1>0, <2>1 DEF HeldInOrder, Live, Before
  <2> QED
    BY <2>1, <2>2 DEF HeldInOrder, Live, Setup
<1>13. CASE CloseSerial
  BY <1>0, <1>13 DEF CloseSerial, HeldInOrder, Live, Setup
<1>9. CASE Command
  BY <1>0, <1>9, CommandGives DEF HeldInOrder, Live, Setup
<1>10. CASE Answer
  BY <1>0, <1>10, AnswerGives DEF HeldInOrder, Live, Setup
<1>11. CASE Release
  BY <1>0, <1>11 DEF Release, HeldInOrder, Live, Setup, Typed
<1>12. CASE UNCHANGED vars
  BY <1>1, <1>12 DEF vars
<1> QED
  BY <1>2, <1>3, <1>4, <1>5, <1>6, <1>7, <1>8, <1>9, <1>10, <1>11, <1>12, <1>13, StepCases

\* No byte loses its interrupt.
LEMMA NotedStep ==
  ASSUME DevicesInv, [Next]_vars
  PROVE  Noted'
<1>0. Typed /\ HeldInOrder /\ Noted
  BY DEF DevicesInv
<1>1. CASE Key
  BY <1>0, <1>1 DEF Key, KeysLive, Noted, Live
<1>2. CASE CalmDown \/ ScreenChanges \/ LeaveLoop
  BY <1>0, <1>2 DEF CalmDown, ScreenChanges, LeaveLoop, hardware, Noted, Live, Setup
<1>3. CASE Move
  <2>1. "stream" \in held /\ UNCHANGED <<pc, held, obuf, keys, flagged, irqs>>
    BY <1>3, MoveGives
  <2>2. Live => "mouse" \in held
    BY <1>0, <2>1 DEF HeldInOrder, Live, Before, Setup
  <2> QED
    BY <1>0, <2>1, <2>2 DEF Noted, Live
<1>4. CASE LoadMouse
  BY <1>0, <1>4, LoadMouseGives DEF Noted, Live
<1>5. CASE LoadKey
  BY <1>0, <1>5, LoadKeyGives DEF Noted, Live
<1>6. ASSUME NEW step \in Setup, Done(step) PROVE Noted'
  BY <1>0, <1>6, DoneGives DEF Noted, Live
<1>7. ASSUME NEW step \in Setup, Refused(step) PROVE Noted'
  BY <1>7 DEF Refused, Noted, Live, Setup
<1>8. CASE Receive
  BY <1>0, <1>8 DEF Receive, hardware, Noted, Live
<1>9. CASE HandleMouse \/ HandleKeyboard
  BY <1>0, <1>9, HandlersGive DEF Noted, Live
<1>10. CASE CloseSerial \/ Release
  BY <1>10 DEF CloseSerial, Release, Noted, Live, Setup
<1>11. CASE Command \/ Answer
  BY <1>11, CommandGives, AnswerGives DEF Noted, Live, Setup
<1>12. CASE UNCHANGED vars
  BY <1>0, <1>12 DEF vars, Noted, Live
<1> QED
  BY <1>1, <1>2, <1>3, <1>4, <1>5, <1>6, <1>7, <1>8, <1>9, <1>10, <1>11, <1>12, StepCases

\* The mouse's bytes stay in order.
LEMMA PacketedStep ==
  ASSUME DevicesInv, [Next]_vars
  PROVE  Packeted'
<1>0. Typed /\ Packeted
  BY DEF DevicesInv
<1>1. CASE Key \/ CalmDown \/ ScreenChanges \/ LeaveLoop
  BY <1>0, <1>1 DEF Key, CalmDown, ScreenChanges, LeaveLoop, hardware, Packeted, Live, Setup
<1>3. CASE Move
  BY <1>0, <1>3, MoveGives DEF Packeted, Live
<1>4. CASE LoadMouse
  <2>1. Len(mq) = Len(mq') + 1 /\ Len(mq') \in Nat /\ Len(mq) <= 3
    BY <1>0, <1>4, LoadMouseGives DEF Typed
  <2>2. obuf'.val = mq[1] /\ pc' = pc
    BY <1>0, <1>4, LoadMouseGives
  <2> QED
    BY <1>0, <2>1, <2>2 DEF Packeted, Live
<1>5. CASE LoadKey
  BY <1>0, <1>5, LoadKeyGives DEF Packeted, Live
<1>6. ASSUME NEW step \in Setup, Done(step) PROVE Packeted'
  BY <1>0, <1>6, DoneGives, EmptyIsByte DEF Packeted, Live
<1>7. ASSUME NEW step \in Setup, Refused(step) PROVE Packeted'
  BY <1>7 DEF Refused, Packeted, Live, Setup
<1>8. CASE Receive
  BY <1>0, <1>8 DEF Receive, hardware, Packeted, Live
<1>9. CASE HandleMouse \/ HandleKeyboard
  BY <1>0, <1>9, HandlersGive, EmptyIsByte DEF Packeted, Live
<1>10. CASE CloseSerial \/ Release
  BY <1>10 DEF CloseSerial, Release, Packeted, Live, Setup
<1>11. CASE Command \/ Answer
  BY <1>11, CommandGives, AnswerGives DEF Packeted, Live, Setup
<1>12. CASE UNCHANGED vars
  BY <1>0, <1>12 DEF vars, Packeted, Live
<1> QED
  BY <1>1, <1>3, <1>4, <1>5, <1>6, <1>7, <1>8, <1>9, <1>10, <1>11, <1>12, StepCases

\* One more byte damaged pays for one more try.
LEMMA MoreMishaps ==
  ASSUME NEW t \in Nat, NEW m \in Nat, NEW n \in Nat, m <= n
  PROVE  /\ t <= m => t <= n
         /\ t <= m + 1 => t <= n + 1
         /\ t <= m + 2 => t <= n + 2
OBVIOUS

\* The tries are paid for by what was misheard.
LEMMA CountedStep ==
  ASSUME DevicesInv, [Next]_vars
  PROVE  Counted'
<1>0. Typed /\ HeldInOrder /\ Counted
  BY DEF DevicesInv
<1>1. CASE Key \/ CalmDown \/ Receive \/ ScreenChanges \/ LeaveLoop
  BY <1>0, <1>1 DEF Key, CalmDown, Receive, ScreenChanges, LeaveLoop, hardware, Counted, OnlyAckHeld, Live, Setup
<1>3. CASE Move
  <2>1. /\ "stream" \in held /\ pc # "answer" /\ mq' # << >>
        /\ UNCHANGED <<pc, held, obuf, tries, mishaps>>
    BY <1>3, MoveGives
  <2> QED
    BY <1>0, <2>1 DEF Counted, Live
<1>4. CASE LoadMouse
  <2>1. /\ obuf = Empty /\ mq # << >> /\ obuf' # Empty /\ obuf'.val = mq[1] /\ mq' = Tail(mq)
        /\ UNCHANGED <<pc, held, tries>>
    BY <1>0, <1>4, LoadMouseGives
  <2>2. /\ mq = <<Ack>> => mq' = << >> /\ obuf'.val = Ack
        /\ mq = <<Nack>> => mq' = << >> /\ obuf'.val = Nack
    BY <2>1
  <2>3. tries \in Nat /\ mishaps \in Nat /\ mishaps' \in Nat /\ mishaps <= mishaps'
    BY <1>0, <1>4, LoadMouseGives DEF Typed
  <2>4. <<Nack>> # <<Ack>>
    BY DEF Ack, Nack
  <2>6. /\ tries <= mishaps => tries <= mishaps'
        /\ tries <= mishaps + 1 => tries <= mishaps' + 1
        /\ tries <= mishaps + 2 => tries <= mishaps' + 2
    BY <2>3, MoreMishaps
  <2> QED
    BY <1>0, <2>1, <2>2, <2>4, <2>6 DEF Counted, OnlyAckHeld, Live
<1>5. CASE LoadKey
  <2>1. /\ obuf = Empty /\ obuf' # Empty /\ obuf'.dev # "mouse"
        /\ UNCHANGED <<pc, held, tries, mq>>
    BY <1>0, <1>5, LoadKeyGives
  <2>3. tries \in Nat /\ mishaps \in Nat /\ mishaps' \in Nat /\ mishaps <= mishaps'
    BY <1>0, <1>5, LoadKeyGives DEF Typed
  <2>6. /\ tries <= mishaps => tries <= mishaps'
        /\ tries <= mishaps + 1 => tries <= mishaps' + 1
        /\ tries <= mishaps + 2 => tries <= mishaps' + 2
    BY <2>3, MoreMishaps
  <2> QED
    BY <1>0, <2>1, <2>6 DEF Counted, OnlyAckHeld, Live
<1>6. ASSUME NEW step \in Setup, Done(step) PROVE Counted'
  <2>1. pc \in Setup /\ pc' \in Setup \cup {"run"} /\ tries' = tries
    BY <1>6, DoneGives, AfterIn
  <2> QED
    BY <1>0, <2>1 DEF Counted, Live, Setup
<1>7. ASSUME NEW step \in Setup, Refused(step) PROVE Counted'
  BY <1>7 DEF Refused, Counted, Live, Setup
<1>9. CASE HandleMouse \/ HandleKeyboard
  BY <1>0, <1>9, HandlersGive DEF Counted, Live
<1>10. CASE CloseSerial
  BY <1>0, <1>10 DEF CloseSerial, HeldInOrder, Typed, Counted, Live, Setup
<1>11. CASE Command
  <2>1. /\ pc' = "answer" /\ tries' = tries + 1 /\ obuf' = obuf
        /\ \/ mq' = <<Ack>> /\ "stream" \notin held' /\ mishaps' = mishaps
           \/ mq' = <<Nack>> /\ held' = held /\ mishaps' = mishaps + 1
    BY <1>11, CommandGives
  <2>2. \/ "stream" \in held /\ tries <= mishaps
        \/ "stream" \notin held /\ tries <= mishaps + 1 /\ OnlyAckHeld
    BY <1>0, <1>11, CommandGives DEF Counted
  <2>3. tries \in Nat /\ mishaps \in Nat
    BY <1>0 DEF Typed
  <2>4. /\ tries <= mishaps => tries + 1 <= mishaps + 1
        /\ tries <= mishaps + 1 => tries + 1 <= mishaps + 1 + 1
        /\ tries <= mishaps + 1 => tries + 1 <= mishaps + 2
    BY <2>3
  <2> QED
    BY <2>1, <2>2, <2>4 DEF Counted, OnlyAckHeld, Live, Setup
<1>12. CASE Answer
  <2>1. obuf # Empty /\ pc = "answer" /\ Ack # Nack
    BY <1>12, AnswerGives DEF Ack, Nack
  <2>2. obuf'.dev # "mouse" /\ UNCHANGED <<held, mq, tries, mishaps>>
    BY <1>12, AnswerGives, EmptyIsByte
  <2>3. CASE pc' = "release"
    <3>1. obuf.val = Ack
      BY <1>12, <2>3, AnswerGives
    <3>2. "stream" \in held => mq # << >>
      BY <1>0, <2>1, <3>1 DEF Counted
    <3> QED
      BY <2>2, <2>3, <3>2 DEF Counted, Live, Setup
  <2>4. CASE pc' = "silence"
    <3>1. ~OnlyAckHeld
      BY <1>12, <2>4, AnswerGives DEF OnlyAckHeld
    <3>2. CASE "stream" \in held
      BY <1>0, <2>1, <2>2, <2>4, <3>2 DEF Counted, Live, Setup
    <3>3. CASE "stream" \notin held
      <4>1. tries <= mishaps + 1 /\ (mq = <<Ack>> \/ mq = << >>)
        BY <1>0, <2>1, <3>1, <3>3 DEF Counted
      <4> QED
        BY <2>2, <2>4, <3>3, <4>1 DEF Counted, OnlyAckHeld, Live, Setup
    <3> QED
      BY <3>2, <3>3
  <2>5. CASE pc' = "ended"
    BY <2>5 DEF Counted, Live, Setup
  <2> QED
    BY <1>12, <2>3, <2>4, <2>5, AnswerGives
<1>13. CASE Release
  BY <1>13 DEF Release, Counted, Live, Setup
<1>14. CASE UNCHANGED vars
  BY <1>0, <1>14 DEF vars, Counted, OnlyAckHeld, Live
<1> QED
  BY <1>1, <1>3, <1>4, <1>5, <1>6, <1>7, <1>9, <1>10, <1>11, <1>12, <1>13, <1>14, StepCases

\* A calm user on a good line sends nothing that could be taken for an answer.
LEMMA CalmedStep ==
  ASSUME DevicesInv, [Next]_vars
  PROVE  Calmed'
<1>0. Typed /\ HeldInOrder /\ Noted /\ Counted /\ Calmed
  BY DEF DevicesInv
<1>1. CASE Key
  BY <1>1 DEF Key, Calmed
<1>2. CASE pc # "ended" /\ CalmDown
  <2>1. /\ keys' = 0 /\ obuf' = Empty /\ mq' = << >> /\ status' = "none"
        /\ UNCHANGED <<pc, held>> /\ obuf = Empty /\ mq = << >>
    BY <1>0, <1>2 DEF CalmDown, hardware, HeldInOrder
  <2>2. pc = "release" => "stream" \notin held
    BY <1>0, <2>1 DEF Counted
  <2> QED
    BY <2>1, <2>2 DEF Calmed
<1>3. CASE Move
  <2>1. UNCHANGED <<pc, status, held, obuf, keys, calm>>
    BY <1>3, MoveGives
  <2>2. calm => \A i \in 1 .. Len(mq') : mq'[i] # Ack /\ mq'[i] # Error
    BY <1>3, MoveGives
  <2> QED
    BY <1>0, <2>1, <2>2 DEF Calmed
<1>4. CASE LoadMouse
  <2>1. /\ UNCHANGED <<pc, status, held, keys, calm>>
        /\ obuf'.dev = "mouse" /\ obuf'.val = mq[1] /\ (calm => ~obuf'.bad)
    BY <1>0, <1>4, LoadMouseGives
  <2>2. /\ Len(mq) = Len(mq') + 1 /\ Len(mq') \in Nat
        /\ \A i \in 1 .. Len(mq') : mq'[i] = mq[i + 1]
    BY <1>0, <1>4, LoadMouseGives
  <2>3. 1 \in 1 .. Len(mq) /\ \A i \in 1 .. Len(mq') : i + 1 \in 1 .. Len(mq)
    BY <2>2
  <2> QED
    BY <1>0, <2>1, <2>2, <2>3 DEF Calmed
<1>5. CASE LoadKey
  <2>1. keys > 0 /\ calm' = calm
    BY <1>0, <1>5, LoadKeyGives
  <2>2. ~calm
    BY <1>0, <2>1 DEF Calmed
  <2> QED
    BY <2>1, <2>2 DEF Calmed
<1>6. ASSUME NEW step \in Setup, Done(step) PROVE Calmed'
  <2>1. /\ pc = step /\ held' = held \cup {step} /\ pc' # "release"
        /\ UNCHANGED <<status, mq, keys, calm>>
        /\ obuf' = obuf \/ obuf' = Empty
    BY <1>6, DoneGives, AfterIn DEF Setup
  <2>2. status = "none"
    BY <1>0, <2>1 DEF HeldInOrder, Setup
  <2>3. CASE step # "stream"
    BY <1>0, <2>1, <2>2, <2>3 DEF Calmed
  <2>4. CASE step = "stream"
    <3>1. "stream" \notin held
      BY <1>0, <2>1, <2>4 DEF HeldInOrder, Live, Before
    <3>2. mq = << >>
      BY <1>0, <2>1, <3>1 DEF Noted, Live
    <3>3. obuf' = Empty
      BY <1>6, <2>4 DEF Done, PolledAnswer
    <3> QED
      BY <1>0, <2>1, <2>2, <3>2, <3>3 DEF Calmed
  <2> QED
    BY <2>3, <2>4
<1>7. ASSUME NEW step \in Setup, Refused(step) PROVE Calmed'
  BY <1>0, <1>7 DEF Refused, hardware, Calmed
<1>8. CASE Receive \/ ScreenChanges \/ LeaveLoop
  BY <1>0, <1>8 DEF Receive, ScreenChanges, LeaveLoop, hardware, Calmed
<1>9. CASE HandleMouse \/ HandleKeyboard
  BY <1>0, <1>9, HandlersGive DEF Calmed
<1>10. CASE CloseSerial
  BY <1>0, <1>10 DEF CloseSerial, hardware, Calmed
<1>11. CASE Command
  <2>1. CASE mq' = <<Ack>> /\ held' = held \ {"stream"}
    <3>1. pc' = "answer" /\ UNCHANGED <<status, obuf, keys, calm>>
      BY <1>11, CommandGives
    <3>2. Len(mq') = 1 /\ mq'[1] # Error /\ "stream" \notin held'
      BY <2>1 DEF Ack, Error
    <3>3. status # "ok"
      BY <1>0, <1>11, CommandGives DEF HeldInOrder
    <3> QED
      BY <1>0, <3>1, <3>2, <3>3 DEF Calmed
  <2>2. CASE ~calm
    BY <1>11, <2>2, CommandGives DEF Calmed
  <2> QED
    BY <1>11, <2>1, <2>2, CommandGives
<1>12. CASE Answer
  <2>1. SUFFICES ASSUME calm' PROVE Calmed'
    BY DEF Calmed
  <2>2. obuf # Empty /\ pc = "answer" /\ calm
    BY <1>12, <2>1, AnswerGives
  <2>3. ~obuf.bad /\ obuf.dev = "mouse" /\ obuf.val # Error
    BY <1>0, <2>2 DEF Calmed
  <2>4. obuf.val # Ack => tries # MaxTries
    <3>1. SUFFICES ASSUME obuf.val # Ack PROVE tries # MaxTries
      OBVIOUS
    <3>2. tries <= mishaps \/ tries <= mishaps + 1
      BY <1>0, <2>2, <2>3, <3>1 DEF Counted, OnlyAckHeld
    <3>3. tries \in Nat /\ mishaps \in Nat /\ mishaps <= MaxMishaps
      BY <1>0 DEF Typed
    <3>4. MaxMishaps \in Nat /\ MaxTries \in Nat /\ MaxMishaps + 2 <= MaxTries
      BY DevicesAssumption
    <3> QED
      BY <3>2, <3>3, <3>4
  <2>5. pc' # "ended" /\ status' = status
    BY <1>12, <2>3, <2>4, AnswerGives
  <2>6. pc' = "release" => "stream" \notin held
    <3>1. pc' = "release" => obuf.val = Ack
      BY <1>12, AnswerGives
    <3> QED
      BY <1>0, <2>2, <3>1 DEF Calmed
  <2>7. obuf' = Empty /\ UNCHANGED <<held, mq, keys, calm>>
    BY <1>12, AnswerGives
  <2> QED
    BY <1>0, <2>2, <2>5, <2>6, <2>7 DEF Calmed
<1>13. CASE Release
  <2>1. /\ pc = "release" /\ held' = held \ {"mouse", "kbd", "timer", "video"}
        /\ pc' = "ended" /\ status' = "ok"
        /\ UNCHANGED <<obuf, mq, keys, calm>>
    BY <1>13 DEF Release, hardware
  <2>2. "uart" \notin held /\ held \subseteq Setup
    BY <1>0, <2>1 DEF HeldInOrder, Typed
  <2>3. calm => "stream" \notin held
    BY <1>0, <2>1 DEF Calmed
  <2>4. calm => held' \subseteq {"rate"}
    BY <2>1, <2>2, <2>3 DEF Setup
  <2> QED
    BY <1>0, <2>1, <2>3, <2>4 DEF Calmed
<1>14. CASE UNCHANGED vars
  BY <1>0, <1>14 DEF vars, Calmed
<1> QED
  BY <1>1, <1>2, <1>3, <1>4, <1>5, <1>6, <1>7, <1>8, <1>9, <1>10, <1>11, <1>12, <1>13, <1>14, StepCases

\* All of it holds before anything is set up.
LEMMA InvStarts == Init => DevicesInv
<1> SUFFICES ASSUME Init PROVE DevicesInv
  OBVIOUS
<1>1. Typed
  <2>1. obuf \in OutByte /\ obuf = Empty
    BY EmptyIsByte DEF Init
  <2>2. mq \in Seq(Byte) /\ Len(mq) = 0
    BY DEF Init
  <2>3. MaxMishaps \in Nat /\ mishaps = 0
    BY DevicesAssumption DEF Init
  <2>4. /\ pc \in Setup /\ status = "none" /\ held = {} /\ keys = 0 /\ tries = 0
        /\ flagged = {} /\ irqs = {}
    BY DEF Init, Setup
  <2>5. calm \in BOOLEAN
    BY DEF Init
  <2>6. /\ flagged \subseteq Devs /\ irqs \subseteq Devs /\ held \subseteq Setup
        /\ keys \in Nat /\ tries \in Nat /\ Len(mq) <= 3
        /\ mishaps \in Nat /\ mishaps <= MaxMishaps
    BY <2>2, <2>3, <2>4
  <2> QED
    BY <2>1, <2>2, <2>4, <2>5, <2>6 DEF Typed
<1>2. HeldInOrder
  BY DEF Init, HeldInOrder, Live, Before, Setup
<1>3. Noted
  BY DEF Init, Noted
<1>4. Packeted
  BY EmptyIsByte DEF Init, Packeted
<1>5. Counted
  BY DEF Init, Counted, Live, Setup
<1>6. Calmed
  BY DEF Init, Calmed
<1> QED
  BY <1>1, <1>2, <1>3, <1>4, <1>5, <1>6 DEF DevicesInv

\* The invariant holds in every state, whatever packets, keys and damage.
THEOREM DevicesInvariant == Spec => []DevicesInv
<1>1. ASSUME DevicesInv, [Next]_vars PROVE DevicesInv'
  BY <1>1, TypedStep, HeldStep, NotedStep, PacketedStep, CountedStep, CalmedStep DEF DevicesInv
<1> QED
  BY <1>1, InvStarts, PTL DEF Spec

----------------------------------------------------------------------------
(* What it is for                                                          *)

\* No byte is ever left in the controller with its interrupt forgotten, which would
\* silence mouse and keyboard for good (handlers.c:39, 50).
THEOREM HearsEveryDevice == Spec => []NeverDeaf
<1>1. DevicesInv => NeverDeaf
  BY DEF DevicesInv, Noted, NeverDeaf, Live
<1> QED
  BY <1>1, DevicesInvariant, PTL

\* However the program ends it has kept no interrupt, unless it says it failed; and
\* it does not fail when nobody touches the keyboard, nothing is damaged and the mouse
\* moves less than eight pixels right or up at a time, or a packet's byte could be taken
\* for an error (main.c:30-78).
THEOREM EndsClean == Spec => []GivesBack
<1>1. DevicesInv => GivesBack
  BY DEF DevicesInv, HeldInOrder, Calmed, GivesBack
<1> QED
  BY <1>1, DevicesInvariant, PTL

\* The handlers hand the pointer bytes of the controller and nothing else.
LEMMA PointerFed ==
  ASSUME Typed, [Next]_vars
  PROVE  [PointerNext]_pointerVars
<1>1. CASE HandleMouse
  <2>1. obuf.val \in Byte
    BY DEF Typed, OutByte
  <2>2. ByteIn(obuf.val) \/ UNCHANGED pointerVars
    BY <1>1 DEF HandleMouse
  <2> QED
    BY <2>1, <2>2 DEF PointerNext
<1>2. CASE HandleKeyboard
  BY <1>2 DEF HandleKeyboard, PointerNext
<1>3. CASE ScreenChanges
  BY <1>3 DEF ScreenChanges, PointerNext
<1>4. CASE Key \/ Move \/ CalmDown
  BY <1>4 DEF Key, Move, CalmDown
<1>5. CASE LoadMouse \/ LoadKey
  BY <1>5 DEF LoadMouse, LoadKey, Load
<1>6. CASE \E step \in Setup : Done(step) \/ Refused(step)
  BY <1>6 DEF Done, Refused
<1>7. CASE Receive \/ LeaveLoop
  BY <1>7 DEF Receive, LeaveLoop
<1>8. CASE CloseSerial \/ Command \/ Answer \/ Release
  BY <1>8 DEF CloseSerial, Command, Answer, Release
<1>9. CASE UNCHANGED vars
  BY <1>9 DEF vars, pointerVars
<1> QED
  BY <1>1, <1>2, <1>3, <1>4, <1>5, <1>6, <1>7, <1>8, <1>9, StepCases

\* The devices implement the pointer's specification, in which any byte may come at
\* any time: the handlers and the controller add nothing to it.
THEOREM DevicesFeedPointer == Spec => PointerSpec
<1>1. Init => PointerInit
  BY DEF Init
<1>2. DevicesInv /\ [Next]_vars => [PointerNext]_pointerVars
  BY PointerFed DEF DevicesInv
<1> QED
  BY <1>1, <1>2, DevicesInvariant, PTL DEF Spec, PointerSpec

\* So the pointer never leaves the screen, and no shot or placement takes its cell or
\* its ship from words that another screen has left in the union (game.c:543, 599-602,
\* 627), in the whole program.
THEOREM DevicesPointerSafe == Spec => []PointerSafe
BY DevicesFeedPointer, PointerCorrect, PTL

----------------------------------------------------------------------------
(* No packet is torn                                                       *)

\* A byte more in one place and one less in another, or three more.
LEMMA PhaseKept ==
  ASSUME NEW a \in Nat, NEW c \in Nat
  PROVE  /\ (a + 0 + (c + 1)) % 3 = (a + 1 + c) % 3
         /\ (2 + 1 + c) % 3 = (0 + 0 + c) % 3
         /\ (a + 0 + 3) % 3 = (a + 0 + 0) % 3
         /\ (a + 1 + 3) % 3 = (a + 1 + 0) % 3
OBVIOUS

\* What can be left of a packet whose first byte has been taken.
LEMMA LastTwo ==
  ASSUME NEW c \in Nat, c <= 3, (0 + 1 + c) % 3 = 0
  PROVE  c = 2
<1>1. c = 0 \/ c = 1 \/ c = 2 \/ c = 3
  OBVIOUS
<1> QED
  BY <1>1

\* A byte that is not skipped is the next of a packet, or its last.
LEMMA TakenByte ==
  ASSUME NEW byte, ByteIn(byte), ~Skipped(byte)
  PROVE  \/ Len(buf) < 2 /\ buf' = Append(buf, byte)
         \/ Len(buf) = 2 /\ buf' = << >>
BY DEF ByteIn

\* With notes and byte in agreement the next interrupt served is the byte's own.
LEMMA OneNote ==
  ASSUME Typed, Matched, NEW d \in Devs, d \in irqs
  PROVE  obuf.dev = d /\ flagged = {} /\ irqs = {d}
BY DEF Matched, Devs, Typed

\* A good byte at the beginning of a packet has the sync bit.
LEMMA FirstHasSync ==
  ASSUME Typed, Packeted, pc = "run", buf = << >>, obuf.dev = "mouse", InPhase
  PROVE  Sync(obuf.val)
<1>1. FromMouse = 1 /\ Len(buf) = 0
  BY DEF FromMouse
<1>2. Len(mq) \in Nat /\ Len(mq) <= 3
  BY DEF Typed
<1>3. (0 + 1 + Len(mq)) % 3 = 0
  BY <1>1 DEF InPhase
<1>4. Len(mq) = 2
  BY <1>2, <1>3, LastTwo
<1> QED
  BY <1>4 DEF Packeted, Live

\* The mouse's handler takes in one byte.
LEMMA HandleMousePhase ==
  ASSUME Typed, Packeted, PointerSafe, HandleMouse, Matched, ~obuf.bad
  PROVE  Matched' /\ (InPhase => InPhase')
<1>1. obuf.dev = "mouse" /\ flagged = {} /\ irqs = {"mouse"}
  BY OneNote DEF HandleMouse, Devs
<1>2. obuf' = Empty /\ flagged' = {} /\ irqs' = {} /\ mq' = mq /\ pc = "run"
  BY <1>1 DEF HandleMouse, ReadOut
<1>3. Matched'
  BY <1>2, EmptyIsByte DEF Matched, Devs
<1>4. FromMouse = 1 /\ FromMouse' = 0
  BY <1>1, <1>2, EmptyIsByte DEF FromMouse
<1>5. ByteIn(obuf.val)
  BY <1>1 DEF HandleMouse, Drained
<1>6. buf \in Seq(Byte) /\ Len(buf) \in Nat /\ Len(buf) <= 2 /\ Len(mq) \in Nat
  BY DEF PointerSafe, Typed
<1>7. ASSUME InPhase PROVE InPhase'
  <2>1. (Len(buf) + 1 + Len(mq)) % 3 = 0
    BY <1>4, <1>7 DEF InPhase
  <2>2. ~Skipped(obuf.val)
    BY <1>1, <1>2, <1>7, FirstHasSync DEF Skipped
  <2>3. CASE Len(buf) < 2 /\ buf' = Append(buf, obuf.val)
    <3>1. Len(buf') = Len(buf) + 1
      BY <1>6, <2>3
    <3> QED
      BY <1>2, <1>4, <1>6, <2>1, <3>1 DEF InPhase
  <2>4. CASE Len(buf) = 2 /\ buf' = << >>
    <3>1. Len(buf') = 0
      BY <2>4
    <3>2. (2 + 1 + Len(mq)) % 3 = 0
      BY <2>1, <2>4
    <3>3. (0 + 0 + Len(mq)) % 3 = 0
      BY <1>6, <3>2, PhaseKept
    <3> QED
      BY <1>2, <1>4, <3>1, <3>3 DEF InPhase
  <2> QED
    BY <1>5, <2>2, <2>3, <2>4, TakenByte
<1> QED
  BY <1>3, <1>7

\* A packet at a time is sent, a byte at a time taken and handled: as long as notes
\* and bytes agree and nothing is damaged, no packet is torn (handlers.c:39, 50).
THEOREM DevicesTearNothing == Spec => NothingTorn
<1> DEFINE Whole == pc = "run" /\ pc' = "run" /\ Matched /\ ~obuf.bad
                      => Matched' /\ (InPhase => InPhase')
<1>1. ASSUME DevicesInv, PointerSafe, [Next]_vars PROVE Whole \/ UNCHANGED vars
  <2>0. SUFFICES ASSUME pc = "run", pc' = "run", Matched, ~obuf.bad
                 PROVE  (Matched' /\ (InPhase => InPhase')) \/ UNCHANGED vars
    OBVIOUS
  <2>1. Typed /\ Packeted /\ HeldInOrder
    BY <1>1 DEF DevicesInv
  <2>2. Len(buf) \in Nat /\ Len(mq) \in Nat
    BY <1>1, <2>1 DEF PointerSafe, Typed
  <2>3. held = Setup
    BY <2>0, <2>1 DEF HeldInOrder, Live, Before
  <2>4. FromMouse \in {0, 1}
    BY DEF FromMouse
  <2>5. CASE Key \/ CalmDown
    BY <2>0, <2>5 DEF Key, CalmDown, hardware, pointerVars, Matched, InPhase, FromMouse
  <2>6. CASE Move
    <3>1. mq = << >> /\ Len(mq') = 3 /\ UNCHANGED <<obuf, flagged, irqs>>
      BY <2>6, MoveGives
    <3>2. buf' = buf
      BY <2>6 DEF Move, pointerVars
    <3>3. (Len(buf) + FromMouse + 3) % 3 = (Len(buf) + FromMouse + 0) % 3
      BY <2>2, <2>4, PhaseKept
    <3>4. Len(mq) = 0 /\ FromMouse' = FromMouse
      BY <3>1 DEF FromMouse
    <3> QED
      BY <2>0, <3>1, <3>2, <3>3, <3>4 DEF Matched, InPhase
  <2>7. CASE LoadMouse
    <3>1. /\ obuf = Empty /\ obuf'.dev = "mouse" /\ Len(mq) = Len(mq') + 1 /\ Len(mq') \in Nat
          /\ flagged' = flagged \cup ({"mouse"} \cap held) /\ irqs' = irqs
      BY <2>1, <2>7, LoadMouseGives
    <3>2. flagged = {} /\ irqs = {}
      BY <2>0, <3>1, EmptyIsByte DEF Matched, Devs
    <3>3. Matched'
      BY <2>3, <3>1, <3>2 DEF Matched, Devs, Setup
    <3>4. buf' = buf
      BY <2>7 DEF LoadMouse, Load, pointerVars
    <3>5. FromMouse = 0 /\ FromMouse' = 1
      BY <3>1, EmptyIsByte DEF FromMouse
    <3>6. InPhase => InPhase'
      BY <2>2, <3>1, <3>4, <3>5, PhaseKept DEF InPhase
    <3> QED
      BY <3>3, <3>6
  <2>8. CASE LoadKey
    <3>1. /\ obuf = Empty /\ obuf'.dev = "kbd" /\ mq' = mq
          /\ flagged' = flagged \cup ({"kbd"} \cap held) /\ irqs' = irqs
      BY <2>1, <2>8, LoadKeyGives
    <3>2. flagged = {} /\ irqs = {}
      BY <2>0, <3>1, EmptyIsByte DEF Matched, Devs
    <3>3. Matched'
      BY <2>3, <3>1, <3>2 DEF Matched, Devs, Setup
    <3>4. buf' = buf
      BY <2>8 DEF LoadKey, Load, pointerVars
    <3>5. FromMouse = 0 /\ FromMouse' = 0
      BY <3>1, EmptyIsByte DEF FromMouse
    <3> QED
      BY <3>1, <3>3, <3>4, <3>5 DEF InPhase
  <2>9. CASE \E step \in Setup : Done(step) \/ Refused(step)
    BY <2>0, <2>9 DEF Done, Refused, Setup
  <2>10. CASE Receive
    BY <2>0, <2>10 DEF Receive, hardware, pointerVars, Matched, InPhase, FromMouse
  <2>11. CASE HandleMouse
    BY <1>1, <2>0, <2>1, <2>11, HandleMousePhase
  <2>12. CASE HandleKeyboard
    <3>1. obuf.dev = "kbd" /\ flagged = {} /\ irqs = {"kbd"}
      BY <2>0, <2>1, <2>12, OneNote DEF HandleKeyboard, Devs
    <3>2. obuf' = Empty /\ flagged' = {} /\ irqs' = {} /\ mq' = mq
      BY <2>12, <3>1 DEF HandleKeyboard, ReadOut
    <3>3. Matched'
      BY <3>2, EmptyIsByte DEF Matched, Devs
    <3>4. buf' = buf
      BY <2>12 DEF HandleKeyboard, MoveCursor, KeyScreen, pointerVars
    <3>5. FromMouse = 0 /\ FromMouse' = 0
      BY <3>1, <3>2, EmptyIsByte DEF FromMouse
    <3> QED
      BY <3>2, <3>3, <3>4, <3>5 DEF InPhase
  <2>13. CASE ScreenChanges
    BY <2>0, <2>13 DEF ScreenChanges, NewScreen, hardware, Matched, InPhase, FromMouse
  <2>14. CASE LeaveLoop \/ CloseSerial \/ Release
    BY <2>0, <2>14 DEF LeaveLoop, CloseSerial, Release
  <2>15. CASE Command \/ Answer
    BY <2>0, <2>15, CommandGives, AnswerGives
  <2> QED
    BY <1>1, <2>5, <2>6, <2>7, <2>8, <2>9, <2>10, <2>11, <2>12, <2>13, <2>14, <2>15, StepCases
<1>2. DevicesInv /\ PointerSafe /\ [Next]_vars => [Whole]_vars
  BY <1>1
<1> QED
  BY <1>2, DevicesInvariant, DevicesPointerSafe, PTL DEF Spec, NothingTorn
=============================================================================
