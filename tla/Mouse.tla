-------------------------------- MODULE Mouse --------------------------------
(***************************************************************************)
(* src/project/src/model/mouse.c with the conversion of board.c: from three  *)
(* bytes of the PS/2 mouse to a pointer on the screen, and from a pixel to a *)
(* cell of the board.  A byte is a number, so that a byte taken for another  *)
(* one means what its bits mean there.  The right and middle buttons and     *)
(* the released flag are left out: nothing reads them.                       *)
(***************************************************************************)
EXTENDS Integers, Sequences

CONSTANTS HRes, VRes,           \* the screen: 800 by 600 pixels
          BoardX, BoardY,       \* its top left corner: 290, 90
          CellSize,             \* 45 pixels
          BoardCols, BoardRows  \* 10 by 10 cells

\* A packet moves the pointer by 256 pixels at most, which int16_t has to hold.
ASSUME ScreenAssumption ==
  /\ HRes \in Nat \ {0} /\ VRes \in Nat \ {0} /\ HRes <= 32512 /\ VRes <= 32511
  /\ BoardX \in Nat /\ BoardY \in Nat
  /\ CellSize \in Nat \ {0} /\ BoardCols \in Nat \ {0} /\ BoardRows \in Nat \ {0}

Byte == 0 .. 255

\* The fields of mouse_byte1_t, by their weight in the byte.
Has(byte, weight) == (byte \div weight) % 2 = 1

Left(byte)      == Has(byte, 1)
Sync(byte)      == Has(byte, 8)
XSign(byte)     == Has(byte, 16)
YSign(byte)     == Has(byte, 32)
Overflown(byte) == Has(byte, 64) \/ Has(byte, 128)

\* What int16_t keeps of a number.
Int16(v) == ((v + 32768) % 65536) - 32768

\* A displacement of nine bits: the sign is in the first byte of the packet.
Displacement(sign, byte) == IF sign THEN byte - 256 ELSE byte

Clamp(v, res) == IF v < 0 THEN 0 ELSE IF v >= res THEN res - 1 ELSE v

\* mouse_state_init: the pointer in the middle, no button down.
Centred == [x |-> HRes \div 2, y |-> VRes \div 2, lb |-> FALSE, clicked |-> FALSE, moved |-> FALSE]

\* mouse_state_update: an overflown packet moves nothing; a click is remembered
\* until somebody clears it.
Update(m, buf) ==
  LET still == Overflown(buf[1])
      dx == IF still THEN 0 ELSE Displacement(XSign(buf[1]), buf[2])
      dy == IF still THEN 0 ELSE Displacement(YSign(buf[1]), buf[3])
  IN  [x       |-> Clamp(Int16(m.x + dx), HRes),
       y       |-> Clamp(Int16(m.y - dy), VRes),
       lb      |-> Left(buf[1]),
       clicked |-> m.clicked \/ (Left(buf[1]) /\ ~m.lb),
       moved   |-> still \/ dx # 0 \/ dy # 0]

\* The flags as whoever handled them leaves them.
Unclicked(m) == [m EXCEPT !.clicked = FALSE, !.moved = FALSE]

\* moved says what the last packet did, and is not looked at later.
Unmoved(m) == [m EXCEPT !.moved = FALSE]

\* Division as in C, towards zero.
Quotient(a, b) == IF a >= 0 THEN a \div b ELSE -((-a) \div b)

\* board_pixel_to_cell
CellAt(px, py) ==
  [col |-> Quotient(px - BoardX, CellSize), row |-> Quotient(py - BoardY, CellSize)]

BoardCells == [col : 0 .. BoardCols - 1, row : 0 .. BoardRows - 1]

\* board_cell_to_pixel: the top left corner of a cell.
PixelOf(c) == [x |-> BoardX + c.col * CellSize, y |-> BoardY + c.row * CellSize]
=============================================================================
