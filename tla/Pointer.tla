------------------------------- MODULE Pointer -------------------------------
(***************************************************************************)
(* handle_mouse with what the game makes of the pointer: bytes are put       *)
(* together three at a time, the pointer moves, the board's cursor follows   *)
(* it and a click is used up or kept.  Nothing is assumed of the bytes: any   *)
(* byte may come at any time.                                               *)
(*                                                                           *)
(* The cursor is kept in the union of game_t, where the screens for placing  *)
(* ships and for shooting lay their fields over each other; which screen     *)
(* sets which words before another reads them is modelled for the screens of *)
(* host and client together.                                                 *)
(***************************************************************************)
EXTENDS Mouse

CONSTANT NumShips   \* the ships of a fleet: 5

ASSUME FleetAssumption == NumShips \in Nat \ {0}

VARIABLES buf,   \* mouse_buf up to mouse_idx
          ms,    \* the mouse_state_t
          data,  \* the union's words
          mode   \* the screen

pointerVars == <<buf, ms, data, mode>>

\* place: a fleet is placed.
\* turn: this side shoots.
\* theirs: the host's game does not look at the mouse, the opponent shoots
\*   (handlers.c:68).
\* heldPlace, heldTurn: the pause, and the screen it goes back to.
\* lobby: Multiplayer was chosen and the other side is waited for.
\* other: any other screen.
Modes == {"place", "turn", "theirs", "heldPlace", "heldTurn", "lobby", "other"}

\* The union's words but the first, which holds no cursor, under their names in place;
\* turn.cursor_col lies in ship_idx and turn.cursor_row in orient.
Zeroed == [ship_idx |-> 0, orient |-> 0, cursor_col |-> 0, cursor_row |-> 0]

ShotCell(d) == [col |-> d.ship_idx, row |-> d.orient]

ShipCell(d) == [col |-> d.cursor_col, row |-> d.cursor_row]

AimedAt(d, c) == [d EXCEPT !.ship_idx = c.col, !.orient = c.row]

PlacedAt(d, c) == [d EXCEPT !.cursor_col = c.col, !.cursor_row = c.row]

Corner == [col |-> 0, row |-> 0]

\* A plausible bug: the cursor is left where the last turn or the fleet put it.
NewTurnKeeps(d) == d

\* A turn begins with the cursor in the corner.
NewTurn(d) == AimedAt(d, Corner)

PointerInit ==
  /\ buf = << >>
  /\ ms = Centred
  /\ data = Zeroed
  /\ mode = "other"

----------------------------------------------------------------------------
(* The screens                                                             *)

\* A screen and the words it finds.
Goes(screen, words) == mode' = screen /\ data' = words

\* A ship is placed.  After the last one the host's game clears the words and goes on
\* or, alone, to the bot's fleet; the client's, and the bot's own, leave them.  That
\* ship is the last when the board has NUM_SHIPS, which counts every ship that
\* ship_idx counts and may count the other side's (game.c:690).
PlaceShip(d) ==
  \/ d.ship_idx + 1 < NumShips
     /\ Goes("place", PlacedAt([d EXCEPT !.ship_idx = @ + 1], Corner))
  \/ Goes("place", Zeroed)
  \/ \E words \in {Zeroed, d} : Goes("other", words)

\* The main menu: Single Player or Multiplayer, or a screen without a cursor.
Chosen ==
  \/ \E screen \in {"place", "lobby"} : Goes(screen, Zeroed)
  \/ Goes("other", data)

Resumed == Goes(IF mode = "heldPlace" THEN "place" ELSE "turn", data)

\* ESC
Pause == Goes(IF mode = "place" THEN "heldPlace" ELSE "heldTurn", data)

----------------------------------------------------------------------------
(* The mouse                                                               *)

\* A plausible bug: every byte is asked for the sync bit.
SkippedAnywhere(byte) == ~Sync(byte)

\* Another: none is.
SkippedNever(byte) == FALSE

\* A byte without the sync bit cannot be a packet's first.
Skipped(byte) == buf = << >> /\ ~Sync(byte)

\* The cursor goes to the cell under the pointer, if there is one.
Followed(m, c) ==
  IF m.moved /\ CellAt(m.x, m.y) \in BoardCells THEN CellAt(m.x, m.y) ELSE c

\* game_handle_mouse; an animation, the bot's fleet or a spot without a button has no
\* use for the packet.
Used(m) ==
  \/ UNCHANGED <<data, mode>>
  \/ /\ mode = "place"
     /\ \E d \in {PlacedAt(data, Followed(m, ShipCell(data)))} :
          Goes("place", d) \/ (m.clicked /\ PlaceShip(d))
  \/ mode = "turn" /\ Goes("turn", AimedAt(data, Followed(m, ShotCell(data))))
  \/ mode \in {"heldPlace", "heldTurn"} /\ m.clicked /\ Resumed
  \/ mode = "other" /\ m.clicked /\ Chosen

\* It is called, and the flags are cleared after it, only while the game looks.
Handled(m) ==
  \/ mode = "theirs" /\ ms' = Unmoved(m) /\ UNCHANGED <<data, mode>>
  \/ mode # "theirs" /\ ms' = Unclicked(m) /\ Used(m)

\* handle_mouse on a good byte; the third completes a packet.
ByteIn(byte) ==
  \/ Skipped(byte) /\ UNCHANGED pointerVars
  \/ /\ ~Skipped(byte) /\ Len(buf) < 2
     /\ buf' = Append(buf, byte) /\ UNCHANGED <<ms, data, mode>>
  \/ /\ ~Skipped(byte) /\ Len(buf) = 2
     /\ buf' = << >> /\ Handled(Update(ms, Append(buf, byte)))

----------------------------------------------------------------------------
(* Keyboard, timer and serial port                                         *)

\* An arrow key moves the cursor by a cell, and it stops at the board's edges.
Beside(i, top) == {j \in 0 .. top : j \in {i - 1, i, i + 1}}

Steps(c) ==
  {n \in [col : Beside(c.col, BoardCols - 1), row : Beside(c.row, BoardRows - 1)] :
     n.col = c.col \/ n.row = c.row}

\* orient ^= 1
Flipped(d) == [d EXCEPT !.orient = IF @ % 2 = 0 THEN @ + 1 ELSE @ - 1]

\* Arrows and R.
MoveCursor ==
  /\ \/ mode = "place" /\ \E c \in Steps(ShipCell(data)) : Goes("place", PlacedAt(data, c))
     \/ mode = "place" /\ Goes("place", Flipped(data))
     \/ mode = "turn" /\ \E c \in Steps(ShotCell(data)) : Goes("turn", AimedAt(data, c))
  /\ UNCHANGED <<buf, ms>>

\* Enter and ESC.  transition() clears the mouse's flags.
KeyScreen ==
  /\ \/ mode = "place" /\ (PlaceShip(data) \/ Pause)
     \/ mode = "turn" /\ Pause
     \/ mode \in {"heldPlace", "heldTurn"} /\ Resumed
     \/ mode = "other" /\ Chosen
  /\ ms' = Unclicked(ms) /\ UNCHANGED buf

\* The timer ends a turn, a countdown, a handover and the bot's placing.
TimerScreen ==
  \/ mode = "other" /\ \E screen \in {"turn", "theirs"} : Goes(screen, NewTurn(data))
  \/ mode \in {"turn", "theirs", "place"} /\ Goes("other", data)

\* MSG_HELLO at the host; MSG_STATE takes the client from any screen to any other,
\* that of the opponent's turn among them.
MessageScreen ==
  \/ mode = "lobby" /\ Goes("place", data)
  \/ /\ mode # "theirs"
     /\ \/ Goes("place", Zeroed)
        \/ \E screen \in {"turn", "other"} : Goes(screen, NewTurn(data))
        \/ Goes("other", data)

NewScreen ==
  /\ TimerScreen \/ MessageScreen
  /\ ms' = Unclicked(ms) /\ UNCHANGED buf

PointerNext == (\E byte \in Byte : ByteIn(byte)) \/ MoveCursor \/ KeyScreen \/ NewScreen

PointerSpec == PointerInit /\ [][PointerNext]_pointerVars

\* The pointer stays on the screen, whatever bytes the mouse sends and however wrongly
\* they are put together; what is kept of a packet begins like one; and a click is held
\* back only while the opponent shoots.  And no screen finds in the union what another
\* has left there: when a ship is placed or a shot is fired the words name a cell of the
\* grid and a ship of the fleet, which index the arrays unchecked (game.c:543,
\* 599-602, 627).
PointerSafe ==
  /\ buf \in Seq(Byte) /\ Len(buf) <= 2 /\ (buf # << >> => Sync(buf[1]))
  /\ ms \in [x : 0 .. HRes - 1, y : 0 .. VRes - 1,
             lb : BOOLEAN, clicked : BOOLEAN, moved : BOOLEAN]
  /\ mode \in Modes
  /\ ms.clicked => mode = "theirs"
  /\ mode = "turn" => ShotCell(data) \in BoardCells
  /\ mode = "place" =>
       /\ ShipCell(data) \in BoardCells
       /\ data.ship_idx \in 0 .. NumShips - 1 /\ data.orient \in {0, 1}
=============================================================================
