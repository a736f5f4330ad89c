------------------------------ MODULE BotHunt ------------------------------
(***************************************************************************)
(* The bot against one board: the human places a fleet, then the bot fires  *)
(* until nothing floats, as in the bot's branch of game_handle_timer        *)
(* (game.c:207-221), with the turns of the human left out: what the bot     *)
(* remembers between its turns is untouched by them.  The board is          *)
(* BoardLife's: only who fires, and where, is decided here.                 *)
(***************************************************************************)
EXTENDS BoardLife, Bot

VARIABLE bot  \* the bot's memory

huntVars == <<board, bot>>

HuntTypeOK == TypeOK /\ bot \in BotType

HuntInit == Init /\ bot = BotReset

HuntPlace == Place /\ UNCHANGED bot

BotShot ==
  /\ Len(board.ships) = NumShips
  /\ ~AllSunk(board)
  /\ \E aimed \in Choose(bot, board) :
       /\ board' = Attack(board, aimed.curr)
       /\ bot' = Register(aimed, ResultAt(board', aimed.curr))

HuntNext == HuntPlace \/ BotShot

HuntSpec == HuntInit /\ [][HuntNext]_huntVars /\ WF_huntVars(BotShot)

----------------------------------------------------------------------------
(* Properties                                                              *)

Floating(i) == ~board.ships[i].sunk

Adjacent(x, y) ==
  \/ x[1] = y[1] /\ x[2] - y[2] \in {-1, 1}
  \/ x[2] = y[2] /\ x[1] - y[1] \in {-1, 1}

\* Two ships touch when a cell of one is next to a cell of the other.
SomeShipsTouch ==
  \E i, j \in DOMAIN board.ships :
    /\ i # j
    /\ \E x \in board.ships[i].cells, y \in board.ships[j].cells : Adjacent(x, y)

\* While the bot hunts, the cell it hunts around is a hit on a ship that still
\* floats: no sinking leaves it probing around a wreck (bot.c:43-46).
AnchorStillFloats ==
  bot.mode # "random" => board.grid[bot.first] = "hit"

\* Unless ships touch, the bot never turns its back on a ship it has hit: in
\* MODE_RANDOM no cell is hit and not sunk.  Between ships that touch it may, as
\* the README's notes admit.
NeverGivesUp ==
  bot.mode = "random" /\ ~SomeShipsTouch => \A x \in Cells : board.grid[x] # "hit"

\* In MODE_DESTROY the hunting direction is the line of the ship: a second hit
\* cell lies next to the first one on that line.
DestroyFollowsLine ==
  bot.mode = "destroy" =>
    \E dir \in {bot.dir, (bot.dir + 2) % 4} :
      LET x == Ahead(bot.first, dir, 1)
      IN  x \in Cells /\ board.grid[x] = "hit"

\* The search for a target always ends with a shot, so the bot sinks any fleet
\* as long as it keeps getting its turns.
BotWins == (Len(board.ships) = NumShips) ~> AllSunk(board)
=============================================================================
