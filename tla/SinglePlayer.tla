---------------------------- MODULE SinglePlayer ----------------------------
(***************************************************************************)
(* The program on one machine: the host plays against the bot.  One action  *)
(* per key, click or timer interrupt; Multiplayer is not chosen here.       *)
(***************************************************************************)
EXTENDS Console

CONSTANTS HastyShots,      \* the player may fire while a result is still to be read
          KeysDuringDraw   \* the player may press keys while the bot places its ships

ASSUME PlayerAssumption == HastyShots \in BOOLEAN /\ KeysDuringDraw \in BOOLEAN

VARIABLE m  \* the instance

Become(n) == m' = [n EXCEPT !.out = << >>]

TypeOK ==
  /\ m.tag \in Tags /\ m.prev \in Tags
  /\ m.word \in 0 .. 3 /\ m.idx \in 0 .. NumShips - 1
  /\ \A b \in {m.p1, m.p2} : b.grid \in [Cells -> CellStates] /\ Len(b.ships) <= NumShips
  /\ m.secs \in 0 .. CountdownStart /\ m.cticks \in 0 .. TicksPerSec - 1
  /\ m.botTimer \in 0 .. 2 * TicksPerSec
  /\ m.bot \in BotType
  /\ m.post \in 0 .. PostAttackTicks - 1
  /\ m.expl \in {"none", "blast", "splash"}

Init == m = Fresh(Host)

\* The program runs until its main loop sees "over".
Running == ~m.over

MenuArrow ==
  /\ Running
  /\ m.tag \in {"MAIN_MENU", "PAUSED"}
  /\ \E key \in {"up", "down"} : Become(Arrow(m, key))

\* Enter takes the highlighted option, a click the one under the pointer.
MenuEnter ==
  /\ Running /\ m.tag = "MAIN_MENU"
  /\ \E option \in {0, 2, 3} : Become(MenuChoose(m, option))

LeaveInstructions ==
  /\ Running /\ m.tag = "INSTRUCTIONS"
  /\ Become(Transition(m, "MAIN_MENU"))

PlaceByMouse ==
  /\ Running /\ PlacesByMouse(m)
  /\ \E cells \in Footprints(ShipSizes[m.idx + 1]) : Become(PutShip(m, cells))

PlaceByKey ==
  /\ Running /\ PlacesByKey(m)
  /\ m.tag = "PLACE_SHIPS_P2" => KeysDuringDraw
  /\ \E cells \in Footprints(ShipSizes[m.idx + 1]) : Become(PutShip(m, cells))

Fire ==
  /\ Running /\ CanFire(m)
  /\ HastyShots \/ Settled(m)
  /\ \E x \in Cells : Become(FireAt(m, x))

\* Esc, on release, where the keyboard handler reaches it.
Pause ==
  /\ Running
  /\ PlacesByKey(m) \/ CanFire(m)
  /\ Become(Transition(m, "PAUSED"))

PauseEnter ==
  /\ Running /\ m.tag = "PAUSED"
  /\ \E option \in 0 .. 1 : Become(PauseChoose(m, option))

GameOverEnter ==
  /\ Running /\ m.tag = "GAME_OVER"
  /\ Become(Rematch(m))

GameOverEsc ==
  /\ Running /\ m.tag = "GAME_OVER"
  /\ Become([m EXCEPT !.over = TRUE])

\* A click during the bot's turn is latched and not handled (handlers.c:68).
ClickInBotTurn ==
  /\ Running /\ m.tag = "TURN_P2"
  /\ Become([m EXCEPT !.clicked = TRUE])

Timer ==
  /\ Running
  /\ \E n \in Tick(m) : Become(n)

Next ==
  \/ MenuArrow \/ MenuEnter \/ LeaveInstructions
  \/ PlaceByMouse \/ PlaceByKey \/ Fire
  \/ Pause \/ PauseEnter \/ GameOverEnter \/ GameOverEsc
  \/ ClickInBotTurn \/ Timer

\* The timer interrupts thirty times a second; nobody has to press a key.
Spec == Init /\ [][Next]_m /\ WF_m(Timer)

----------------------------------------------------------------------------
(* Properties                                                              *)

R == INSTANCE Rules WITH
       Sea    <- Cells,
       turn   <- TurnOf(m),
       missed <- MissPending(m),
       fleet  <- [p \in 1 .. 2 |-> FleetCells(IF p = 1 THEN m.p1 ELSE m.p2)],
       shots  <- [p \in 1 .. 2 |-> ShotCells(IF p = 1 THEN m.p1 ELSE m.p2)],
       winner <- WinnerOf(m)

\* Through animations, waits, handover screens and pauses the program plays by
\* the rules: the turn passes after a miss and only then, nobody shoots twice
\* at a cell, out of turn or after a miss, and the shot that sinks the last
\* ship decides the game for its player.
PlaysByTheRules == R!Spec

\* An explosion is only ever on the screen of the turn it belongs to, and its end
\* is read there (game.c:105-108): no result is left over for the next turn.
ResultReadInItsTurn ==
  /\ Exploding(m) \/ m.waiting => InTurn(m)
  /\ m.done => InTurn([m EXCEPT !.tag = Screen(m)])

\* A click latched while the mouse was not the player's never fires: it is only
\* remembered on the screen that ignores it (handlers.c:68, game.c:46).
NoStaleClick == m.clicked => m.tag = "TURN_P2"

\* Resume can only lead back to a screen a pause can start from, with no
\* animation or wait cut in two.
ResumeIsSafe ==
  m.tag = "PAUSED" =>
    /\ m.prev \in {"PLACE_SHIPS_P1", "PLACE_SHIPS_P2", "TURN_P1"}
    /\ ~Exploding(m) /\ ~m.waiting

\* The ship about to be placed is the next one of the fleet: SHIP_SIZES is never
\* read past its end and no ship is placed twice.
NextShipInOrder ==
  Screen(m) = "PLACE_SHIPS_P1" => m.idx = Len(m.p1.ships) /\ m.p2 = EmptyBoard

\* Only a game of two waits for somebody else's fleet (README.md:108-109).
NoWaitingAlone == m.single => m.tag # "PLACE_SHIPS_WAITING"

\* The bot's turn comes to an end whatever the player does.
BotTurnEnds == (m.tag = "TURN_P2") ~> (m.tag \in {"HANDOVER_P1", "GAME_OVER"})

\* Every shot of the player is answered: another shot may be fired, the turn is
\* over, or the game is.
ShotAnswered ==
  (m.tag = "TURN_P1" /\ ~Settled(m)) ~>
    (Settled(m) \/ m.tag = "PAUSED" \/ m.over)
=============================================================================
