------------------------------ MODULE Console ------------------------------
(***************************************************************************)
(* One running instance of the program: the game_t of                       *)
(* src/project/src/controller/game.c with the file-static variables its     *)
(* handlers use (post-attack wait, explosion animation, bot, latched click). *)
(* Every handler is an operator from the state before to the state after;   *)
(* "out" collects the messages it sends, in order.  The modules that give    *)
(* the instances life (SinglePlayer, Duel) apply the operators and own the   *)
(* guards that belong to the devices.                                       *)
(*                                                                         *)
(* Left out: the HUD clock, the cursor's way over the board (any cell may be *)
(* under it when a player acts), MSG_CURSOR, and the forwarding of raw input *)
(* (MSG_KEY and MSG_MOUSE reach no statement that changes the host's state). *)
(***************************************************************************)
EXTENDS Bot

CONSTANTS TicksPerSec,     \* TICKS_PER_SEC
          CountdownStart,  \* COUNTDOWN_START, in seconds
          BlastTicks,      \* ticks of the explosion animation: 8 frames of 5
          SplashTicks,     \* ticks a miss adds to it (renderer.c:368)
          PostAttackTicks  \* POST_ATTACK_WAIT_TICKS

ASSUME TimingAssumption ==
  \A n \in {TicksPerSec, CountdownStart, BlastTicks, SplashTicks, PostAttackTicks} :
    n \in Nat \ {0}

Host == "host"
Client == "client"
Roles == {Host, Client}

Tags == {"MAIN_MENU", "INSTRUCTIONS", "WAITING_CONNECT", "PLACE_SHIPS_P1", "HANDOVER_P2",
         "PLACE_SHIPS_P2", "HANDOVER_P1", "PLACE_SHIPS_WAITING", "COUNTDOWN", "TURN_P1",
         "TURN_P2", "PAUSED", "GAME_OVER"}

\* The union "data" starts with one int that is menu.selected, pause.selected,
\* place.player, turn.player and game_over.winner: "word" is that int.
Fresh(role) ==
  [role |-> role, tag |-> "MAIN_MENU", prev |-> "MAIN_MENU", over |-> FALSE,
   single |-> FALSE, connected |-> FALSE, ready |-> FALSE,
   word |-> 0, idx |-> 0, p1 |-> EmptyBoard, p2 |-> EmptyBoard,
   secs |-> 0, cticks |-> 0, botTimer |-> 0, bot |-> BotReset,
   waiting |-> FALSE, post |-> 0,
   expl |-> "none", eticks |-> 0, done |-> FALSE, at |-> <<0, 0>>, ishit |-> FALSE,
   clicked |-> FALSE, out |-> << >>]

----------------------------------------------------------------------------
(* Internal helpers                                                        *)

\* A plausible bug: a click is not forgotten when the screen changes.
TransitionKeepsClick(m, next) == [m EXCEPT !.prev = m.tag, !.tag = next]

\* transition: every change of state forgets the latched mouse flags.
Transition(m, next) == [m EXCEPT !.prev = m.tag, !.tag = next, !.clicked = FALSE]

Send(m, msg) == [m EXCEPT !.out = Append(@, msg)]

StateMsg(tag) == [type |-> "STATE", state |-> tag]

\* A plausible bug: the client is not told.
PushSilent(m, next) == Transition(m, next)

\* Most of the host's transitions are pushed to the client in multiplayer.
Push(m, next) ==
  IF m.single THEN Transition(m, next) ELSE Send(Transition(m, next), StateMsg(next))

Quit(m) == [(IF m.role = Client THEN Send(m, [type |-> "QUIT"]) ELSE m) EXCEPT !.over = TRUE]

\* renderer_is_exploding
Exploding(m) == m.expl # "none"

\* start_explosion: a result not yet collected is dropped (renderer.c:332).
Explode(m, x, hit) ==
  [m EXCEPT !.expl = "blast", !.eticks = 0, !.done = FALSE, !.at = x, !.ishit = hit]

\* renderer_reset
CalmRenderer(m) ==
  [m EXCEPT !.expl = "none", !.eticks = 0, !.done = FALSE, !.at = <<0, 0>>, !.ishit = FALSE]

\* A plausible bug: the opponent's board of the last game stays.
ClearOwnBoard(m) == [m EXCEPT !.p1 = EmptyBoard]

ClearBoards(m) == [m EXCEPT !.p1 = EmptyBoard, !.p2 = EmptyBoard]

----------------------------------------------------------------------------
(* Menus: game_handle_keyboard, game_handle_mouse                          *)

NewGame(m) ==
  [CalmRenderer(ClearBoards(m)) EXCEPT !.bot = BotReset, !.word = 1, !.idx = 0]

\* Single Player is the host's only.
StartSingle(m) ==
  IF m.role # Host THEN m
  ELSE Transition([NewGame(m) EXCEPT !.single = TRUE], "PLACE_SHIPS_P1")

\* A plausible bug: the handshake of the last game still counts.
StartMultiConnected(m) ==
  Transition([NewGame(m) EXCEPT !.single = FALSE, !.ready = FALSE], "WAITING_CONNECT")

\* Multiplayer forgets the last handshake; remote_ready, tested afterwards in the
\* code, has just been cleared.
StartMulti(m) ==
  Transition([NewGame(m) EXCEPT !.single = FALSE, !.connected = FALSE, !.ready = FALSE],
             "WAITING_CONNECT")

\* The main menu's four options.
MenuChoose(m, option) ==
  CASE option = 0 -> StartSingle(m)
    [] option = 1 -> StartMulti(m)
    [] option = 2 -> Transition(m, "INSTRUCTIONS")
    [] option = 3 -> Quit(m)

\* A plausible bug: the client leaves a paused game without a word.
PauseChooseSilent(m, option) ==
  IF option = 0 THEN Transition(m, m.prev) ELSE [m EXCEPT !.over = TRUE]

\* The pause menu: Resume goes back where the pause began, Quit ends the program.
PauseChoose(m, option) ==
  IF option = 0 THEN Transition(m, m.prev) ELSE Quit(m)

\* Up and down arrows on the two menus.
Arrow(m, key) ==
  [m EXCEPT !.word = IF m.tag = "PAUSED" THEN (@ + 1) % 2
                     ELSE (@ + (IF key = "up" THEN 3 ELSE 1)) % 4]

\* Enter on the game-over screen: the boards are cleared, the host says so.
Rematch(m) ==
  Send(Transition([CalmRenderer(ClearBoards(m)) EXCEPT !.word = 0], "MAIN_MENU"),
       StateMsg("MAIN_MENU"))

----------------------------------------------------------------------------
(* Ship placement: game_handle_keyboard, game_handle_mouse                 *)

\* The screens on which the keyboard places ships: the client's own only, but
\* both of them on the host (game.c:307).
PlacesByKey(m) ==
  \/ m.tag = "PLACE_SHIPS_P2"
  \/ m.tag = "PLACE_SHIPS_P1" /\ m.role = Host

\* The mouse tests the role (game.c:526).
PlacesByMouse(m) ==
  m.tag = (IF m.role = Host THEN "PLACE_SHIPS_P1" ELSE "PLACE_SHIPS_P2")

PlacedOn(m) == IF m.tag = "PLACE_SHIPS_P1" THEN m.p1 ELSE m.p2

MirrorShip(m, ship) ==
  IF m.role = Client
  THEN Send(m, [type |-> "SHIP", cells |-> ship.cells, size |-> ship.size]) ELSE m

\* The last ship is placed: on to the next screen.
FleetPlaced(m) ==
  IF m.tag = "PLACE_SHIPS_P2"
  THEN Send(Transition(m, "PLACE_SHIPS_WAITING"), [type |-> "DONE"])
  ELSE IF m.single
  THEN Transition([m EXCEPT !.idx = 0, !.botTimer = 0], "PLACE_SHIPS_P2")
  ELSE Send(Transition([m EXCEPT !.idx = 0], "PLACE_SHIPS_WAITING"), StateMsg("PLACE_SHIPS_P2"))

\* Enter or a click puts ship number idx on the cells, if they are free.
PutShip(m, cells) ==
  LET size   == ShipSizes[m.idx + 1]
      board  == PlaceShip(PlacedOn(m), cells, size)
      placed == MirrorShip(IF m.tag = "PLACE_SHIPS_P1" THEN [m EXCEPT !.p1 = board]
                                                       ELSE [m EXCEPT !.p2 = board],
                           [cells |-> cells, size |-> size])
  IN  IF ~CanPlace(PlacedOn(m), cells) THEN m
      ELSE IF Len(board.ships) >= NumShips THEN FleetPlaced(placed)
      ELSE [placed EXCEPT !.idx = @ + 1]

----------------------------------------------------------------------------
(* Attack: game_handle_keyboard, game_handle_mouse                         *)

OwnsTurn(m) == m.tag = (IF m.role = Host THEN "TURN_P1" ELSE "TURN_P2")

Target(m) == IF m.tag = "TURN_P1" THEN m.p2 ELSE m.p1

SetTarget(m, b) == IF m.tag = "TURN_P1" THEN [m EXCEPT !.p2 = b] ELSE [m EXCEPT !.p1 = b]

\* A plausible bug: only the animation holds the next shot back.
CanFireInWait(m) == OwnsTurn(m) /\ ~Exploding(m)

\* A plausible bug: only the wait holds the next shot, and a pause, back.
CanFireInBlast(m) == OwnsTurn(m) /\ ~m.waiting

\* No shot while an explosion runs or the turn is about to be handed over.
CanFire(m) == OwnsTurn(m) /\ ~Exploding(m) /\ ~m.waiting

\* The host's own handling of a shot, at once on the board.
Resolve(m, x) ==
  LET b == Attack(Target(m), x)
  IN  Explode(SetTarget(m, b), x, b.grid[x] \in {"hit", "sunk"})

\* Enter, space or a click on a fresh cell: the client only asks for the shot.
FireAt(m, x) ==
  IF AlreadyAttacked(Target(m), x) THEN m
  ELSE IF m.role = Host THEN Resolve(m, x)
  ELSE Send(Explode(m, x, FALSE), [type |-> "ATTACK", cell |-> x])

----------------------------------------------------------------------------
(* game_handle_timer and update_animations                                 *)

Countdown(m) ==
  IF ~(m.role = Host /\ m.tag = "COUNTDOWN") THEN m
  ELSE IF m.cticks + 1 < TicksPerSec THEN [m EXCEPT !.cticks = @ + 1]
  ELSE LET n == [m EXCEPT !.cticks = 0, !.secs = @ - 1]
       IN  IF n.secs <= 0 THEN Push([n EXCEPT !.word = 1], "TURN_P1")
           ELSE IF n.single THEN n
           ELSE Send(n, [type |-> "SECONDS", secs |-> n.secs])

InTurn(m) == m.tag \in {"TURN_P1", "TURN_P2"}

\* The explosion is over: its result is told, and decides what comes next.
Result(m) ==
  IF ~(m.role = Host /\ InTurn(m) /\ ~m.waiting /\ m.done) THEN m
  ELSE LET result == ResultAt(Target(m), m.at)
           n      == [m EXCEPT !.done = FALSE]
           told   == IF m.single THEN n
                     ELSE Send(n, [type |-> "RESULT", cell |-> m.at, result |-> result])
           winner == IF m.tag = "TURN_P1" THEN 1 ELSE 2
           won    == Transition([told EXCEPT !.word = winner], "GAME_OVER")
       IN  IF AllSunk(Target(m))
           THEN IF m.single THEN won
                ELSE Send(Send(won, [type |-> "WINNER", winner |-> winner]),
                          StateMsg("GAME_OVER"))
           ELSE IF result = "miss" THEN [told EXCEPT !.waiting = TRUE, !.post = 0]
           ELSE told

\* A plausible bug: the turn comes back to the player who missed.
PostAttackSameSide(m) ==
  IF ~(m.role = Host /\ m.waiting) THEN m
  ELSE IF m.post + 1 < PostAttackTicks THEN [m EXCEPT !.post = @ + 1]
  ELSE Push([m EXCEPT !.waiting = FALSE, !.post = 0, !.cticks = 0], "HANDOVER_P1")

\* A plausible bug: only the host's own turn is handed over.
PostAttackOwnTurn(m) ==
  IF ~(m.role = Host /\ m.waiting /\ m.tag = "TURN_P1") THEN m
  ELSE IF m.post + 1 < PostAttackTicks THEN [m EXCEPT !.post = @ + 1]
  ELSE Push([m EXCEPT !.waiting = FALSE, !.post = 0, !.cticks = 0, !.word = 2], "HANDOVER_P2")

\* A plausible bug: the client is not told that its turn is over.
PostAttackSilent(m) ==
  IF ~(m.role = Host /\ m.waiting) THEN m
  ELSE IF m.post + 1 < PostAttackTicks THEN [m EXCEPT !.post = @ + 1]
  ELSE LET n == [m EXCEPT !.waiting = FALSE, !.post = 0, !.cticks = 0]
       IN  IF m.tag = "TURN_P1" THEN Push([n EXCEPT !.word = 2], "HANDOVER_P2")
           ELSE Transition([n EXCEPT !.word = 1], "HANDOVER_P1")

\* After a miss the screen stays for a while before the handover.
PostAttack(m) ==
  IF ~(m.role = Host /\ m.waiting) THEN m
  ELSE IF m.post + 1 < PostAttackTicks THEN [m EXCEPT !.post = @ + 1]
  ELSE LET n == [m EXCEPT !.waiting = FALSE, !.post = 0, !.cticks = 0]
       IN  IF m.tag = "TURN_P1" THEN Push([n EXCEPT !.word = 2], "HANDOVER_P2")
           ELSE Push([n EXCEPT !.word = 1], "HANDOVER_P1")

\* A plausible bug: the tick counter is not reset when the turn begins.
HandoverKeepsTicks(m) ==
  IF ~(m.role = Host /\ m.tag \in {"HANDOVER_P1", "HANDOVER_P2"}) THEN m
  ELSE IF m.cticks + 1 < TicksPerSec THEN [m EXCEPT !.cticks = @ + 1]
  ELSE Push([m EXCEPT !.cticks = @ + 1],
            IF m.tag = "HANDOVER_P1" THEN "TURN_P1" ELSE "TURN_P2")

\* The handover screen lasts a second.
Handover(m) ==
  IF ~(m.role = Host /\ m.tag \in {"HANDOVER_P1", "HANDOVER_P2"}) THEN m
  ELSE IF m.cticks + 1 < TicksPerSec THEN [m EXCEPT !.cticks = @ + 1]
  ELSE Push([m EXCEPT !.cticks = 0], IF m.tag = "HANDOVER_P1" THEN "TURN_P1" ELSE "TURN_P2")

BotReady(m) == m.tag = "TURN_P2" /\ ~Exploding(m) /\ ~m.waiting

\* The bot's part of a tick: the states it may lead to.
BotPlays(m) ==
  LET n == [m EXCEPT !.botTimer = @ + 1]
  IN  IF ~m.single THEN {m}
      ELSE IF m.tag = "PLACE_SHIPS_P2"
      THEN IF n.botTimer < 2 * TicksPerSec THEN {n}
           ELSE {Transition([n EXCEPT !.p2 = b, !.secs = CountdownStart, !.cticks = 0],
                            "COUNTDOWN") : b \in PlaceFleet(m.p2)}
      ELSE IF ~BotReady(m) THEN {m}
      ELSE IF n.botTimer < TicksPerSec THEN {n}
      ELSE {LET x == aimed.curr
                r == Resolve(m, x)
            IN  [r EXCEPT !.botTimer = 0, !.bot = Register(aimed, ResultAt(r.p1, x))]
            : aimed \in Choose(m.bot, m.p1)}

\* Whether this tick is the last one of the running phase of the animation.
LastFrame(m) == m.eticks + 1 >= (IF m.expl = "blast" THEN BlastTicks ELSE SplashTicks)

\* A plausible bug: the animation starts again instead of ending.
AnimateLoops(m) ==
  IF ~Exploding(m) THEN m
  ELSE IF ~LastFrame(m) THEN [m EXCEPT !.eticks = @ + 1]
  ELSE [m EXCEPT !.eticks = 0]

\* update_animations: the blast, for a miss followed by the splash; the end of it
\* sets explosion_finished, which the next tick reads.
Animate(m) ==
  IF ~Exploding(m) THEN m
  ELSE IF ~LastFrame(m) THEN [m EXCEPT !.eticks = @ + 1]
  ELSE IF m.expl = "blast" /\ ~m.ishit THEN [m EXCEPT !.expl = "splash", !.eticks = 0]
  ELSE [m EXCEPT !.expl = "none", !.eticks = 0, !.done = TRUE]

\* A step of a handler, from each of the states an earlier step leads to.
Then(states, Step(_)) == {Step(n) : n \in states}

\* handle_timer: a victory ends game_handle_timer early, never the animation.
Tick(m) ==
  LET told  == Then(Then({m}, Countdown), Result)
      ended == {n \in told : n.tag = "GAME_OVER" /\ m.tag # "GAME_OVER"}
      moved == Then(Then(told \ ended, PostAttack), Handover)
  IN  Then(ended \cup UNION Then(moved, BotPlays), Animate)

----------------------------------------------------------------------------
(* game_handle_serial_msg                                                  *)

\* The first MSG_HELLO since the last Multiplayer choice is answered.
Hello(m) ==
  LET known == Send([m EXCEPT !.connected = TRUE], [type |-> "HELLO_ACK"])
  IN  IF m.connected THEN m
      ELSE IF m.tag = "WAITING_CONNECT"
      THEN Send(Transition(known, "PLACE_SHIPS_P1"), StateMsg("PLACE_SHIPS_P1"))
      ELSE [known EXCEPT !.ready = TRUE]

\* Both fleets are placed: the host shows its own and starts the countdown.
DonePlacing(m) ==
  LET fleet == [i \in DOMAIN m.p1.ships |->
                  [type |-> "SHIP", cells |-> m.p1.ships[i].cells, size |-> m.p1.ships[i].size]]
      start == Transition([m EXCEPT !.out = @ \o fleet, !.secs = CountdownStart, !.cticks = 0],
                          "COUNTDOWN")
  IN  IF m.tag # "PLACE_SHIPS_WAITING" THEN m
      ELSE Send(Send(start, StateMsg("COUNTDOWN")), [type |-> "SECONDS", secs |-> CountdownStart])

\* A plausible bug: a shot asked for twice is resolved twice.
AttackTwice(m, x) == IF m.tag # "TURN_P2" THEN m ELSE Resolve(m, x)

\* A shot of the client counts in its turn only, and once.
AttackAsked(m, x) ==
  IF m.tag # "TURN_P2" \/ AlreadyAttacked(m.p1, x) THEN m ELSE Resolve(m, x)

HostReceives(m, msg) ==
  CASE msg.type = "HELLO"  -> Hello(m)
    [] msg.type = "DONE"   -> DonePlacing(m)
    [] msg.type = "SHIP"   -> [m EXCEPT !.p2 = PlaceShip(@, msg.cells, msg.size)]
    [] msg.type = "ATTACK" -> AttackAsked(m, msg.cell)
    [] msg.type = "QUIT"   -> [m EXCEPT !.over = TRUE]
    [] OTHER -> m

\* A plausible bug: a new screen always starts from cleared data.
FollowForgets(m, next) ==
  IF next = "EXIT" THEN [m EXCEPT !.over = TRUE]
  ELSE [Transition(m, next) EXCEPT !.word = 0, !.idx = 0]

\* MSG_STATE: the client follows wherever it is, unless it is already waiting
\* for a new game.
Follow(m, next) ==
  LET cleared == IF next = "MAIN_MENU" /\ m.tag = "GAME_OVER"
                 THEN CalmRenderer(ClearBoards(m)) ELSE m
      moved   == Transition(cleared, next)
  IN  IF next = "MAIN_MENU" /\ m.tag = "WAITING_CONNECT" THEN m
      ELSE IF next = "EXIT" THEN [m EXCEPT !.over = TRUE]
      ELSE IF next = "PLACE_SHIPS_P2" THEN [moved EXCEPT !.idx = 0]
      ELSE moved

\* A plausible bug: the opponent's fleet lands on the client's own board.
ReceiveShipOnOwn(m, msg) == [m EXCEPT !.p2 = PlaceShip(@, msg.cells, msg.size)]

\* MSG_SHIP_PLACE on the client: the host's board until it is full.
ReceiveShip(m, msg) ==
  IF Len(m.p1.ships) < NumShips
  THEN [m EXCEPT !.p1 = PlaceShip(@, msg.cells, msg.size)]
  ELSE [m EXCEPT !.p2 = PlaceShip(@, msg.cells, msg.size)]

\* MSG_ATTACK on the client: the reported result; its own shots it has animated.
ReceiveResult(m, x, result) ==
  LET n == SetTarget(m, MirrorAttack(Target(m), x, result))
  IN  IF m.tag = "TURN_P1" THEN Explode(n, x, result # "miss") ELSE n

ClientReceives(m, msg) ==
  CASE msg.type = "HELLO_ACK" -> [m EXCEPT !.connected = TRUE]
    [] msg.type = "STATE"     -> Follow(m, msg.state)
    [] msg.type = "SHIP"      -> ReceiveShip(m, msg)
    [] msg.type = "RESULT"    -> ReceiveResult(m, msg.cell, msg.result)
    [] msg.type = "SECONDS"   -> [m EXCEPT !.secs = msg.secs]
    [] msg.type = "WINNER"    -> [m EXCEPT !.word = msg.winner]
    [] OTHER -> m

Receive(m, msg) == IF m.role = Host THEN HostReceives(m, msg) ELSE ClientReceives(m, msg)

----------------------------------------------------------------------------
(* What a player sees of the game: the rules' view of an instance          *)

\* A pause freezes the screen it began on.
Screen(m) == IF m.tag = "PAUSED" THEN m.prev ELSE m.tag

TurnOf(m) ==
  CASE Screen(m) \in {"TURN_P1", "HANDOVER_P1"} -> 1
    [] Screen(m) \in {"TURN_P2", "HANDOVER_P2"} -> 2
    [] OTHER -> 0

\* The last shot of the turn fell in the water and the turn is still to pass.
MissPending(m) ==
  LET n == [m EXCEPT !.tag = Screen(m)]
  IN  InTurn(n) /\ (Exploding(m) \/ m.done \/ m.waiting) /\ Target(n).grid[m.at] = "miss"

WinnerOf(m) == IF m.tag = "GAME_OVER" THEN m.word ELSE 0

FleetCells(b) == UNION {b.ships[i].cells : i \in DOMAIN b.ships}

ShotCells(b) == {x \in Cells : AlreadyAttacked(b, x)}

\* The last shot's result has been read and acted upon.
Settled(m) == ~Exploding(m) /\ ~m.done /\ ~m.waiting
=============================================================================
