-------------------------- MODULE SinglePlayer_proofs --------------------------
(***************************************************************************)
(* The program on one machine, for every sea, fleet and timing.  First, for *)
(* whatever the player does, that the flags one handler sets and another    *)
(* reads some ticks later never reach a screen they were not meant for.     *)
(* Then that the program plays by the rules (Rules).  They see the two      *)
(* fleets, the shots, whose turn it is, whether the turn is to pass and who *)
(* has won: View.  Each handler is shown to change what they see in at most *)
(* one of the ways they allow, and a tick, which is six handlers in a row,  *)
(* in one of them altogether.  Last, that no counter leaves its range.      *)
(***************************************************************************)
EXTENDS SinglePlayer, Board_proofs

\* What the program keeps.
Fields == {"role", "tag", "prev", "over", "single", "connected", "ready", "word", "idx",
           "p1", "p2", "secs", "cticks", "botTimer", "bot", "waiting", "post", "expl",
           "eticks", "done", "at", "ishit", "clicked", "out"}

\* One of three things can be under way, and only on the screen of a turn, of which the
\* last, an animation's end, can also be seen through a pause.
Turns == {"TURN_P1", "TURN_P2"}

Shape(n) ==
  /\ DOMAIN n = Fields /\ n.role = Host /\ n.tag \in Tags
  /\ n.waiting \in BOOLEAN /\ n.done \in BOOLEAN /\ n.clicked \in BOOLEAN /\ n.single \in BOOLEAN

UnderWay(n) ==
  /\ Exploding(n) => n.tag \in Turns /\ ~n.waiting /\ ~n.done
  /\ n.waiting => n.tag \in Turns /\ ~n.done
  /\ n.done => Screen(n) \in Turns

\* A pause began where one can, and a click is latched only where it is ignored.
Paused(n) == n.tag = "PAUSED" => n.prev \in {"PLACE_SHIPS_P1", "PLACE_SHIPS_P2", "TURN_P1"}
Click(n) == n.clicked => n.tag = "TURN_P2"

\* Alone, and with the keyboard left alone while the bot places, nobody waits.
Alone(n) == n.single /\ ~KeysDuringDraw => n.tag # "PLACE_SHIPS_WAITING"

\* The ship to be placed is the next one, and the opponent has none.
Placing(n) ==
  /\ DOMAIN n.p1 = {"grid", "ships", "sunk"} /\ n.p1.ships \in Seq(Ship)
  /\ n.idx = Len(n.p1.ships) /\ n.idx < NumShips
  /\ n.p2 = EmptyBoard

Sound(n) ==
  /\ Shape(n) /\ UnderWay(n) /\ Paused(n) /\ Click(n) /\ Alone(n)
  /\ Screen(n) = "PLACE_SHIPS_P1" => Placing(n)

\* The inductive invariant.
SInv == Sound(m)

----------------------------------------------------------------------------
(* Changes of screen                                                       *)

\* A change of screen, told to a client or not, changes nothing else but the click.
GoesTo(n, next, c) == c = Transition(n, next) \/ c = Push(n, next)

LEMMA Transits ==
  ASSUME NEW n, DOMAIN n = Fields, NEW next, NEW c, GoesTo(n, next, c)
  PROVE  /\ DOMAIN c = Fields /\ c.tag = next /\ c.prev = n.tag /\ ~c.clicked /\ c.clicked \in BOOLEAN
         /\ c.role = n.role /\ c.over = n.over /\ c.single = n.single
         /\ c.idx = n.idx /\ c.p1 = n.p1 /\ c.p2 = n.p2
         /\ c.waiting = n.waiting /\ c.done = n.done /\ c.expl = n.expl
         /\ c.at = n.at /\ c.bot = n.bot /\ c.word = n.word /\ c.cticks = n.cticks
  BY DEF GoesTo, Transition, Push, Send, Fields

\* With nothing under way and outside the placement any screen that is not a pause is
\* sound.
LEMMA ArrivesSound ==
  ASSUME NEW n, Shape(n), ~Exploding(n), ~n.waiting, ~n.done,
         NEW next \in Tags \ {"PAUSED", "PLACE_SHIPS_P1"},
         next = "PLACE_SHIPS_WAITING" => ~n.single \/ KeysDuringDraw,
         NEW c, GoesTo(n, next, c)
  PROVE  Sound(c)
<1>1. DOMAIN c = Fields /\ c.tag = next /\ ~c.clicked /\ c.clicked \in BOOLEAN
  BY Transits DEF Shape
<1>2. c.role = Host /\ c.waiting = n.waiting /\ c.done = n.done /\ c.expl = n.expl /\ c.single = n.single
  BY Transits DEF Shape, Fields
<1>3. Screen(c) = next
  BY <1>1 DEF Screen
<1> QED BY <1>1, <1>2, <1>3 DEF Sound, Shape, UnderWay, Paused, Click, Alone, Exploding

\* A message sent changes nothing of it.
LEMMA SendSound == ASSUME NEW n, Sound(n), NEW msg PROVE Sound(Send(n, msg))
  BY DEF Sound, Shape, UnderWay, Paused, Click, Alone, Exploding, Placing, Screen, Send, Fields

\* Quitting stops the program where it is.
LEMMA QuitSound == ASSUME NEW n, Sound(n) PROVE Sound(Quit(n))
<1>1. Quit(n) = [n EXCEPT !.over = TRUE]
  BY DEF Quit, Sound, Shape, Host, Client
<1>2. Sound([n EXCEPT !.over = TRUE])
  BY DEF Sound, Shape, UnderWay, Paused, Click, Alone, Exploding, Placing, Screen, Fields
<1> QED BY <1>1, <1>2

----------------------------------------------------------------------------
(* The timer                                                               *)

\* The countdown begins the first player's turn.
LEMMA CountdownSound == ASSUME NEW n, Sound(n) PROVE Sound(Countdown(n))
<1>1. CASE n.tag # "COUNTDOWN"
  BY <1>1 DEF Countdown
<1>2. CASE n.tag = "COUNTDOWN"
  <2>1. ~Exploding(n) /\ ~n.waiting /\ ~n.done
    BY <1>2 DEF Sound, UnderWay, Turns, Screen
  <2> DEFINE ticked == [n EXCEPT !.cticks = n.cticks + 1]
             second == [n EXCEPT !.cticks = 0, !.secs = n.secs - 1]
             begun  == [second EXCEPT !.word = 1]
             told   == Send(second, [type |-> "SECONDS", secs |-> second.secs])
  <2>2. Countdown(n) \in {n, ticked, second, told, Push(begun, "TURN_P1")}
    BY DEF Countdown
  <2>3. Sound(ticked) /\ Sound(second)
    BY DEF Sound, Shape, UnderWay, Paused, Click, Alone, Exploding, Placing, Screen, Fields
  <2>6. Sound(told)
    BY <2>3, SendSound
  <2>4. Shape(begun) /\ ~Exploding(begun) /\ ~begun.waiting /\ ~begun.done
    BY <2>1 DEF Sound, Shape, Exploding, Fields
  <2>5. Sound(Push(begun, "TURN_P1"))
    BY <2>4, ArrivesSound DEF GoesTo, Tags
  <2> QED BY <2>2, <2>3, <2>5, <2>6
<1> QED BY <1>1, <1>2

\* A result is read once: it ends the game, begins the wait after a miss, or lets the
\* same player go on.
LEMMA ResultSound == ASSUME NEW n, Sound(n) PROVE Sound(Result(n))
<1>1. CASE ~(n.role = Host /\ InTurn(n) /\ ~n.waiting /\ n.done)
  BY <1>1 DEF Result
<1>2. CASE n.role = Host /\ InTurn(n) /\ ~n.waiting /\ n.done
  <2> DEFINE read   == [n EXCEPT !.done = FALSE]
             result == ResultAt(Target(n), n.at)
             told   == IF n.single THEN read
                       ELSE Send(read, [type |-> "RESULT", cell |-> n.at, result |-> result])
             winner == IF n.tag = "TURN_P1" THEN 1 ELSE 2
             final  == [told EXCEPT !.word = winner]
             won    == Transition(final, "GAME_OVER")
             shown  == Send(Send(won, [type |-> "WINNER", winner |-> winner]), StateMsg("GAME_OVER"))
             missed == [told EXCEPT !.waiting = TRUE, !.post = 0]
  <2>1. Result(n) \in {won, shown, missed, told}
    BY <1>2 DEF Result
  <2>2. /\ DOMAIN told = Fields /\ told.done = FALSE
        /\ \A f \in Fields \ {"done", "out"} : told[f] = n[f]
    BY DEF Sound, Shape, Send, Fields
  <2>3. ~Exploding(n) /\ n.tag \in Turns /\ ~n.waiting
    BY <1>2 DEF Sound, UnderWay, InTurn, Turns
  <2> HIDE DEF told, winner, result
  <2>4. Shape(final) /\ ~Exploding(final) /\ ~final.waiting /\ ~final.done
    BY <2>2, <2>3 DEF Sound, Shape, Exploding, Fields
  <2>5. Sound(won)
    BY <2>4, ArrivesSound DEF GoesTo, Tags
  <2>6. Sound(shown)
    BY <2>5, SendSound
  <2>7. Sound(missed) /\ Sound(told)
    BY <2>2, <2>3
       DEF Sound, Shape, UnderWay, Paused, Click, Alone, Exploding, Screen, Turns, Fields
  <2> QED BY <2>1, <2>5, <2>6, <2>7
<1> QED BY <1>1, <1>2

\* The wait after a miss ends with the turn it belongs to.
LEMMA PostAttackSound == ASSUME NEW n, Sound(n) PROVE Sound(PostAttack(n))
<1>1. CASE ~n.waiting
  BY <1>1 DEF PostAttack
<1>2. CASE n.waiting
  <2> DEFINE more == [n EXCEPT !.post = n.post + 1]
             over == [n EXCEPT !.waiting = FALSE, !.post = 0, !.cticks = 0]
             first == [over EXCEPT !.word = 1]
             second == [over EXCEPT !.word = 2]
  <2>1. PostAttack(n) \in {n, more, Push(second, "HANDOVER_P2"), Push(first, "HANDOVER_P1")}
    BY DEF PostAttack
  <2>2. Sound(more)
    BY DEF Sound, Shape, UnderWay, Paused, Click, Alone, Exploding, Placing, Screen, Fields
  <2>3. ASSUME NEW c \in {first, second}
        PROVE  Shape(c) /\ ~Exploding(c) /\ ~c.waiting /\ ~c.done
    BY <1>2, <2>3 DEF Sound, Shape, UnderWay, Exploding, Fields
  <2> HIDE DEF first, second
  <2>4. Sound(Push(second, "HANDOVER_P2")) /\ Sound(Push(first, "HANDOVER_P1"))
    BY <2>3, ArrivesSound DEF GoesTo, Tags
  <2> QED BY <2>1, <2>2, <2>4
<1> QED BY <1>1, <1>2

\* The handover screen gives way to the turn it announces.
LEMMA HandoverSound == ASSUME NEW n, Sound(n) PROVE Sound(Handover(n))
<1>1. CASE n.tag \notin {"HANDOVER_P1", "HANDOVER_P2"}
  BY <1>1 DEF Handover
<1>2. CASE n.tag \in {"HANDOVER_P1", "HANDOVER_P2"}
  <2> DEFINE more == [n EXCEPT !.cticks = n.cticks + 1]
             over == [n EXCEPT !.cticks = 0]
  <2>1. Handover(n) \in {n, more, Push(over, "TURN_P1"), Push(over, "TURN_P2")}
    BY DEF Handover
  <2>2. ~Exploding(n) /\ ~n.waiting /\ ~n.done
    BY <1>2 DEF Sound, UnderWay, Turns, Screen
  <2>3. Sound(more)
    BY DEF Sound, Shape, UnderWay, Paused, Click, Alone, Exploding, Placing, Screen, Fields
  <2>4. Shape(over) /\ ~Exploding(over) /\ ~over.waiting /\ ~over.done
    BY <2>2 DEF Sound, Shape, Exploding, Fields
  <2>5. Sound(Push(over, "TURN_P1")) /\ Sound(Push(over, "TURN_P2"))
    BY <2>4, ArrivesSound DEF GoesTo, Tags
  <2> QED BY <2>1, <2>3, <2>5
<1> QED BY <1>1, <1>2

\* The bot places its fleet or fires when nothing else is under way on its turn.
LEMMA BotPlaysSound == ASSUME NEW n, Sound(n), NEW c \in BotPlays(n) PROVE Sound(c)
<1> DEFINE ticked == [n EXCEPT !.botTimer = n.botTimer + 1]
<1>1. \/ c = n
      \/ c = ticked
      \/ /\ n.tag = "PLACE_SHIPS_P2"
         /\ \E b : c = Transition([ticked EXCEPT !.p2 = b, !.secs = CountdownStart, !.cticks = 0],
                                  "COUNTDOWN")
      \/ /\ BotReady(n)
         /\ \E b, x, hit, memory :
              c = [Explode(SetTarget(n, b), x, hit) EXCEPT !.botTimer = 0, !.bot = memory]
  BY DEF BotPlays, Resolve
<1>2. Sound(ticked)
  BY DEF Sound, Shape, UnderWay, Paused, Click, Alone, Exploding, Placing, Screen, Fields
<1>3. ASSUME n.tag = "PLACE_SHIPS_P2", NEW b,
             c = Transition([ticked EXCEPT !.p2 = b, !.secs = CountdownStart, !.cticks = 0], "COUNTDOWN")
      PROVE  Sound(c)
  <2> DEFINE drawn == [ticked EXCEPT !.p2 = b, !.secs = CountdownStart, !.cticks = 0]
  <2>1. ~Exploding(n) /\ ~n.waiting /\ ~n.done
    BY <1>3 DEF Sound, UnderWay, Turns, Screen
  <2>2. Shape(drawn) /\ ~Exploding(drawn) /\ ~drawn.waiting /\ ~drawn.done
    BY <2>1 DEF Sound, Shape, Exploding, Fields
  <2> HIDE DEF drawn
  <2>3. c = Transition(drawn, "COUNTDOWN")
    BY <1>3 DEF drawn
  <2> QED BY <2>2, <2>3, ArrivesSound DEF GoesTo, Tags
<1>4. ASSUME BotReady(n), NEW b, NEW x, NEW hit, NEW memory,
             c = [Explode(SetTarget(n, b), x, hit) EXCEPT !.botTimer = 0, !.bot = memory]
      PROVE  Sound(c)
  BY <1>4 DEF BotReady, Explode, SetTarget, Sound, Shape, UnderWay, Paused, Click, Alone, Exploding,
              Screen, Turns, Fields
<1> QED BY <1>1, <1>2, <1>3, <1>4

\* An animation goes on, or ends and leaves a result to read on the same screen.
LEMMA AnimateSound == ASSUME NEW n, Sound(n) PROVE Sound(Animate(n))
<1>1. CASE ~Exploding(n)
  BY <1>1 DEF Animate
<1>2. CASE Exploding(n)
  <2> DEFINE frame  == [n EXCEPT !.eticks = n.eticks + 1]
             splash == [n EXCEPT !.expl = "splash", !.eticks = 0]
             ended  == [n EXCEPT !.expl = "none", !.eticks = 0, !.done = TRUE]
  <2>1. Animate(n) \in {n, frame, splash, ended}
    BY DEF Animate
  <2>2. Sound(frame)
    BY <1>2 DEF Sound, Shape, UnderWay, Paused, Click, Alone, Exploding, Placing, Screen, Turns, Fields
  <2>3. Sound(splash)
    BY <1>2 DEF Sound, Shape, UnderWay, Paused, Click, Alone, Exploding, Placing, Screen, Turns, Fields
  <2>4. Sound(ended)
    BY <1>2 DEF Sound, Shape, UnderWay, Paused, Click, Alone, Exploding, Placing, Screen, Turns, Fields
  <2> QED BY <2>1, <2>2, <2>3, <2>4
<1> QED BY <1>1, <1>2

\* handle_timer's parts in their order.
LEMMA TickParts ==
  ASSUME NEW n, NEW c \in Tick(n)
  PROVE  LET told == Result(Countdown(n))
         IN  \/ c = Animate(told)
             \/ \E e \in BotPlays(Handover(PostAttack(told))) : c = Animate(e)
  BY DEF Tick, Then

\* So a whole tick, one handler after the other, keeps what each of them keeps.
LEMMA TickSound == ASSUME NEW n, Sound(n), NEW c \in Tick(n) PROVE Sound(c)
<1> DEFINE told == Result(Countdown(n))
<1>1. Sound(told) /\ Sound(Handover(PostAttack(told)))
  BY CountdownSound, ResultSound, PostAttackSound, HandoverSound
<1>2. \A e \in BotPlays(Handover(PostAttack(told))) : Sound(e)
  BY <1>1, BotPlaysSound
<1> QED BY <1>1, <1>2, TickParts, AnimateSound

----------------------------------------------------------------------------
(* Keys and clicks                                                         *)

\* Enter or a click puts a ship: the next one, until the fleet is complete.
LEMMA PutShipSound ==
  ASSUME NEW n, Sound(n), n.tag \in {"PLACE_SHIPS_P1", "PLACE_SHIPS_P2"},
         n.tag = "PLACE_SHIPS_P2" => KeysDuringDraw, NEW cells
  PROVE  Sound(PutShip(n, cells))
<1> DEFINE size   == ShipSizes[n.idx + 1]
           board  == PlaceShip(PlacedOn(n), cells, size)
           onto   == IF n.tag = "PLACE_SHIPS_P1" THEN [n EXCEPT !.p1 = board]
                                                 ELSE [n EXCEPT !.p2 = board]
           begun  == [onto EXCEPT !.idx = 0, !.botTimer = 0]
           handed == [onto EXCEPT !.idx = 0]
           next   == [onto EXCEPT !.idx = n.idx + 1]
<1>1. /\ DOMAIN onto = Fields /\ onto.role = Host /\ onto.tag = n.tag /\ onto.prev = n.prev
      /\ onto.waiting = n.waiting /\ onto.done = n.done /\ onto.clicked = n.clicked
      /\ onto.expl = n.expl /\ onto.idx = n.idx /\ onto.single = n.single
      /\ n.tag = "PLACE_SHIPS_P1" => onto.p1 = board /\ onto.p2 = n.p2
  BY DEF Sound, Shape, Fields
<1>2. \A ship : MirrorShip(onto, ship) = onto
  BY <1>1 DEF MirrorShip, Host, Client
<1>3. \/ PutShip(n, cells) = n
      \/ /\ CanPlace(PlacedOn(n), cells)
         /\ IF Len(board.ships) >= NumShips THEN PutShip(n, cells) = FleetPlaced(onto)
            ELSE PutShip(n, cells) = next
  <2> HIDE DEF onto
  <2>1. PutShip(n, cells) = IF ~CanPlace(PlacedOn(n), cells) THEN n
                            ELSE IF Len(board.ships) >= NumShips THEN FleetPlaced(onto)
                            ELSE [onto EXCEPT !.idx = onto.idx + 1]
    BY <1>2 DEF PutShip, onto
  <2> QED BY <1>1, <2>1
<1>4. ~Exploding(n) /\ ~n.waiting /\ ~n.done
  BY DEF Sound, UnderWay, Turns, Screen
<1> HIDE DEF onto, board
<1>5. Sound(FleetPlaced(onto))
  <2> DEFINE Rests(c) == Shape(c) /\ ~Exploding(c) /\ ~c.waiting /\ ~c.done /\ c.single = n.single
  <2>1. Rests(onto) /\ Rests(begun) /\ Rests(handed)
    <3>1. Rests(onto)
      BY <1>1, <1>4 DEF Sound, Shape, Exploding
    <3>2. Rests(begun)
      BY <1>1, <1>4 DEF Sound, Shape, Exploding, Fields
    <3>3. Rests(handed)
      BY <1>1, <1>4 DEF Sound, Shape, Exploding, Fields
    <3> QED BY <3>1, <3>2, <3>3
  <2> HIDE DEF begun, handed
  <2> DEFINE full == Transition(onto, "PLACE_SHIPS_WAITING")
             away == Transition(handed, "PLACE_SHIPS_WAITING")
  <2>2. CASE n.tag = "PLACE_SHIPS_P2"
    <3>1. Sound(full)
      BY <2>1, <2>2, ArrivesSound DEF GoesTo, Tags
    <3>2. Sound(Send(full, [type |-> "DONE"]))
      BY <3>1, SendSound
    <3> QED BY <1>1, <2>2, <3>2 DEF FleetPlaced
  <2>3. CASE n.tag = "PLACE_SHIPS_P1" /\ n.single
    <3>1. Sound(Transition(begun, "PLACE_SHIPS_P2"))
      BY <2>1, ArrivesSound DEF GoesTo, Tags
    <3> QED BY <1>1, <2>3, <3>1 DEF FleetPlaced, begun
  <2>4. CASE n.tag = "PLACE_SHIPS_P1" /\ ~n.single
    <3>1. Sound(away)
      BY <2>1, <2>4, ArrivesSound DEF GoesTo, Tags
    <3>2. Sound(Send(away, StateMsg("PLACE_SHIPS_P2")))
      BY <3>1, SendSound
    <3> QED BY <1>1, <2>4, <3>2 DEF FleetPlaced, handed
  <2> QED BY <2>2, <2>3, <2>4
<1>6. ASSUME CanPlace(PlacedOn(n), cells), ~(Len(board.ships) >= NumShips)
      PROVE  Sound(next)
  <2>1. CASE n.tag = "PLACE_SHIPS_P2"
    BY <1>1, <1>4, <2>1 DEF Sound, Shape, UnderWay, Paused, Click, Alone, Exploding, Screen, Fields
  <2>2. CASE n.tag = "PLACE_SHIPS_P1"
    <3> DEFINE ship == [cells |-> cells, size |-> size, hits |-> 0, sunk |-> FALSE]
    <3>1. Placing(n) /\ PlacedOn(n) = n.p1 /\ Screen(n) = "PLACE_SHIPS_P1"
      BY <2>2 DEF Sound, Screen, PlacedOn
    <3>2. /\ DOMAIN board = {"grid", "ships", "sunk"}
          /\ board.ships = Append(n.p1.ships, ship)
      BY <3>1 DEF board, PlaceShip, Placing
    <3>3. ship \in Ship
      <4>1. size \in Nat \ {0}
        BY <3>1, NumShipsType DEF Placing
      <4> QED BY <1>6, <4>1 DEF CanPlace, Ship
    <3>4. /\ board.ships \in Seq(Ship) /\ Len(board.ships) = n.idx + 1
      <4> HIDE DEF ship
      <4> QED BY <3>1, <3>2, <3>3 DEF Placing
    <3>5. /\ DOMAIN next = Fields /\ next.role = Host /\ next.tag = "PLACE_SHIPS_P1"
          /\ next.waiting = n.waiting /\ next.done = n.done /\ next.clicked = n.clicked
          /\ next.expl = n.expl /\ next.idx = n.idx + 1 /\ next.p1 = board /\ next.p2 = n.p2
          /\ next.single = n.single
      BY <1>1, <2>2 DEF Fields
    <3>6. Placing(next)
      <4>1. n.idx \in Nat /\ n.idx + 1 < NumShips
        BY <1>6, <3>1, <3>4, NumShipsType DEF Placing
      <4> HIDE DEF next, ship
      <4> QED BY <3>1, <3>2, <3>4, <3>5, <4>1 DEF Placing
    <3> HIDE DEF next
    <3> QED BY <1>4, <2>2, <3>5, <3>6 DEF Sound, Shape, UnderWay, Paused, Click, Alone, Exploding, Screen
  <2> QED BY <2>1, <2>2
<1> QED BY <1>3, <1>5, <1>6

\* The menus: a new game begins with nothing placed.
LEMMA MenuSound ==
  ASSUME NEW n, Sound(n), n.tag = "MAIN_MENU", NEW option \in {0, 2, 3}
  PROVE  Sound(MenuChoose(n, option))
<1>1. ~Exploding(n) /\ ~n.waiting /\ ~n.done /\ Screen(n) = "MAIN_MENU"
  BY DEF Sound, UnderWay, Turns, Screen
<1>2. CASE option = 0
  <2> DEFINE begun == [NewGame(n) EXCEPT !.single = TRUE]
             c == Transition(begun, "PLACE_SHIPS_P1")
  <2>1. /\ DOMAIN begun = Fields /\ begun.role = Host /\ begun.idx = 0
        /\ begun.p1 = EmptyBoard /\ begun.p2 = EmptyBoard
        /\ begun.waiting = n.waiting /\ begun.done = FALSE /\ begun.expl = "none"
        /\ begun.single = TRUE
    BY DEF NewGame, CalmRenderer, ClearBoards, Sound, Shape, Fields
  <2> HIDE DEF begun
  <2>2. /\ DOMAIN c = Fields /\ c.tag = "PLACE_SHIPS_P1" /\ ~c.clicked /\ c.clicked \in BOOLEAN
        /\ c.role = begun.role /\ c.idx = begun.idx /\ c.p1 = begun.p1 /\ c.p2 = begun.p2
        /\ c.waiting = begun.waiting /\ c.done = begun.done /\ c.expl = begun.expl
        /\ c.single = begun.single
    BY <2>1, Transits DEF GoesTo
  <2>3. Placing(c)
    <3>1. DOMAIN EmptyBoard = {"grid", "ships", "sunk"} /\ EmptyBoard.ships = << >>
      BY DEF EmptyBoard
    <3> HIDE DEF c
    <3> QED BY <2>1, <2>2, <3>1, NumShipsType DEF Placing
  <2>4. Sound(c)
    <3> HIDE DEF c
    <3> QED BY <1>1, <2>1, <2>2, <2>3
            DEF Sound, Shape, UnderWay, Paused, Click, Alone, Exploding, Tags
  <2> QED BY <1>2, <2>4 DEF MenuChoose, StartSingle, begun, Sound, Shape
<1>3. CASE option = 2
  <2>1. Sound(Transition(n, "INSTRUCTIONS"))
    BY <1>1, ArrivesSound DEF GoesTo, Tags, Sound
  <2> QED BY <1>3, <2>1 DEF MenuChoose
<1>4. CASE option = 3
  BY <1>4, QuitSound DEF MenuChoose
<1> QED BY <1>2, <1>3, <1>4

\* A shot of the player.
LEMMA FireSound ==
  ASSUME NEW n, Sound(n), CanFire(n), NEW x
  PROVE  Sound(FireAt(n, x))
<1>1. n.role = Host /\ n.tag = "TURN_P1" /\ ~n.waiting
  BY DEF CanFire, OwnsTurn, Sound, Shape
<1>2. ASSUME NEW b, NEW hit PROVE Sound(Explode(SetTarget(n, b), x, hit))
  BY <1>1 DEF Explode, SetTarget, Sound, Shape, UnderWay, Paused, Click, Alone, Exploding, Screen,
              Turns, Fields
<1> QED BY <1>1, <1>2 DEF FireAt, Resolve

\* Esc, and the way back.
LEMMA PauseSound ==
  ASSUME NEW n, Sound(n), PlacesByKey(n) \/ CanFire(n)
  PROVE  Sound(Transition(n, "PAUSED"))
<1> DEFINE c == Transition(n, "PAUSED")
<1>1. /\ n.role = Host /\ n.tag \in {"PLACE_SHIPS_P1", "PLACE_SHIPS_P2", "TURN_P1"}
      /\ ~Exploding(n) /\ ~n.waiting
  BY DEF PlacesByKey, CanFire, OwnsTurn, Sound, Shape, UnderWay, Turns
<1>2. /\ DOMAIN c = Fields /\ c.tag = "PAUSED" /\ c.prev = n.tag /\ ~c.clicked /\ c.clicked \in BOOLEAN
      /\ c.role = n.role /\ c.idx = n.idx /\ c.p1 = n.p1 /\ c.p2 = n.p2
      /\ c.waiting = n.waiting /\ c.done = n.done /\ c.expl = n.expl /\ c.single = n.single
  BY Transits DEF GoesTo, Sound, Shape
<1>3. Screen(c) = Screen(n)
  BY <1>1, <1>2 DEF Screen
<1> HIDE DEF c
<1> QED BY <1>1, <1>2, <1>3 DEF Sound, Shape, UnderWay, Paused, Click, Alone, Exploding, Placing, Tags, c

\* The pause menu resumes, gives up or quits.
LEMMA ResumeSound ==
  ASSUME NEW n, Sound(n), n.tag = "PAUSED", NEW option
  PROVE  Sound(PauseChoose(n, option))
<1> DEFINE c == Transition(n, n.prev)
<1>1. /\ n.prev \in {"PLACE_SHIPS_P1", "PLACE_SHIPS_P2", "TURN_P1"}
      /\ ~Exploding(n) /\ ~n.waiting
  BY DEF Sound, Paused, UnderWay, Turns
<1>2. /\ DOMAIN c = Fields /\ c.tag = n.prev /\ ~c.clicked /\ c.clicked \in BOOLEAN
      /\ c.role = n.role /\ c.idx = n.idx /\ c.p1 = n.p1 /\ c.p2 = n.p2
      /\ c.waiting = n.waiting /\ c.done = n.done /\ c.expl = n.expl /\ c.single = n.single
  BY Transits DEF GoesTo, Sound, Shape
<1>3. Screen(c) = n.prev /\ Screen(n) = n.prev
  BY <1>1, <1>2 DEF Screen
<1>4. Sound(c)
  <2> HIDE DEF c
  <2> QED BY <1>1, <1>2, <1>3 DEF Sound, Shape, UnderWay, Paused, Click, Alone, Exploding, Placing, Tags
<1> QED BY <1>4, QuitSound DEF PauseChoose

\* Enter after the game.
LEMMA RematchSound ==
  ASSUME NEW n, Sound(n), n.tag = "GAME_OVER"
  PROVE  Sound(Rematch(n))
<1> DEFINE calm == [CalmRenderer(ClearBoards(n)) EXCEPT !.word = 0]
<1>1. ~n.waiting
  BY DEF Sound, UnderWay, Turns
<1>2. Shape(calm) /\ ~Exploding(calm) /\ ~calm.waiting /\ ~calm.done
  BY <1>1 DEF CalmRenderer, ClearBoards, Exploding, Sound, Shape, Fields
<1> HIDE DEF calm
<1>3. Sound(Transition(calm, "MAIN_MENU"))
  BY <1>2, ArrivesSound DEF GoesTo, Tags
<1> QED BY <1>3, SendSound DEF Rematch, calm

----------------------------------------------------------------------------
(* The invariant                                                           *)

\* The program starts in the main menu.
LEMMA InitSound == Init => SInv
<1> SUFFICES ASSUME Init PROVE SInv
  OBVIOUS
<1>1. /\ DOMAIN m = Fields /\ m.role = Host /\ m.tag = "MAIN_MENU" /\ m.waiting = FALSE
      /\ m.done = FALSE /\ m.clicked = FALSE /\ m.expl = "none" /\ m.single = FALSE
  BY DEF Init, Fresh, Fields
<1> QED BY <1>1 DEF SInv, Sound, Shape, UnderWay, Paused, Click, Alone, Exploding, Screen, Tags

\* One step per action of the player and of the timer.
LEMMA StepSound == SInv /\ [Next]_m => SInv'
<1> SUFFICES ASSUME Sound(m), [Next]_m PROVE Sound(m')
  BY DEF SInv
<1>1. ASSUME NEW n, Sound(n), Become(n) PROVE Sound(m')
  BY <1>1 DEF Become, Sound, Shape, UnderWay, Paused, Click, Alone, Exploding, Placing, Screen, Fields
<1>2. CASE MenuArrow
  <2>1. ASSUME NEW key PROVE Sound(Arrow(m, key))
    BY DEF Arrow, Sound, Shape, UnderWay, Paused, Click, Alone, Exploding, Placing, Screen, Fields
  <2> QED BY <1>1, <1>2, <2>1 DEF MenuArrow
<1>3. CASE MenuEnter
  BY <1>1, <1>3, MenuSound DEF MenuEnter
<1>4. CASE LeaveInstructions
  <2>1. Shape(m) /\ ~Exploding(m) /\ ~m.waiting /\ ~m.done
    BY <1>4 DEF LeaveInstructions, Sound, UnderWay, Turns, Screen
  <2>2. Sound(Transition(m, "MAIN_MENU"))
    BY <2>1, ArrivesSound DEF GoesTo, Tags
  <2> QED BY <1>1, <1>4, <2>2 DEF LeaveInstructions
<1>5. CASE PlaceByMouse
  <2>1. m.tag = "PLACE_SHIPS_P1"
    BY <1>5 DEF PlaceByMouse, PlacesByMouse, Sound, Shape
  <2> QED BY <1>1, <1>5, <2>1, PutShipSound DEF PlaceByMouse
<1>6. CASE PlaceByKey
  <2>1. m.tag \in {"PLACE_SHIPS_P1", "PLACE_SHIPS_P2"}
    BY <1>6 DEF PlaceByKey, PlacesByKey
  <2> QED BY <1>1, <1>6, <2>1, PutShipSound DEF PlaceByKey
<1>7. CASE Fire
  BY <1>1, <1>7, FireSound DEF Fire
<1>8. CASE Pause
  BY <1>1, <1>8, PauseSound DEF Pause
<1>9. CASE PauseEnter
  BY <1>1, <1>9, ResumeSound DEF PauseEnter
<1>10. CASE GameOverEnter
  BY <1>1, <1>10, RematchSound DEF GameOverEnter
<1>11. CASE GameOverEsc
  <2>1. Sound([m EXCEPT !.over = TRUE])
    BY DEF Sound, Shape, UnderWay, Paused, Click, Alone, Exploding, Placing, Screen, Fields
  <2> QED BY <1>1, <1>11, <2>1 DEF GameOverEsc
<1>12. CASE ClickInBotTurn
  <2>1. Sound([m EXCEPT !.clicked = TRUE])
    BY <1>12 DEF ClickInBotTurn, Sound, Shape, UnderWay, Paused, Click, Alone, Exploding, Placing, Screen,
                 Fields
  <2> QED BY <1>1, <1>12, <2>1 DEF ClickInBotTurn
<1>13. CASE Timer
  BY <1>1, <1>13, TickSound DEF Timer
<1>14. CASE UNCHANGED m
  BY <1>14
<1> QED BY <1>2, <1>3, <1>4, <1>5, <1>6, <1>7, <1>8, <1>9, <1>10, <1>11, <1>12, <1>13, <1>14 DEF Next

\* Between two handlers at most one of animation, unread result and wait is under way,
\* on the screen of the turn it belongs to, whatever keys, clicks and ticks have come
\* in whatever order.
THEOREM Soundness == Spec => []SInv
<1>1. Init => SInv
  BY InitSound
<1>2. SInv /\ [Next]_m => SInv'
  BY StepSound
<1> QED BY <1>1, <1>2, PTL DEF Spec

\* An explosion stays on its turn's screen and its end is read there: the flag that
\* update_animations sets in one tick and game_handle_timer reads in the next.
THEOREM ResultsInTheirTurn == Spec => []ResultReadInItsTurn
<1>1. SInv => ResultReadInItsTurn
  <2> SUFFICES ASSUME Sound(m) PROVE ResultReadInItsTurn
    BY DEF SInv
  <2>1. m.done => InTurn([m EXCEPT !.tag = Screen(m)])
    BY DEF Sound, Shape, UnderWay, InTurn, Turns, Fields
  <2> QED BY <2>1 DEF ResultReadInItsTurn, Sound, UnderWay, InTurn, Turns
<1> QED BY <1>1, Soundness, PTL

\* No latched click outlives the screen that ignored it, since every change of screen
\* forgets it.
THEOREM ClicksForgotten == Spec => []NoStaleClick
<1>1. SInv => NoStaleClick
  BY DEF SInv, Sound, Click, NoStaleClick
<1> QED BY <1>1, Soundness, PTL

\* The pause menu's Resume leads back to where a pause can begin, with nothing cut in
\* two.
THEOREM ResumesSafely == Spec => []ResumeIsSafe
<1>1. SInv => ResumeIsSafe
  BY DEF SInv, Sound, Paused, UnderWay, Turns, ResumeIsSafe
<1> QED BY <1>1, Soundness, PTL

\* SHIP_SIZES is read at the next ship's place and never past its end.
THEOREM ShipsInOrder == Spec => []NextShipInOrder
<1>1. SInv => NextShipInOrder
  BY DEF SInv, Sound, Placing, NextShipInOrder
<1> QED BY <1>1, Soundness, PTL

\* The waiting screen of placement is a game of two's, as long as nobody presses a key
\* while the bot places its ships: PLACE_SHIPS_P2 on the host takes keys (game.c:307).
THEOREM NobodyWaitsAlone == ASSUME ~KeysDuringDraw PROVE Spec => []NoWaitingAlone
<1>1. SInv => NoWaitingAlone
  BY DEF SInv, Sound, Alone, NoWaitingAlone
<1> QED BY <1>1, Soundness, PTL

----------------------------------------------------------------------------
(* What the rules see of a board                                           *)

\* A fleet is beaten when the counter says so, and a cell shot at shows a miss when no
\* ship is there.
LEMMA BoardView ==
  ASSUME NEW b, Good(b)
  PROVE  /\ ShotCells(b) = ShotOn(b)
         /\ FleetCells(b) \subseteq Cells
         /\ Len(b.ships) = NumShips => (AllSunk(b) <=> FleetCells(b) \subseteq ShotOn(b))
         /\ \A x \in ShotOn(b) : b.grid[x] = "miss" <=> x \notin FleetCells(b)
<1>1. DOMAIN b.ships = Ids(b) /\ \A i \in Ids(b) : b.ships[i].cells \in SUBSET Cells
  BY RecordFields DEF Good
<1>2. \A x : x \in FleetCells(b) <=> \E i \in Ids(b) : x \in b.ships[i].cells
  BY <1>1 DEF FleetCells
<1>3. ShotCells(b) = ShotOn(b)
  BY DEF ShotCells, ShotOn
<1>4. FleetCells(b) \subseteq ShotOn(b) <=> \A i \in Ids(b) : Gone(b, i)
  BY <1>2 DEF Gone
<1>5. ASSUME NEW x \in ShotOn(b) PROVE b.grid[x] = "miss" <=> x \notin FleetCells(b)
  <2>1. x \in Cells /\ b.grid[x] = Shows(b, x)
    BY DEF ShotOn, Good, GridFits
  <2>2. ShipsAt(b, x) = {} <=> x \notin FleetCells(b)
    BY <1>2 DEF ShipsAt
  <2> QED BY <2>1, <2>2 DEF Shows
<1> QED BY <1>1, <1>2, <1>3, <1>4, <1>5, LossIsCounted

\* A step that leaves the ships leaves their cells.
LEMMA SameFleetCells ==
  ASSUME NEW b, Good(b), NEW c, Good(c), SameShips(b, c)
  PROVE  FleetCells(c) = FleetCells(b)
<1>1. DOMAIN b.ships = Ids(b) /\ DOMAIN c.ships = Ids(c)
  BY RecordFields DEF Good
<1> QED BY <1>1 DEF FleetCells, SameShips, Ids

\* A fleet nobody has shot at is afloat.
LEMMA Afloat ==
  ASSUME NEW b, Good(b), ShotOn(b) = {}
  PROVE  ~AllSunk(b)
<1> SUFFICES ASSUME AllSunk(b) PROVE FALSE
  OBVIOUS
<1>1. 1 \in Ids(b) /\ Gone(b, 1)
  BY LossIsCounted, NumShipsType DEF Ids
<1>2. b.ships[1].cells = {} /\ Cardinality(b.ships[1].cells) = b.ships[1].size
  BY <1>1 DEF Gone, Good, Whole
<1>3. b.ships[1].size # 0
  BY <1>1, RecordFields DEF Good
<1> QED BY <1>2, <1>3, FS_EmptySet

\* A miss takes no ship along.
LEMMA MissSpares ==
  ASSUME NEW b, Good(b), NEW x \in Cells, ~AlreadyAttacked(b, x), ~AllSunk(b),
         NEW c, c = Attack(b, x), c.grid[x] = "miss"
  PROVE  ~AllSunk(c)
<1>1. CASE b.grid[x] # "ship"
  BY <1>1, MissEffect DEF AllSunk, Good
<1>2. CASE b.grid[x] = "ship"
  <2>1. PICK k \in Ids(b) : /\ x \in b.ships[k].cells /\ ~b.ships[k].sunk
                            /\ Struck(b, x) = {k}
    BY <1>2, ShipStruck
  <2>2. c.grid[x] \in {"sunk", "hit"}
    BY <1>2, <2>1, StrikeEffect DEF Good
  <2> QED BY <2>2
<1> QED BY <1>1, <1>2

\* The fleet the bot draws is a complete one, apart and on the sea.
LEMMA DrawnIsGood ==
  ASSUME NEW c \in PlaceFleet(EmptyBoard)
  PROVE  Good(c) /\ ShotOn(c) = {} /\ Len(c.ships) = NumShips
<1>1. PICK f \in Fleets(EmptyBoard) :
        c = [EmptyBoard EXCEPT
               !.grid  = [x \in Cells |-> IF \E i \in 1 .. NumShips : x \in f[i]
                                          THEN "ship" ELSE EmptyBoard.grid[x]],
               !.ships = EmptyBoard.ships \o [i \in 1 .. NumShips |->
                                               [cells |-> f[i], size |-> ShipSizes[i],
                                                hits |-> 0, sunk |-> FALSE]]]
  BY DEF PlaceFleet
<1> DEFINE ships == [i \in 1 .. NumShips |->
                       [cells |-> f[i], size |-> ShipSizes[i], hits |-> 0, sunk |-> FALSE]]
<1>2. NumShips \in Nat \ {0} /\ \A i \in 1 .. NumShips : ShipSizes[i] \in Nat \ {0}
  BY NumShipsType
<1>3. /\ \A i \in 1 .. NumShips : f[i] \in Footprints(ShipSizes[i]) /\ f[i] \in SUBSET Cells
      /\ \A i \in 1 .. NumShips : \A j \in 1 .. i - 1 : f[i] \cap f[j] = {}
  BY DEF Fleets, CanPlace
<1>4. \A i \in 1 .. NumShips : ships[i] \in Ship
  BY <1>2, <1>3 DEF Ship
<1>5. ships \in Seq(Ship) /\ Len(ships) = NumShips /\ << >> \o ships = ships
  <2>1. ships \in [1 .. NumShips -> Ship]
    BY <1>4
  <2> HIDE DEF ships
  <2>2. ships \in Seq(Ship) /\ Len(ships) = NumShips
    BY <1>2, <2>1, SeqDef, LenProperties
  <2> QED BY <2>2, ConcatEmptySeq
<1>6. /\ DOMAIN EmptyBoard = {"grid", "ships", "sunk"}
      /\ EmptyBoard.grid = [x \in Cells |-> "empty"]
      /\ EmptyBoard.ships = << >> /\ EmptyBoard.sunk = 0
  BY DEF EmptyBoard
<1>7. /\ DOMAIN c = {"grid", "ships", "sunk"}
      /\ c.grid = [x \in Cells |-> IF \E i \in 1 .. NumShips : x \in f[i] THEN "ship" ELSE "empty"]
      /\ c.ships = ships /\ c.sunk = 0
  <2> HIDE DEF ships
  <2>1. c = [EmptyBoard EXCEPT
               !.grid  = [x \in Cells |-> IF \E i \in 1 .. NumShips : x \in f[i]
                                          THEN "ship" ELSE EmptyBoard.grid[x]],
               !.ships = ships]
    BY <1>1, <1>5, <1>6 DEF ships
  <2> QED BY <1>6, <2>1
<1>8. Ids(c) = 1 .. NumShips /\ ShotOn(c) = {} /\ DOMAIN c.ships = 1 .. NumShips
  BY <1>5, <1>7 DEF Ids, ShotOn, AlreadyAttacked
<1>9. \A i \in 1 .. NumShips : /\ c.ships[i].cells = f[i] /\ c.ships[i].size = ShipSizes[i]
                               /\ c.ships[i].hits = 0 /\ c.ships[i].sunk = FALSE
  BY <1>7
<1>10. Len(c.ships) = NumShips /\ c.ships \in Seq(Ship)
  BY <1>5, <1>7
<1> HIDE DEF ships
<1>11. BoardType(c)
  BY <1>2, <1>7, <1>10 DEF BoardType, CellStates
<1>12. Apart(c)
  <2>1. ASSUME NEW i \in 1 .. NumShips, NEW j \in 1 .. NumShips, i # j
        PROVE  f[i] \cap f[j] = {}
    <3>1. j \in 1 .. i - 1 \/ i \in 1 .. j - 1
      BY <1>2, <2>1
    <3> QED BY <1>3, <3>1
  <2> QED BY <1>8, <1>9, <2>1 DEF Apart
<1>13. Whole(c)
  BY <1>2, <1>3, <1>8, <1>9, FootprintSize DEF Whole
<1>14. Untouched(c)
  BY <1>8 DEF Untouched
<1>15. GridFits(c)
  <2>1. \A x \in Cells : ShipsAt(c, x) = {} <=> ~ \E i \in 1 .. NumShips : x \in f[i]
    BY <1>8, <1>9 DEF ShipsAt
  <2> QED BY <1>7, <1>8, <2>1 DEF GridFits, Shows
<1>16. CountsFit(c)
  <2>1. {i \in DOMAIN c.ships : c.ships[i].sunk} = {}
    BY <1>8, <1>9
  <2>2. \A i \in 1 .. NumShips : f[i] \cap {} = {} /\ ~(f[i] \subseteq {})
    <3>1. ASSUME NEW i \in 1 .. NumShips, f[i] = {} PROVE FALSE
      <4>1. Cardinality(f[i]) = ShipSizes[i] /\ ShipSizes[i] # 0
        BY <1>2, <1>3, FootprintSize
      <4> QED BY <3>1, <4>1, FS_EmptySet
    <3> QED BY <3>1
  <2>3. c.sunk = Cardinality({i \in DOMAIN c.ships : c.ships[i].sunk})
    BY <1>7, <2>1, FS_EmptySet
  <2>4. \A i \in DOMAIN c.ships :
          /\ c.ships[i].hits = Cardinality(c.ships[i].cells \cap ShotOn(c))
          /\ c.ships[i].sunk <=> c.ships[i].cells \subseteq ShotOn(c)
    BY <1>8, <1>9, <2>2, FS_EmptySet
  <2> QED BY <2>3, <2>4 DEF CountsFit
<1> QED BY <1>8, <1>10, <1>11, <1>12, <1>13, <1>14, <1>15, <1>16 DEF Good

----------------------------------------------------------------------------
(* Fair play                                                               *)

Opposite(n) == IF Screen(n) = "TURN_P1" THEN n.p2 ELSE n.p1
Own(n) == IF Screen(n) = "TURN_P1" THEN n.p1 ELSE n.p2

\* The last shot fell in the water and has still to end the turn.
Missed(n) == Screen(n) \in Turns /\ ~Settled(n) /\ Opposite(n).grid[n.at] = "miss"

Menus == {"MAIN_MENU", "INSTRUCTIONS"}
Setup == {"PLACE_SHIPS_P1", "PLACE_SHIPS_P2", "COUNTDOWN"}
Handovers == {"HANDOVER_P1", "HANDOVER_P2"}

Complete(b) == Len(b.ships) = NumShips

\* Two boards in order; before the fight nobody has shot and a fleet is there once its
\* owner has left the placement.
Prepares(n) ==
  /\ Good(n.p1) /\ Good(n.p2)
  /\ Screen(n) \in Menus \cup Setup \cup Turns \cup Handovers \cup {"GAME_OVER"}
  /\ Screen(n) = "PLACE_SHIPS_P1" => n.single
  /\ Screen(n) \in Setup => ShotOn(n.p1) = {} /\ ShotOn(n.p2) = {}
  /\ Screen(n) = "PLACE_SHIPS_P2" => Complete(n.p1) /\ n.p2 = EmptyBoard
  /\ Screen(n) \in {"COUNTDOWN"} \cup Turns \cup Handovers => Complete(n.p1) /\ Complete(n.p2)

\* A fleet that is lost is lost by the shot whose result is still to be read, and a wait
\* is for a miss.
Fights(n) ==
  /\ Screen(n) \in Handovers => ~AllSunk(n.p1) /\ ~AllSunk(n.p2)
  /\ Screen(n) \in Turns => ~AllSunk(Own(n))
  /\ Screen(n) \in Turns /\ AllSunk(Opposite(n)) => ~Settled(n) /\ ~Missed(n)
  /\ n.waiting => Missed(n)

\* What the probing loop needs of the bot's memory.
Remembers(bot) ==
  DOMAIN bot = {"mode", "first", "curr", "dir", "tried"} /\ bot.tried \in Int

Fair(n) == Sound(n) /\ Prepares(n) /\ Fights(n) /\ Remembers(n.bot)

\* What the rules see of a program.
View(n) ==
  [turn   |-> TurnOf(n),
   missed |-> Missed(n),
   fleet  |-> [p \in 1 .. 2 |-> FleetCells(IF p = 1 THEN n.p1 ELSE n.p2)],
   shots  |-> [p \in 1 .. 2 |-> ShotCells(IF p = 1 THEN n.p1 ELSE n.p2)],
   winner |-> WinnerOf(n)]

\* The steps of the rules, of two views.
Prepared(v, w) ==
  /\ v.turn = 0 /\ w.turn = 0 /\ ~v.missed /\ ~w.missed
  /\ \A p \in 1 .. 2 : w.fleet[p] \subseteq Cells
  /\ w.shots = [p \in 1 .. 2 |-> {}]
  /\ w.winner = 0

Begun(v, w) ==
  /\ v.turn = 0 /\ v.winner = 0 /\ w.winner = 0 /\ w.turn = 1 /\ ~v.missed /\ ~w.missed
  /\ \A p \in 1 .. 2 : ~(v.fleet[p] \subseteq v.shots[p])
  /\ w.fleet = v.fleet /\ w.shots = v.shots

Shot(v, w) ==
  /\ v.turn \in 1 .. 2 /\ w.turn = v.turn /\ ~v.missed /\ w.winner = v.winner
  /\ ~(v.fleet[3 - v.turn] \subseteq v.shots[3 - v.turn])
  /\ \E x \in Cells \ v.shots[3 - v.turn] :
       /\ w.shots = [v.shots EXCEPT ![3 - v.turn] = @ \cup {x}]
       /\ w.missed <=> x \notin v.fleet[3 - v.turn]
  /\ w.fleet = v.fleet

Passed(v, w) ==
  /\ v.turn \in 1 .. 2 /\ v.missed /\ w.turn = 3 - v.turn /\ ~w.missed
  /\ w.fleet = v.fleet /\ w.shots = v.shots /\ w.winner = v.winner

Won(v, w) ==
  /\ v.turn \in 1 .. 2 /\ ~v.missed /\ ~w.missed
  /\ v.fleet[3 - v.turn] \subseteq v.shots[3 - v.turn]
  /\ w.winner = v.turn /\ w.turn = 0
  /\ w.fleet = v.fleet /\ w.shots = v.shots

Ruled(v, w) ==
  v = w \/ Prepared(v, w) \/ Begun(v, w) \/ Shot(v, w) \/ Passed(v, w) \/ Won(v, w)

\* An unread end of an animation is the only thing seen through a pause.
LEMMA MissSeen ==
  ASSUME NEW n, Shape(n)
  PROVE  MissPending(n) <=> Missed(n)
<1> DEFINE r == [n EXCEPT !.tag = Screen(n)]
<1>1. r.tag = Screen(n) /\ r.p1 = n.p1 /\ r.p2 = n.p2
  BY DEF Shape, Fields
<1>2. InTurn(r) <=> Screen(n) \in Turns
  BY <1>1 DEF InTurn, Turns
<1>3. Target(r) = Opposite(n)
  BY <1>1 DEF Target, Opposite
<1> HIDE DEF r
<1>4. MissPending(n) <=> /\ InTurn(r) /\ (Exploding(n) \/ n.done \/ n.waiting)
                         /\ Target(r).grid[n.at] = "miss"
  BY DEF MissPending, r
<1> QED BY <1>2, <1>3, <1>4 DEF Missed, Settled

\* Both say yes or no.
LEMMA MissBoolean == ASSUME NEW n PROVE MissPending(n) \in BOOLEAN /\ Missed(n) \in BOOLEAN
<1>1. MissPending(n) \in BOOLEAN
  BY DEF MissPending
<1>2. Missed(n) \in BOOLEAN
  BY DEF Missed
<1> QED BY <1>1, <1>2

\* A step of the views is a step of the rules.
LEMMA RulesStep ==
  ASSUME Shape(m), Shape(m'), Ruled(View(m), View(m'))
  PROVE  [R!Next]_(R!vars)
<1> DEFINE v == View(m)
           w == View(m')
<1>1. ASSUME NEW n, Shape(n)
      PROVE  /\ View(n).turn = TurnOf(n) /\ View(n).missed = MissPending(n)
             /\ View(n).fleet = [p \in 1 .. 2 |-> FleetCells(IF p = 1 THEN n.p1 ELSE n.p2)]
             /\ View(n).shots = [p \in 1 .. 2 |-> ShotCells(IF p = 1 THEN n.p1 ELSE n.p2)]
             /\ View(n).winner = WinnerOf(n)
  <2>1. MissPending(n) = Missed(n)
    BY <1>1, MissSeen, MissBoolean
  <2> QED BY <2>1 DEF View
<1>2. /\ v.turn = TurnOf(m) /\ v.missed = MissPending(m)
      /\ v.fleet = [p \in 1 .. 2 |-> FleetCells(IF p = 1 THEN m.p1 ELSE m.p2)]
      /\ v.shots = [p \in 1 .. 2 |-> ShotCells(IF p = 1 THEN m.p1 ELSE m.p2)]
      /\ v.winner = WinnerOf(m)
  BY <1>1
<1>3. /\ w.turn = TurnOf(m)' /\ w.missed = MissPending(m)'
      /\ w.fleet = [p \in 1 .. 2 |-> FleetCells(IF p = 1 THEN m.p1 ELSE m.p2)]'
      /\ w.shots = [p \in 1 .. 2 |-> ShotCells(IF p = 1 THEN m.p1 ELSE m.p2)]'
      /\ w.winner = WinnerOf(m)'
  BY <1>1
<1>4. MissPending(m) \in BOOLEAN /\ MissPending(m)' \in BOOLEAN
  BY MissBoolean
<1> HIDE DEF v, w
<1>5. CASE v = w
  BY <1>2, <1>3, <1>5 DEF R!vars
<1>6. CASE Prepared(v, w)
  <2>1. R!Prepare
    BY <1>2, <1>3, <1>4, <1>6 DEF R!Prepare, R!Players, Prepared
  <2> QED BY <2>1 DEF R!Next
<1>7. CASE Begun(v, w)
  <2>1. R!Begin
    BY <1>2, <1>3, <1>4, <1>7 DEF R!Begin, R!Players, R!Beaten, Begun
  <2> QED BY <2>1 DEF R!Next
<1>8. CASE Shot(v, w)
  <2>1. PICK x \in Cells \ v.shots[3 - v.turn] :
          /\ w.shots = [v.shots EXCEPT ![3 - v.turn] = @ \cup {x}]
          /\ w.missed <=> x \notin v.fleet[3 - v.turn]
    BY <1>8 DEF Shot
  <2>2. w.missed = (x \notin v.fleet[3 - v.turn])
    BY <1>3, <1>4, <2>1
  <2>3. v.turn \in {1, 2} /\ ~v.missed /\ ~(v.fleet[3 - v.turn] \subseteq v.shots[3 - v.turn])
    BY <1>8 DEF Shot
  <2>4. w.turn = v.turn /\ w.fleet = v.fleet /\ w.winner = v.winner
    BY <1>8 DEF Shot
  <2>5. R!Shoot
    BY <1>2, <1>3, <2>1, <2>2, <2>3, <2>4 DEF R!Shoot, R!Players, R!Other, R!Beaten
  <2> QED BY <2>5 DEF R!Next
<1>9. CASE Passed(v, w)
  <2>1. R!Pass
    BY <1>2, <1>3, <1>4, <1>9 DEF R!Pass, R!Players, R!Other, Passed
  <2> QED BY <2>1 DEF R!Next
<1>10. CASE Won(v, w)
  <2>1. R!Win
    BY <1>2, <1>3, <1>4, <1>10 DEF R!Win, R!Players, R!Other, R!Beaten, Won
  <2> QED BY <2>1 DEF R!Next
<1> QED BY <1>5, <1>6, <1>7, <1>8, <1>9, <1>10 DEF Ruled, v, w

\* The view of a program, by its screen.
LEMMA ViewFields ==
  ASSUME NEW n, Sound(n), Good(n.p1), Good(n.p2)
  PROVE  /\ View(n).turn = IF Screen(n) \in {"TURN_P1", "HANDOVER_P1"} THEN 1
                           ELSE IF Screen(n) \in {"TURN_P2", "HANDOVER_P2"} THEN 2 ELSE 0
         /\ View(n).missed = Missed(n)
         /\ View(n).fleet = [p \in 1 .. 2 |-> IF p = 1 THEN FleetCells(n.p1) ELSE FleetCells(n.p2)]
         /\ View(n).shots = [p \in 1 .. 2 |-> IF p = 1 THEN ShotOn(n.p1) ELSE ShotOn(n.p2)]
         /\ View(n).winner = IF Screen(n) = "GAME_OVER" THEN n.word ELSE 0
<1>1. ShotCells(n.p1) = ShotOn(n.p1) /\ ShotCells(n.p2) = ShotOn(n.p2)
  BY BoardView
<1>2. n.tag = "GAME_OVER" <=> Screen(n) = "GAME_OVER"
  BY DEF Sound, Paused, Screen
<1>3. View(n).fleet = [p \in 1 .. 2 |-> IF p = 1 THEN FleetCells(n.p1) ELSE FleetCells(n.p2)]
  BY DEF View
<1>4. View(n).shots = [p \in 1 .. 2 |-> IF p = 1 THEN ShotOn(n.p1) ELSE ShotOn(n.p2)]
  BY <1>1 DEF View
<1>5. View(n).turn = TurnOf(n) /\ View(n).missed = Missed(n) /\ View(n).winner = WinnerOf(n)
  BY DEF View
<1> QED BY <1>2, <1>3, <1>4, <1>5 DEF TurnOf, WinnerOf

\* What two programs have in common that the rules cannot tell apart.
Alike(n, c) ==
  /\ c.p1 = n.p1 /\ c.p2 = n.p2 /\ c.bot = n.bot /\ c.single = n.single
  /\ Screen(c) = Screen(n)
  /\ Screen(n) \in Turns => c.at = n.at /\ (Settled(c) <=> Settled(n))
  /\ Screen(n) = "GAME_OVER" => c.word = n.word
  /\ c.waiting => Missed(n)

\* They are fair together and look the same.
LEMMA AlikeKeeps ==
  ASSUME NEW n, Fair(n), NEW c, Sound(c), Alike(n, c)
  PROVE  Fair(c) /\ View(c) = View(n)
<1>1. Opposite(c) = Opposite(n) /\ Own(c) = Own(n)
  BY DEF Alike, Opposite, Own
<1>2. Missed(c) = Missed(n)
  BY <1>1 DEF Missed, Alike
<1>3. Prepares(c)
  BY DEF Prepares, Fair, Alike
<1>4. Fights(c)
  BY <1>1, <1>2 DEF Fights, Fair, Alike
<1>5. Remembers(c.bot)
  BY DEF Fair, Alike
<1>6. View(c) = View(n)
  <2>1. TurnOf(c) = TurnOf(n)
    BY DEF TurnOf, Alike
  <2>2. WinnerOf(c) = WinnerOf(n)
    BY DEF WinnerOf, Alike, Fair, Sound, Paused, Screen
  <2> QED BY <1>2, <2>1, <2>2 DEF View, Alike
<1> QED BY <1>3, <1>4, <1>5, <1>6 DEF Fair

----------------------------------------------------------------------------
(* The timer                                                               *)

\* An animation shows nothing the rules do not know.
LEMMA AnimateMoves ==
  ASSUME NEW n, Fair(n), NEW c, c = Animate(n)
  PROVE  Fair(c) /\ View(c) = View(n)
<1>1. Sound(n) /\ Sound(c)
  BY AnimateSound DEF Fair
<1>2. CASE ~Exploding(n)
  BY <1>2 DEF Animate
<1>3. CASE Exploding(n)
  <2> DEFINE frame  == [n EXCEPT !.eticks = n.eticks + 1]
             splash == [n EXCEPT !.expl = "splash", !.eticks = 0]
             ended  == [n EXCEPT !.expl = "none", !.eticks = 0, !.done = TRUE]
  <2>1. c \in {n, frame, splash, ended}
    BY DEF Animate
  <2>2. DOMAIN n = Fields /\ n.waiting = FALSE
    BY <1>1, <1>3 DEF Sound, Shape, UnderWay
  <2>3. /\ c.p1 = n.p1 /\ c.p2 = n.p2 /\ c.bot = n.bot /\ c.single = n.single
        /\ c.tag = n.tag /\ c.prev = n.prev /\ c.at = n.at /\ c.word = n.word
        /\ c.waiting = n.waiting /\ ~Settled(c)
    BY <1>3, <2>1, <2>2 DEF Fields, Settled, Exploding
  <2>4. Alike(n, c)
    BY <1>3, <2>2, <2>3 DEF Alike, Settled, Screen
  <2> QED BY <1>1, <2>4, AlikeKeeps
<1> QED BY <1>2, <1>3

\* The countdown lets the first player begin.
LEMMA CountdownMoves ==
  ASSUME NEW n, Fair(n), NEW c, c = Countdown(n)
  PROVE  /\ Fair(c)
         /\ \/ View(c) = View(n)
            \/ Begun(View(n), View(c)) /\ c.tag = "TURN_P1" /\ Settled(c)
<1>1. Sound(n) /\ Sound(c)
  BY CountdownSound DEF Fair
<1>2. CASE n.tag # "COUNTDOWN"
  BY <1>2 DEF Countdown
<1>3. CASE n.tag = "COUNTDOWN"
  <2> DEFINE ticked == [n EXCEPT !.cticks = n.cticks + 1]
             second == [n EXCEPT !.cticks = 0, !.secs = n.secs - 1]
             begun  == [second EXCEPT !.word = 1]
             told   == Send(second, [type |-> "SECONDS", secs |-> second.secs])
  <2>1. c \in {ticked, second, told} \/ c = Push(begun, "TURN_P1")
    BY <1>3, <1>1 DEF Countdown, Sound, Shape
  <2>2. DOMAIN n = Fields /\ ~n.waiting /\ ~n.done /\ ~Exploding(n) /\ Screen(n) = "COUNTDOWN"
    BY <1>1, <1>3 DEF Sound, Shape, UnderWay, Turns, Screen
  <2>3. CASE c \in {ticked, second, told}
    <3>1. /\ c.p1 = n.p1 /\ c.p2 = n.p2 /\ c.bot = n.bot /\ c.single = n.single
          /\ c.tag = n.tag /\ c.prev = n.prev /\ c.at = n.at /\ c.word = n.word
          /\ c.waiting = n.waiting
      BY <2>2, <2>3 DEF Fields, Send
    <3>2. Alike(n, c)
      BY <2>2, <3>1 DEF Alike, Screen, Turns
    <3> QED BY <1>1, <3>2, AlikeKeeps
  <2>4. CASE c = Push(begun, "TURN_P1")
    <3>1. /\ DOMAIN begun = Fields /\ begun.p1 = n.p1 /\ begun.p2 = n.p2 /\ begun.bot = n.bot
          /\ begun.waiting = n.waiting /\ begun.done = n.done /\ begun.expl = n.expl
      BY <2>2 DEF Fields
    <3> HIDE DEF begun
    <3>2. /\ c.tag = "TURN_P1" /\ c.p1 = n.p1 /\ c.p2 = n.p2 /\ c.bot = n.bot
          /\ c.waiting = n.waiting /\ c.done = n.done /\ c.expl = n.expl
      BY <2>4, <3>1, Transits DEF GoesTo
    <3>3. Settled(c) /\ Screen(c) = "TURN_P1" /\ ~Missed(c)
      BY <2>2, <3>2 DEF Settled, Exploding, Screen, Missed
    <3>4. /\ Good(n.p1) /\ Good(n.p2) /\ Complete(n.p1) /\ Complete(n.p2)
          /\ ShotOn(n.p1) = {} /\ ShotOn(n.p2) = {}
      BY <2>2 DEF Fair, Prepares, Setup
    <3>5. ~AllSunk(n.p1) /\ ~AllSunk(n.p2)
      BY <3>4, Afloat
    <3>6. Prepares(c)
      BY <3>2, <3>3, <3>4 DEF Prepares, Menus, Setup, Handovers, Turns
    <3>7. Fights(c)
      BY <2>2, <3>2, <3>3, <3>5 DEF Fights, Own, Opposite, Handovers, Turns
    <3>8. Fair(c)
      BY <1>1, <3>2, <3>6, <3>7 DEF Fair
    <3>9. \A b \in {n.p1, n.p2} : ~(FleetCells(b) \subseteq ShotOn(b))
      BY <3>4, <3>5, BoardView DEF Complete
    <3>10. ~Missed(n)
      BY <2>2 DEF Missed, Turns
    <3>11. Begun(View(n), View(c))
      <4> DEFINE v == View(n)
                 w == View(c)
      <4>1. /\ v.turn = 0 /\ v.winner = 0 /\ ~v.missed
            /\ v.fleet = [p \in 1 .. 2 |-> IF p = 1 THEN FleetCells(n.p1) ELSE FleetCells(n.p2)]
            /\ v.shots = [p \in 1 .. 2 |-> IF p = 1 THEN ShotOn(n.p1) ELSE ShotOn(n.p2)]
        BY <1>1, <2>2, <3>4, <3>10, ViewFields
      <4>2. /\ w.turn = 1 /\ w.winner = 0 /\ ~w.missed
            /\ w.fleet = v.fleet /\ w.shots = v.shots
        BY <1>1, <3>2, <3>3, <3>4, <4>1, ViewFields
      <4>3. \A p \in 1 .. 2 : ~(v.fleet[p] \subseteq v.shots[p])
        BY <3>9, <4>1
      <4> QED BY <4>1, <4>2, <4>3 DEF Begun
    <3> QED BY <3>2, <3>3, <3>8, <3>11
  <2> QED BY <2>1, <2>3, <2>4
<1> QED BY <1>2, <1>3

\* The result of a shot wins, ends the turn after a wait, or lets the player go on: the
\* rules see the first only.
LEMMA ResultMoves ==
  ASSUME NEW n, Fair(n), NEW c, c = Result(n)
  PROVE  /\ Fair(c)
         /\ InTurn(c) => ~c.done
         /\ \/ View(c) = View(n)
            \/ Won(View(n), View(c)) /\ c.tag = "GAME_OVER"
<1>1. Sound(n) /\ Sound(c)
  BY ResultSound DEF Fair
<1>2. CASE ~(n.role = Host /\ InTurn(n) /\ ~n.waiting /\ n.done)
  BY <1>1, <1>2 DEF Result, Sound, Shape, UnderWay
<1>3. CASE n.role = Host /\ InTurn(n) /\ ~n.waiting /\ n.done
  <2> DEFINE read   == [n EXCEPT !.done = FALSE]
             result == ResultAt(Target(n), n.at)
             told   == IF n.single THEN read
                       ELSE Send(read, [type |-> "RESULT", cell |-> n.at, result |-> result])
             winner == IF n.tag = "TURN_P1" THEN 1 ELSE 2
             final  == [told EXCEPT !.word = winner]
             won    == Transition(final, "GAME_OVER")
             shown  == Send(Send(won, [type |-> "WINNER", winner |-> winner]), StateMsg("GAME_OVER"))
             missed == [told EXCEPT !.waiting = TRUE, !.post = 0]
  <2>1. IF AllSunk(Target(n)) THEN c \in {won, shown}
        ELSE IF result = "miss" THEN c = missed ELSE c = told
    BY <1>3 DEF Result
  <2>2. DOMAIN n = Fields
    BY <1>1 DEF Sound, Shape
  <2>3. /\ DOMAIN told = Fields /\ told.done = FALSE
        /\ \A f \in Fields \ {"done", "out"} : told[f] = n[f]
    BY <2>2 DEF Send, Fields
  <2>4. n.tag \in Turns /\ Screen(n) = n.tag /\ ~Exploding(n) /\ ~Settled(n)
    BY <1>1, <1>3 DEF Sound, UnderWay, InTurn, Turns, Screen, Settled
  <2>5. Target(n) = Opposite(n)
    BY <2>4 DEF Target, Opposite
  <2>6. result = "miss" <=> Opposite(n).grid[n.at] = "miss"
    BY <2>5 DEF ResultAt
  <2>7. Missed(n) <=> result = "miss"
    BY <2>4, <2>6 DEF Missed
  <2> HIDE DEF told, result
  <2>8. CASE AllSunk(Target(n))
    <3>1. ~Missed(n) /\ AllSunk(Opposite(n))
      BY <2>4, <2>5, <2>8 DEF Fair, Fights
    <3>2. /\ DOMAIN final = Fields /\ final.word = winner
          /\ \A f \in Fields \ {"done", "out", "word"} : final[f] = n[f]
      BY <2>3 DEF Fields
    <3> HIDE DEF final
    <3>3. /\ DOMAIN won = Fields /\ won.tag = "GAME_OVER" /\ won.word = winner
          /\ won.p1 = n.p1 /\ won.p2 = n.p2 /\ won.bot = n.bot /\ won.waiting = n.waiting
      BY <3>2, Transits DEF GoesTo, Fields
    <3> HIDE DEF won
    <3>4. /\ c.tag = "GAME_OVER" /\ c.word = winner
          /\ c.p1 = n.p1 /\ c.p2 = n.p2 /\ c.bot = n.bot /\ ~c.waiting
      BY <1>3, <2>1, <2>8, <3>3 DEF Send, Fields
    <3>5. Screen(c) = "GAME_OVER" /\ ~Missed(c)
      BY <3>4 DEF Screen, Missed, Turns
    <3>6. Good(n.p1) /\ Good(n.p2) /\ Complete(n.p1) /\ Complete(n.p2)
      BY <2>4 DEF Fair, Prepares
    <3>7. Fair(c)
      <4>1. Prepares(c)
        BY <3>4, <3>5, <3>6 DEF Prepares, Setup, Turns, Handovers
      <4>2. Fights(c)
        BY <3>4, <3>5 DEF Fights, Turns, Handovers
      <4> QED BY <1>1, <3>4, <4>1, <4>2 DEF Fair
    <3>8. Won(View(n), View(c))
      <4> DEFINE v == View(n)
                 w == View(c)
      <4>1. /\ v.turn = winner /\ ~v.missed
            /\ v.fleet = [p \in 1 .. 2 |-> IF p = 1 THEN FleetCells(n.p1) ELSE FleetCells(n.p2)]
            /\ v.shots = [p \in 1 .. 2 |-> IF p = 1 THEN ShotOn(n.p1) ELSE ShotOn(n.p2)]
        BY <1>1, <2>4, <3>1, <3>6, ViewFields DEF Turns
      <4>2. /\ w.turn = 0 /\ ~w.missed /\ w.winner = winner
            /\ w.fleet = v.fleet /\ w.shots = v.shots
        BY <1>1, <3>4, <3>5, <3>6, <4>1, ViewFields
      <4>3. FleetCells(Opposite(n)) \subseteq ShotOn(Opposite(n))
        BY <3>1, <3>6, BoardView DEF Opposite, Complete
      <4>4. v.fleet[3 - winner] \subseteq v.shots[3 - winner]
        BY <2>4, <4>1, <4>3 DEF Opposite, Turns
      <4> QED BY <4>1, <4>2, <4>4 DEF Won
    <3>9. ~InTurn(c)
      BY <3>4 DEF InTurn
    <3> QED BY <3>4, <3>7, <3>8, <3>9
  <2>9. CASE ~AllSunk(Target(n)) /\ result = "miss"
    <3>1. c = missed
      BY <2>1, <2>9
    <3>2. /\ c.p1 = n.p1 /\ c.p2 = n.p2 /\ c.bot = n.bot /\ c.single = n.single
          /\ c.tag = n.tag /\ c.prev = n.prev /\ c.at = n.at /\ c.word = n.word
          /\ c.waiting = TRUE /\ c.done = FALSE
      BY <2>3, <3>1 DEF Fields
    <3>3. Alike(n, c)
      BY <2>4, <2>7, <2>9, <3>2 DEF Alike, Settled, Screen, Turns
    <3> QED BY <1>1, <3>2, <3>3, AlikeKeeps
  <2>10. CASE ~AllSunk(Target(n)) /\ result # "miss"
    <3>1. c = told
      BY <2>1, <2>10
    <3>2. /\ c.p1 = n.p1 /\ c.p2 = n.p2 /\ c.bot = n.bot /\ c.single = n.single
          /\ c.tag = n.tag /\ c.prev = n.prev /\ c.at = n.at /\ c.word = n.word
          /\ c.waiting = n.waiting /\ c.done = FALSE /\ c.expl = n.expl
      BY <2>3, <3>1 DEF Fields
    <3>3. Screen(c) = n.tag /\ Opposite(c) = Opposite(n) /\ Own(c) = Own(n)
      BY <2>4, <3>2 DEF Screen, Opposite, Own
    <3>4. ~Missed(c) /\ ~Missed(n)
      BY <1>3, <2>4, <2>7, <2>10, <3>2 DEF Missed, Settled, Exploding
    <3>5. Prepares(c)
      BY <2>4, <3>2, <3>3 DEF Fair, Prepares
    <3>6. Fights(c)
      BY <1>3, <2>4, <2>5, <2>10, <3>2, <3>3 DEF Fair, Fights, Turns, Handovers
    <3>7. TurnOf(c) = TurnOf(n) /\ WinnerOf(c) = WinnerOf(n)
      BY <2>4, <3>2, <3>3 DEF TurnOf, WinnerOf
    <3>8. Missed(c) = Missed(n)
      BY <3>4, MissBoolean
    <3>9. View(c) = View(n)
      BY <3>2, <3>7, <3>8 DEF View
    <3> QED BY <1>1, <3>2, <3>5, <3>6, <3>9 DEF Fair
  <2> QED BY <2>8, <2>9, <2>10
<1> QED BY <1>2, <1>3

\* The wait after a miss passes the turn, and the handover screen that follows has still
\* to count.
LEMMA PostAttackMoves ==
  ASSUME NEW n, Fair(n), InTurn(n) => ~n.done, NEW c, c = PostAttack(n)
  PROVE  /\ Fair(c)
         /\ InTurn(c) => ~c.done
         /\ \/ View(c) = View(n)
            \/ Passed(View(n), View(c)) /\ c.tag \in Handovers /\ c.cticks = 0
<1>1. Sound(n) /\ Sound(c)
  BY PostAttackSound DEF Fair
<1>2. CASE ~n.waiting
  BY <1>2 DEF PostAttack
<1>3. CASE n.waiting
  <2> DEFINE more == [n EXCEPT !.post = n.post + 1]
             over == [n EXCEPT !.waiting = FALSE, !.post = 0, !.cticks = 0]
             first == [over EXCEPT !.word = 1]
             second == [over EXCEPT !.word = 2]
  <2>1. /\ DOMAIN n = Fields /\ n.role = Host /\ n.tag \in Turns /\ Screen(n) = n.tag
        /\ ~Exploding(n) /\ ~n.done
    BY <1>1, <1>3 DEF Sound, Shape, UnderWay, Turns, Screen
  <2>2. c = more \/ IF n.tag = "TURN_P1" THEN c = Push(second, "HANDOVER_P2")
                                         ELSE c = Push(first, "HANDOVER_P1")
    BY <1>3, <2>1 DEF PostAttack
  <2>3. Missed(n)
    BY <1>3 DEF Fair, Fights
  <2>4. CASE c = more
    <3>1. /\ c.p1 = n.p1 /\ c.p2 = n.p2 /\ c.bot = n.bot /\ c.single = n.single
          /\ c.tag = n.tag /\ c.prev = n.prev /\ c.at = n.at /\ c.word = n.word
          /\ c.waiting = n.waiting /\ c.done = n.done /\ c.expl = n.expl
      BY <2>1, <2>4 DEF Fields
    <3>2. Alike(n, c)
      BY <2>3, <3>1 DEF Alike, Screen, Settled, Exploding
    <3> QED BY <1>1, <2>1, <3>1, <3>2, AlikeKeeps
  <2>5. CASE c # more
    <3> DEFINE next == IF n.tag = "TURN_P1" THEN "HANDOVER_P2" ELSE "HANDOVER_P1"
               from == IF n.tag = "TURN_P1" THEN second ELSE first
    <3>1. c = Push(from, next)
      BY <2>2, <2>5
    <3>2. /\ DOMAIN from = Fields /\ from.p1 = n.p1 /\ from.p2 = n.p2 /\ from.bot = n.bot
          /\ from.waiting = FALSE /\ from.done = n.done /\ from.cticks = 0
      BY <2>1 DEF Fields
    <3> HIDE DEF from
    <3>3. /\ c.tag = next /\ c.p1 = n.p1 /\ c.p2 = n.p2 /\ c.bot = n.bot
          /\ c.waiting = FALSE /\ c.done = n.done /\ c.cticks = 0
      BY <3>1, <3>2, Transits DEF GoesTo
    <3>4. Screen(c) = next /\ ~Missed(c)
      BY <3>3 DEF Screen, Missed, Turns
    <3>5. /\ Good(n.p1) /\ Good(n.p2) /\ Complete(n.p1) /\ Complete(n.p2)
      BY <2>1 DEF Fair, Prepares
    <3>6. ~AllSunk(n.p1) /\ ~AllSunk(n.p2)
      BY <2>1, <2>3 DEF Fair, Fights, Opposite, Own
    <3>7. Fair(c)
      <4>1. Prepares(c)
        BY <3>3, <3>4, <3>5 DEF Prepares, Setup, Handovers
      <4>2. Fights(c)
        BY <3>3, <3>4, <3>6 DEF Fights, Turns
      <4> QED BY <1>1, <3>3, <4>1, <4>2 DEF Fair
    <3>8. Passed(View(n), View(c))
      <4> DEFINE v == View(n)
                 w == View(c)
      <4>1. /\ v.turn = (IF n.tag = "TURN_P1" THEN 1 ELSE 2) /\ v.missed /\ v.winner = 0
            /\ v.fleet = [p \in 1 .. 2 |-> IF p = 1 THEN FleetCells(n.p1) ELSE FleetCells(n.p2)]
            /\ v.shots = [p \in 1 .. 2 |-> IF p = 1 THEN ShotOn(n.p1) ELSE ShotOn(n.p2)]
        BY <1>1, <2>1, <2>3, <3>5, ViewFields DEF Turns
      <4>2. /\ w.turn = (IF n.tag = "TURN_P1" THEN 2 ELSE 1) /\ ~w.missed /\ w.winner = 0
            /\ w.fleet = v.fleet /\ w.shots = v.shots
        BY <1>1, <3>3, <3>4, <3>5, <4>1, ViewFields
      <4> QED BY <4>1, <4>2 DEF Passed
    <3>9. c.tag \in Handovers /\ ~InTurn(c)
      BY <3>3 DEF Handovers, InTurn
    <3> QED BY <3>3, <3>7, <3>8, <3>9
  <2> QED BY <2>4, <2>5
<1> QED BY <1>2, <1>3

\* The handover screen belongs to the turn that follows it.
LEMMA HandoverMoves ==
  ASSUME NEW n, Fair(n), InTurn(n) => ~n.done, NEW c, c = Handover(n)
  PROVE  /\ Fair(c)
         /\ InTurn(c) => ~c.done
         /\ View(c) = View(n)
         /\ n.tag \notin Handovers => c = n
         /\ TicksPerSec > 1 /\ n.tag \in Handovers /\ n.cticks = 0 => c.tag \in Handovers
<1>1. Sound(n) /\ Sound(c)
  BY HandoverSound DEF Fair
<1>2. CASE n.tag \notin Handovers
  BY <1>2 DEF Handover, Handovers
<1>3. CASE n.tag \in Handovers
  <2> DEFINE more == [n EXCEPT !.cticks = n.cticks + 1]
             over == [n EXCEPT !.cticks = 0]
             next == IF n.tag = "HANDOVER_P1" THEN "TURN_P1" ELSE "TURN_P2"
  <2>1. IF n.cticks + 1 < TicksPerSec THEN c = more ELSE c = Push(over, next)
    BY <1>1, <1>3 DEF Handover, Handovers, Sound, Shape
  <2>2. /\ DOMAIN n = Fields /\ ~Exploding(n) /\ ~n.waiting /\ ~n.done /\ Screen(n) = n.tag
    BY <1>1, <1>3 DEF Sound, Shape, UnderWay, Turns, Screen, Handovers
  <2>3. CASE n.cticks + 1 < TicksPerSec
    <3>1. /\ c.p1 = n.p1 /\ c.p2 = n.p2 /\ c.bot = n.bot /\ c.single = n.single
          /\ c.tag = n.tag /\ c.prev = n.prev /\ c.at = n.at /\ c.word = n.word
          /\ c.waiting = n.waiting /\ c.done = n.done /\ c.expl = n.expl
      BY <2>1, <2>2, <2>3 DEF Fields
    <3>2. Alike(n, c)
      BY <2>2, <3>1 DEF Alike, Screen, Settled, Exploding
    <3> QED BY <1>1, <1>3, <2>2, <3>1, <3>2, AlikeKeeps
  <2>4. CASE ~(n.cticks + 1 < TicksPerSec)
    <3>1. /\ DOMAIN over = Fields /\ over.p1 = n.p1 /\ over.p2 = n.p2 /\ over.bot = n.bot
          /\ over.waiting = n.waiting /\ over.done = n.done /\ over.expl = n.expl
      BY <2>2 DEF Fields
    <3> HIDE DEF over
    <3>2. /\ c.tag = next /\ c.p1 = n.p1 /\ c.p2 = n.p2 /\ c.bot = n.bot
          /\ c.waiting = n.waiting /\ c.done = n.done /\ c.expl = n.expl
      BY <2>1, <2>4, <3>1, Transits DEF GoesTo
    <3>3. Screen(c) = next /\ Settled(c) /\ ~Missed(c) /\ ~Missed(n)
      BY <1>3, <2>2, <3>2 DEF Screen, Settled, Exploding, Missed, Turns, Handovers
    <3>4. /\ Good(n.p1) /\ Good(n.p2) /\ Complete(n.p1) /\ Complete(n.p2)
          /\ ~AllSunk(n.p1) /\ ~AllSunk(n.p2)
      BY <1>3, <2>2 DEF Fair, Prepares, Fights
    <3>5. Fair(c)
      <4>1. Prepares(c)
        BY <3>2, <3>3, <3>4 DEF Prepares, Setup, Turns
      <4>2. Fights(c)
        BY <2>2, <3>2, <3>3, <3>4 DEF Fights, Turns, Handovers, Own, Opposite
      <4> QED BY <1>1, <3>2, <4>1, <4>2 DEF Fair
    <3>6. TurnOf(c) = TurnOf(n) /\ WinnerOf(c) = WinnerOf(n)
      BY <1>3, <2>2, <3>2, <3>3 DEF TurnOf, WinnerOf, Handovers
    <3>7. Missed(c) = Missed(n)
      BY <3>3, MissBoolean
    <3>8. View(c) = View(n)
      BY <3>2, <3>6, <3>7 DEF View
    <3>9. TicksPerSec > 1 => n.cticks # 0
      BY <2>4, TimingAssumption
    <3> QED BY <1>3, <2>2, <3>2, <3>5, <3>8, <3>9
  <2> QED BY <2>3, <2>4
<1> QED BY <1>2, <1>3

----------------------------------------------------------------------------
(* Shots                                                                   *)

\* A shot at a fresh cell, of either player: its result is still to be read, and if it
\* has sunk the last ship it was no miss.
LEMMA ShotMoves ==
  ASSUME NEW n, Fair(n), n.tag \in Turns, Settled(n),
         NEW x \in Cells, ~AlreadyAttacked(Target(n), x),
         NEW b, b = Attack(Target(n), x),
         NEW c, Sound(c), c.tag = n.tag, c.at = x, ~Settled(c), ~c.waiting, Remembers(c.bot),
         IF n.tag = "TURN_P1" THEN c.p1 = n.p1 /\ c.p2 = b ELSE c.p1 = b /\ c.p2 = n.p2
  PROVE  Fair(c) /\ Shot(View(n), View(c))
<1> DEFINE old == Opposite(n)
<1>1. /\ Screen(n) = n.tag /\ Screen(c) = n.tag /\ Target(n) = old
      /\ Opposite(c) = b /\ Own(c) = Own(n)
  BY DEF Screen, Turns, Target, Opposite, Own
<1>2. /\ Good(n.p1) /\ Good(n.p2) /\ Complete(n.p1) /\ Complete(n.p2)
      /\ Good(old) /\ Complete(old) /\ ~AllSunk(Own(n))
  BY <1>1 DEF Fair, Prepares, Fights, Opposite
<1>3. ~AllSunk(old) /\ ~Missed(n)
  BY <1>1 DEF Fair, Fights, Missed
<1>4. /\ Good(b) /\ SameShips(old, b) /\ x \notin ShotOn(old) /\ ShotOn(b) = ShotOn(old) \cup {x}
  BY <1>1, <1>2, AttackKeeps DEF Complete
<1>5. Complete(b) /\ FleetCells(b) = FleetCells(old)
  BY <1>2, <1>4, SameFleetCells DEF Complete, SameShips
<1>6. Missed(c) <=> x \notin FleetCells(old)
  <2>1. b.grid[x] = "miss" <=> x \notin FleetCells(b)
    BY <1>4, BoardView
  <2> QED BY <1>1, <1>5, <2>1 DEF Missed
<1>7. AllSunk(b) => ~Missed(c)
  BY <1>1, <1>2, <1>3, MissSpares DEF Missed
<1>8. Fair(c)
  <2>1. Good(c.p1) /\ Good(c.p2) /\ Complete(c.p1) /\ Complete(c.p2)
    BY <1>2, <1>4, <1>5
  <2>2. Prepares(c)
    BY <1>1, <2>1 DEF Prepares, Setup, Turns
  <2>3. Fights(c)
    BY <1>1, <1>2, <1>7 DEF Fights, Turns, Handovers
  <2> QED BY <2>2, <2>3 DEF Fair
<1>9. Shot(View(n), View(c))
  <2> DEFINE v == View(n)
             w == View(c)
             q == IF n.tag = "TURN_P1" THEN 2 ELSE 1
  <2>1. /\ v.turn = 3 - q /\ ~v.missed /\ v.winner = 0
        /\ v.fleet = [p \in 1 .. 2 |-> IF p = 1 THEN FleetCells(n.p1) ELSE FleetCells(n.p2)]
        /\ v.shots = [p \in 1 .. 2 |-> IF p = 1 THEN ShotOn(n.p1) ELSE ShotOn(n.p2)]
    BY <1>1, <1>2, <1>3, ViewFields DEF Fair, Turns
  <2>2. /\ w.turn = 3 - q /\ w.missed = Missed(c) /\ w.winner = 0
        /\ w.fleet = [p \in 1 .. 2 |-> IF p = 1 THEN FleetCells(c.p1) ELSE FleetCells(c.p2)]
        /\ w.shots = [p \in 1 .. 2 |-> IF p = 1 THEN ShotOn(c.p1) ELSE ShotOn(c.p2)]
    BY <1>1, <1>2, <1>4, ViewFields DEF Turns
  <2>3. v.fleet[q] = FleetCells(old) /\ v.shots[q] = ShotOn(old)
    BY <1>1, <2>1 DEF Opposite
  <2>4. ~(v.fleet[q] \subseteq v.shots[q])
    BY <1>2, <1>3, <2>3, BoardView DEF Complete
  <2>5. w.fleet = v.fleet
    BY <1>1, <1>5, <2>1, <2>2 DEF Opposite
  <2>6. w.shots = [v.shots EXCEPT ![q] = @ \cup {x}]
    BY <1>1, <1>4, <2>1, <2>2 DEF Opposite
  <2>7. /\ v.turn \in 1 .. 2 /\ 3 - v.turn = q /\ w.turn = v.turn
        /\ ~v.missed /\ w.winner = v.winner
    BY <2>1, <2>2
  <2>8. x \in Cells \ v.shots[q] /\ (w.missed <=> x \notin v.fleet[q])
    BY <1>4, <1>6, <2>2, <2>3
  <2> HIDE DEF v, w, q
  <2>9. Shot(v, w)
    BY <2>4, <2>5, <2>6, <2>7, <2>8 DEF Shot
  <2> QED BY <2>9 DEF v, w
<1> QED BY <1>8, <1>9

\* A shot of the player.
LEMMA FireMoves ==
  ASSUME NEW n, Fair(n), CanFire(n), Settled(n), NEW x \in Cells, NEW c, c = FireAt(n, x)
  PROVE  Fair(c) /\ (View(c) = View(n) \/ Shot(View(n), View(c)))
<1>1. DOMAIN n = Fields /\ n.role = Host /\ n.tag = "TURN_P1" /\ ~n.waiting /\ Sound(c)
  BY FireSound DEF Fair, Sound, Shape, CanFire, OwnsTurn
<1>2. CASE AlreadyAttacked(Target(n), x)
  BY <1>2 DEF FireAt
<1>3. CASE ~AlreadyAttacked(Target(n), x)
  <2> DEFINE b == Attack(Target(n), x)
  <2>1. c = Explode(SetTarget(n, b), x, b.grid[x] \in {"hit", "sunk"})
    BY <1>1, <1>3 DEF FireAt, Resolve
  <2> HIDE DEF b
  <2>2. /\ c.tag = n.tag /\ c.at = x /\ c.expl = "blast" /\ c.waiting = n.waiting
        /\ c.bot = n.bot /\ c.p1 = n.p1 /\ c.p2 = b
    BY <1>1, <2>1 DEF Explode, SetTarget, Fields
  <2>3. ~Settled(c) /\ Remembers(c.bot) /\ n.tag \in Turns
    BY <1>1, <2>2 DEF Settled, Exploding, Fair, Turns
  <2> QED BY <1>1, <1>3, <2>2, <2>3, ShotMoves DEF b
<1> QED BY <1>2, <1>3

\* The bot aims at a fresh cell: at random, or with the first open probe.
LEMMA BotAims ==
  ASSUME NEW bot, Remembers(bot), NEW b, NEW aimed \in Choose(bot, b)
  PROVE  Remembers(aimed) /\ aimed.curr \in Cells /\ ~AlreadyAttacked(b, aimed.curr)
<1> DEFINE open == OpenProbes(bot, b)
<1>1. Probes(bot) \in Int
  BY DEF Remembers, Probes
<1>2. ASSUME NEW k \in Int PROVE Remembers(Blocked(bot, k))
  BY DEF Remembers, Blocked
<1>3. ASSUME NEW some, Remembers(some), aimed \in Random(some, b)
      PROVE  Remembers(aimed) /\ aimed.curr \in Cells /\ ~AlreadyAttacked(b, aimed.curr)
  BY <1>3 DEF Random, Remembers
<1>4. CASE bot.mode = "random"
  BY <1>3, <1>4 DEF Choose
<1>5. CASE bot.mode # "random" /\ open = {}
  BY <1>1, <1>2, <1>3, <1>5 DEF Choose
<1>6. CASE bot.mode # "random" /\ open # {}
  <2> DEFINE k == CHOOSE j \in open : \A i \in open : j <= i
  <2>1. open \in SUBSET Nat
    BY <1>1 DEF OpenProbes
  <2>2. k \in open
    BY <1>6, <2>1, LeastNumber
  <2>3. aimed = [Blocked(bot, k) EXCEPT !.curr = ProbeCell(bot, b, k)]
    BY <1>6 DEF Choose
  <2> HIDE DEF k
  <2>4. ProbeCell(bot, b, k) \in Cells /\ ~AlreadyAttacked(b, ProbeCell(bot, b, k))
    BY <2>2 DEF OpenProbes
  <2>5. Remembers(Blocked(bot, k))
    BY <1>2, <2>1, <2>2
  <2> QED BY <2>3, <2>4, <2>5 DEF Remembers
<1> QED BY <1>4, <1>5, <1>6

\* A result changes what the bot remembers, not what there is to remember.
LEMMA BotRegisters ==
  ASSUME NEW bot, Remembers(bot), NEW result
  PROVE  Remembers(Register(bot, result))
  BY DEF Remembers, Register

----------------------------------------------------------------------------
(* The bot's part and the whole tick                                       *)

\* The bot places a fleet or fires one shot.
LEMMA BotPlaysMoves ==
  ASSUME NEW n, Fair(n), InTurn(n) => ~n.done, NEW c \in BotPlays(n)
  PROVE  /\ Fair(c)
         /\ View(c) = View(n) \/ Prepared(View(n), View(c)) \/ Shot(View(n), View(c))
         /\ n.tag \notin {"PLACE_SHIPS_P2", "TURN_P2"} => c = n
<1> DEFINE ticked == [n EXCEPT !.botTimer = n.botTimer + 1]
<1>1. DOMAIN n = Fields /\ Sound(n) /\ Sound(c)
  BY BotPlaysSound DEF Fair, Sound, Shape
<1>2. CASE c = n
  BY <1>2
<1>3. CASE c = ticked /\ n.tag \in {"PLACE_SHIPS_P2", "TURN_P2"}
  <2>1. /\ c.p1 = n.p1 /\ c.p2 = n.p2 /\ c.bot = n.bot /\ c.single = n.single
        /\ c.tag = n.tag /\ c.prev = n.prev /\ c.at = n.at /\ c.word = n.word
        /\ c.waiting = n.waiting /\ c.done = n.done /\ c.expl = n.expl
    BY <1>1, <1>3 DEF Fields
  <2>2. Alike(n, c)
    BY <2>1 DEF Alike, Screen, Settled, Exploding, Fair, Fights
  <2> QED BY <1>1, <1>3, <2>2, AlikeKeeps
<1>4. CASE /\ n.tag = "PLACE_SHIPS_P2"
           /\ \E b \in PlaceFleet(n.p2) :
                c = Transition([ticked EXCEPT !.p2 = b, !.secs = CountdownStart, !.cticks = 0],
                               "COUNTDOWN")
  <2>1. PICK b \in PlaceFleet(n.p2) :
          c = Transition([ticked EXCEPT !.p2 = b, !.secs = CountdownStart, !.cticks = 0], "COUNTDOWN")
    BY <1>4
  <2> DEFINE drawn == [ticked EXCEPT !.p2 = b, !.secs = CountdownStart, !.cticks = 0]
  <2>2. Screen(n) = "PLACE_SHIPS_P2" /\ ~n.waiting
    BY <1>1, <1>4 DEF Screen, Sound, UnderWay, Turns
  <2>3. /\ Good(n.p1) /\ Good(n.p2) /\ Complete(n.p1) /\ ShotOn(n.p1) = {} /\ n.p2 = EmptyBoard
    BY <2>2 DEF Fair, Prepares, Setup
  <2>4. Good(b) /\ ShotOn(b) = {} /\ Complete(b)
    BY <2>3, DrawnIsGood DEF Complete
  <2>5. /\ DOMAIN drawn = Fields /\ drawn.p1 = n.p1 /\ drawn.p2 = b /\ drawn.bot = n.bot
        /\ drawn.waiting = n.waiting
    BY <1>1 DEF Fields
  <2> HIDE DEF drawn
  <2>6. /\ c.tag = "COUNTDOWN" /\ c.p1 = n.p1 /\ c.p2 = b /\ c.bot = n.bot
        /\ c.waiting = n.waiting
    <3>1. c = Transition(drawn, "COUNTDOWN")
      BY <2>1 DEF drawn
    <3> QED BY <2>5, <3>1, Transits DEF GoesTo
  <2>7. Screen(c) = "COUNTDOWN" /\ ~Missed(c) /\ ~Missed(n)
    BY <2>2, <2>6 DEF Screen, Missed, Turns
  <2>8. Fair(c)
    <3>1. Prepares(c)
      BY <2>3, <2>4, <2>6, <2>7 DEF Prepares, Setup
    <3>2. Fights(c)
      BY <2>2, <2>6, <2>7 DEF Fights, Turns, Handovers
    <3> QED BY <1>1, <2>6, <3>1, <3>2 DEF Fair
  <2>9. Prepared(View(n), View(c))
    <3> DEFINE v == View(n)
               w == View(c)
    <3>1. v.turn = 0 /\ ~v.missed
      BY <1>1, <2>2, <2>3, <2>7, ViewFields
    <3>2. /\ w.turn = 0 /\ w.winner = 0 /\ ~w.missed
          /\ w.fleet = [p \in 1 .. 2 |-> IF p = 1 THEN FleetCells(n.p1) ELSE FleetCells(b)]
          /\ w.shots = [p \in 1 .. 2 |-> {}]
      BY <1>1, <2>3, <2>4, <2>6, <2>7, ViewFields
    <3>3. FleetCells(n.p1) \subseteq Cells /\ FleetCells(b) \subseteq Cells
      BY <2>3, <2>4, BoardView
    <3> QED BY <3>1, <3>2, <3>3 DEF Prepared
  <2> QED BY <1>4, <2>8, <2>9
<1>5. CASE /\ BotReady(n)
           /\ \E aimed \in Choose(n.bot, n.p1) :
                LET r == Resolve(n, aimed.curr)
                IN  c = [r EXCEPT !.botTimer = 0,
                                  !.bot = Register(aimed, ResultAt(r.p1, aimed.curr))]
  <2>1. PICK aimed \in Choose(n.bot, n.p1) :
          LET r == Resolve(n, aimed.curr)
          IN  c = [r EXCEPT !.botTimer = 0,
                            !.bot = Register(aimed, ResultAt(r.p1, aimed.curr))]
    BY <1>5
  <2> DEFINE x == aimed.curr
             b == Attack(n.p1, x)
             memory == Register(aimed, ResultAt(Resolve(n, x).p1, x))
  <2>2. Remembers(aimed) /\ x \in Cells /\ ~AlreadyAttacked(n.p1, x)
    BY BotAims DEF Fair
  <2>3. Remembers(memory)
    BY <2>2, BotRegisters
  <2>4. n.tag = "TURN_P2" /\ Target(n) = n.p1 /\ Settled(n)
    BY <1>5 DEF BotReady, Target, Settled, InTurn
  <2>5. c = [Explode(SetTarget(n, b), x, b.grid[x] \in {"hit", "sunk"})
               EXCEPT !.botTimer = 0, !.bot = memory]
    BY <2>1, <2>4 DEF Resolve
  <2> HIDE DEF x, b, memory
  <2>6. /\ c.tag = n.tag /\ c.at = x /\ c.expl = "blast" /\ c.waiting = n.waiting
        /\ c.bot = memory /\ c.p1 = b /\ c.p2 = n.p2
    BY <1>1, <2>4, <2>5 DEF Explode, SetTarget, Fields
  <2>7. ~Settled(c) /\ ~c.waiting /\ n.tag \in Turns
    BY <2>4, <2>6 DEF Settled, Exploding, Turns
  <2>8. b = Attack(Target(n), x) /\ ~AlreadyAttacked(Target(n), x)
    BY <2>2, <2>4 DEF b
  <2>9. Fair(c) /\ Shot(View(n), View(c))
    BY <1>1, <2>2, <2>3, <2>4, <2>6, <2>7, <2>8, ShotMoves
  <2> QED BY <2>4, <2>9
<1> QED BY <1>2, <1>3, <1>4, <1>5 DEF BotPlays, BotReady

\* A tick lets the rules see one thing at most: the turn begins, passes or is won, or the
\* bot acts.
LEMMA TickMoves ==
  ASSUME TicksPerSec > 1, NEW n, Fair(n), NEW c \in Tick(n)
  PROVE  Fair(c) /\ Ruled(View(n), View(c))
<1> DEFINE counted == Countdown(n)
           told    == Result(counted)
           waited  == PostAttack(told)
           handed  == Handover(waited)
<1>1. /\ Fair(counted)
      /\ \/ View(counted) = View(n)
         \/ Begun(View(n), View(counted)) /\ counted.tag = "TURN_P1" /\ Settled(counted)
  BY CountdownMoves
<1>2. /\ Fair(told)
      /\ InTurn(told) => ~told.done
      /\ \/ View(told) = View(counted)
         \/ Won(View(counted), View(told)) /\ told.tag = "GAME_OVER"
  BY <1>1, ResultMoves
<1>3. /\ Fair(waited)
      /\ InTurn(waited) => ~waited.done
      /\ \/ View(waited) = View(told)
         \/ Passed(View(told), View(waited)) /\ waited.tag \in Handovers /\ waited.cticks = 0
  BY <1>2, PostAttackMoves
<1>4. /\ Fair(handed)
      /\ InTurn(handed) => ~handed.done
      /\ View(handed) = View(waited)
      /\ waited.tag \notin Handovers => handed = waited
      /\ waited.tag \in Handovers /\ waited.cticks = 0 => handed.tag \in Handovers
  BY <1>3, HandoverMoves
<1>5. ASSUME NEW e \in BotPlays(handed)
      PROVE  /\ Fair(e)
             /\ \/ View(e) = View(handed) \/ Prepared(View(handed), View(e))
                \/ Shot(View(handed), View(e))
             /\ handed.tag \notin {"PLACE_SHIPS_P2", "TURN_P2"} => e = handed
  BY <1>4, BotPlaysMoves
<1>6. counted.tag = "TURN_P1" /\ Settled(counted) => told = counted
  BY DEF Result, Settled
<1>7. told.tag = "GAME_OVER" \/ (told.tag = "TURN_P1" /\ Settled(told)) => waited = told
  BY <1>2 DEF PostAttack, Settled, Fair, Sound, UnderWay, Turns
<1> HIDE DEF counted, told, waited, handed
<1>8. Fair(told) /\ Ruled(View(n), View(told))
  BY <1>1, <1>2, <1>6 DEF Ruled
<1>9. ASSUME NEW e \in BotPlays(handed) PROVE Fair(e) /\ Ruled(View(n), View(e))
  <2>1. CASE View(told) = View(n)
    <3>1. CASE View(waited) = View(told)
      BY <1>4, <1>5, <2>1, <3>1 DEF Ruled
    <3>2. CASE Passed(View(told), View(waited)) /\ waited.tag \in Handovers /\ waited.cticks = 0
      <4>1. e = handed
        BY <1>4, <1>5, <3>2 DEF Handovers
      <4> QED BY <1>4, <2>1, <3>2, <4>1 DEF Ruled
    <3> QED BY <1>3, <3>1, <3>2
  <2>2. CASE told.tag = "GAME_OVER" \/ (told.tag = "TURN_P1" /\ Settled(told))
    <3>1. waited = told /\ handed = told
      BY <1>4, <1>7, <2>2 DEF Handovers
    <3>2. e = told
      BY <1>5, <2>2, <3>1
    <3> QED BY <1>8, <3>2
  <2> QED BY <1>1, <1>2, <1>6, <2>1, <2>2
<1>10. \/ c = Animate(told)
       \/ \E e \in BotPlays(handed) : c = Animate(e)
  BY TickParts DEF told, counted, waited, handed
<1> QED BY <1>8, <1>9, <1>10, AnimateMoves

----------------------------------------------------------------------------
(* The player's part                                                       *)

\* Off the fight, with no shot on either board, the rules see a game prepared.
LEMMA SeenPrepared ==
  ASSUME NEW n, Fair(n), Screen(n) \in Menus \cup Setup \cup {"GAME_OVER"},
         NEW c, Sound(c), Screen(c) \in Menus \cup Setup,
         Good(c.p1), Good(c.p2), ShotOn(c.p1) = {}, ShotOn(c.p2) = {}
  PROVE  Prepared(View(n), View(c))
<1> DEFINE v == View(n)
           w == View(c)
<1>1. Sound(n) /\ Good(n.p1) /\ Good(n.p2)
  BY DEF Fair, Prepares
<1>2. v.turn = 0 /\ ~v.missed
  BY <1>1, ViewFields DEF Menus, Setup, Missed, Turns
<1>3. w.turn = 0 /\ ~w.missed /\ w.winner = 0
  BY ViewFields DEF Menus, Setup, Missed, Turns
<1>4. /\ w.fleet = [p \in 1 .. 2 |-> IF p = 1 THEN FleetCells(c.p1) ELSE FleetCells(c.p2)]
      /\ w.shots = [p \in 1 .. 2 |-> {}]
  BY ViewFields
<1>5. FleetCells(c.p1) \subseteq Cells /\ FleetCells(c.p2) \subseteq Cells
  BY BoardView
<1> HIDE DEF v, w
<1>6. Prepared(v, w)
  BY <1>2, <1>3, <1>4, <1>5 DEF Prepared
<1> QED BY <1>6 DEF v, w

\* A screen without a fight asks nothing more than its boards.
LEMMA PeaceIsFair ==
  ASSUME NEW c, Sound(c), Prepares(c), Screen(c) \in Menus \cup Setup, ~c.waiting, Remembers(c.bot)
  PROVE  Fair(c)
  BY DEF Fair, Fights, Menus, Setup, Turns, Handovers

\* The player's ships, placed one by one until the bot's turn to place.
LEMMA PutShipMoves ==
  ASSUME NEW n, Fair(n), n.tag = "PLACE_SHIPS_P1",
         NEW cells \in Footprints(ShipSizes[n.idx + 1]), NEW c, c = PutShip(n, cells)
  PROVE  Fair(c) /\ (View(c) = View(n) \/ Prepared(View(n), View(c)))
<1> DEFINE size   == ShipSizes[n.idx + 1]
           board  == PlaceShip(n.p1, cells, size)
           onto   == [n EXCEPT !.p1 = board]
           begun  == [onto EXCEPT !.idx = 0, !.botTimer = 0]
           next   == [onto EXCEPT !.idx = n.idx + 1]
<1>1. /\ DOMAIN n = Fields /\ n.role = Host /\ Screen(n) = "PLACE_SHIPS_P1" /\ Placing(n)
      /\ ~n.waiting /\ n.single
  BY DEF Fair, Sound, Shape, UnderWay, Turns, Screen, Prepares
<1>2. Sound(c)
  BY PutShipSound DEF Fair
<1>3. Good(n.p1) /\ Good(n.p2) /\ ShotOn(n.p2) = {} /\ Remembers(n.bot)
  BY <1>1 DEF Fair, Prepares, Setup
<1>4. CASE ~CanPlace(n.p1, cells)
  BY <1>4 DEF PutShip, PlacedOn
<1>5. CASE CanPlace(n.p1, cells)
  <2>1. n.idx = Len(n.p1.ships) /\ n.idx < NumShips /\ n.idx \in Nat /\ size \in Nat \ {0}
    <3>1. n.idx \in Nat
      BY <1>1, LenProperties DEF Placing
    <3> QED BY <1>1, <3>1, NumShipsType DEF Placing
  <2>2. Cardinality(cells) = size
    BY <2>1, FootprintSize
  <2>3. Good(board) /\ ShotOn(board) = {} /\ Len(board.ships) = n.idx + 1
    BY <1>3, <1>5, <2>1, <2>2, PlacingKeeps
  <2> HIDE DEF size, board
  <2>4. /\ DOMAIN onto = Fields /\ onto.role = Host /\ onto.tag = n.tag /\ onto.prev = n.prev
        /\ onto.p1 = board /\ onto.p2 = n.p2 /\ onto.bot = n.bot /\ onto.single = n.single
        /\ onto.waiting = n.waiting /\ onto.idx = n.idx
    BY <1>1 DEF Fields
  <2>5. \A ship : MirrorShip(onto, ship) = onto
    BY <2>4 DEF MirrorShip, Host, Client
  <2>6. c = IF Len(board.ships) >= NumShips THEN FleetPlaced(onto) ELSE [onto EXCEPT !.idx = onto.idx + 1]
    <3> HIDE DEF onto
    <3>1. PutShip(n, cells) = IF ~CanPlace(n.p1, cells) THEN n
                              ELSE IF Len(board.ships) >= NumShips THEN FleetPlaced(onto)
                              ELSE [onto EXCEPT !.idx = onto.idx + 1]
      BY <2>5 DEF PutShip, PlacedOn, onto, board, size
    <3> QED BY <1>5, <3>1
  <2>7. CASE Len(board.ships) >= NumShips
    <3>1. c = Transition(begun, "PLACE_SHIPS_P2")
      BY <1>1, <2>4, <2>6, <2>7 DEF FleetPlaced
    <3>2. /\ DOMAIN begun = Fields /\ begun.p1 = board /\ begun.p2 = n.p2 /\ begun.bot = n.bot
          /\ begun.waiting = n.waiting
      BY <2>4 DEF Fields
    <3> HIDE DEF begun
    <3>3. /\ c.tag = "PLACE_SHIPS_P2" /\ c.p1 = board /\ c.p2 = n.p2 /\ c.bot = n.bot
          /\ c.waiting = n.waiting
      BY <3>1, <3>2, Transits DEF GoesTo
    <3>4. Complete(board) /\ n.p2 = EmptyBoard
      BY <1>1, <2>1, <2>3, <2>7, NumShipsType DEF Complete, Placing
    <3>5. Screen(c) = "PLACE_SHIPS_P2"
      BY <3>3 DEF Screen
    <3>6. Prepares(c)
      BY <1>3, <2>3, <3>3, <3>4, <3>5 DEF Prepares, Setup, Turns, Handovers
    <3>7. Fair(c)
      BY <1>1, <1>2, <1>3, <3>3, <3>5, <3>6, PeaceIsFair DEF Setup
    <3>8. Prepared(View(n), View(c))
      BY <1>1, <1>2, <1>3, <2>3, <3>3, <3>5, SeenPrepared DEF Setup
    <3> QED BY <3>7, <3>8
  <2>8. CASE ~(Len(board.ships) >= NumShips)
    <3>1. /\ c.tag = n.tag /\ c.p1 = board /\ c.p2 = n.p2 /\ c.bot = n.bot /\ c.single = n.single
          /\ c.waiting = n.waiting
      BY <2>4, <2>6, <2>8 DEF Fields
    <3>2. Screen(c) = "PLACE_SHIPS_P1"
      BY <3>1 DEF Screen
    <3>3. Prepares(c)
      BY <1>1, <1>3, <2>3, <3>1, <3>2 DEF Prepares, Setup, Turns, Handovers
    <3>4. Fair(c)
      BY <1>1, <1>2, <1>3, <3>1, <3>2, <3>3, PeaceIsFair DEF Setup
    <3>5. Prepared(View(n), View(c))
      BY <1>1, <1>2, <1>3, <2>3, <3>1, <3>2, SeenPrepared DEF Setup
    <3> QED BY <3>4, <3>5
  <2> QED BY <2>7, <2>8
<1> QED BY <1>4, <1>5

\* From one menu to the other.
LEMMA MenuChanges ==
  ASSUME NEW n, Fair(n), n.tag \in Menus, NEW next \in Menus, NEW c, c = Transition(n, next), Sound(c)
  PROVE  Fair(c) /\ View(c) = View(n)
<1>1. /\ c.tag = next /\ c.p1 = n.p1 /\ c.p2 = n.p2 /\ c.bot = n.bot /\ c.waiting = n.waiting
  BY Transits DEF GoesTo, Fair, Sound, Shape
<1>2. Screen(n) \in Menus /\ Screen(c) \in Menus /\ ~n.waiting
  BY <1>1 DEF Screen, Menus, Fair, Sound, UnderWay, Turns
<1>3. Good(n.p1) /\ Good(n.p2)
  BY DEF Fair, Prepares
<1>4. Prepares(c)
  BY <1>1, <1>2, <1>3 DEF Prepares, Menus, Setup, Turns, Handovers
<1>5. Fair(c)
  BY <1>1, <1>2, <1>4, PeaceIsFair DEF Fair
<1>6. TurnOf(c) = TurnOf(n) /\ WinnerOf(c) = WinnerOf(n)
  BY <1>1, <1>2 DEF TurnOf, WinnerOf, Menus
<1>7. Missed(c) = Missed(n)
  BY <1>2 DEF Missed, Menus, Turns
<1>8. View(c) = View(n)
  BY <1>1, <1>6, <1>7 DEF View
<1> QED BY <1>5, <1>8

\* Quitting is nothing the rules see.
LEMMA QuitMoves ==
  ASSUME NEW n, Fair(n), NEW c, c = Quit(n)
  PROVE  Fair(c) /\ View(c) = View(n)
<1>1. DOMAIN n = Fields /\ Sound(c) /\ c = [n EXCEPT !.over = TRUE]
  BY QuitSound DEF Quit, Fair, Sound, Shape, Host, Client
<1>2. /\ c.p1 = n.p1 /\ c.p2 = n.p2 /\ c.bot = n.bot /\ c.single = n.single
      /\ c.tag = n.tag /\ c.prev = n.prev /\ c.at = n.at /\ c.word = n.word
      /\ c.waiting = n.waiting /\ c.done = n.done /\ c.expl = n.expl
  BY <1>1 DEF Fields
<1>3. Alike(n, c)
  BY <1>2 DEF Alike, Screen, Settled, Exploding, Fair, Fights
<1> QED BY <1>1, <1>3, AlikeKeeps

\* A new game starts with boards as the rules want them.
LEMMA MenuMoves ==
  ASSUME NEW n, Fair(n), n.tag = "MAIN_MENU", NEW option \in {0, 2, 3}, NEW c, c = MenuChoose(n, option)
  PROVE  Fair(c) /\ (View(c) = View(n) \/ Prepared(View(n), View(c)))
<1>1. Sound(n) /\ Sound(c) /\ DOMAIN n = Fields /\ n.role = Host /\ Screen(n) = "MAIN_MENU" /\ ~n.waiting
  BY MenuSound DEF Fair, Sound, Shape, UnderWay, Turns, Screen
<1>2. CASE option = 0
  <2> DEFINE begun == [NewGame(n) EXCEPT !.single = TRUE]
  <2>1. c = Transition(begun, "PLACE_SHIPS_P1")
    BY <1>1, <1>2 DEF MenuChoose, StartSingle
  <2>2. /\ DOMAIN begun = Fields /\ begun.p1 = EmptyBoard /\ begun.p2 = EmptyBoard
        /\ begun.waiting = n.waiting /\ begun.single = TRUE /\ begun.bot = BotReset
    BY <1>1 DEF NewGame, CalmRenderer, ClearBoards, Fields
  <2> HIDE DEF begun
  <2>3. /\ c.tag = "PLACE_SHIPS_P1" /\ c.p1 = EmptyBoard /\ c.p2 = EmptyBoard
        /\ c.waiting = n.waiting /\ c.single = TRUE /\ c.bot = BotReset
    BY <2>1, <2>2, Transits DEF GoesTo
  <2>4. Screen(c) = "PLACE_SHIPS_P1"
    BY <2>3 DEF Screen
  <2>5. Prepares(c)
    BY <2>3, <2>4, EmptyIsGood DEF Prepares, Setup, Turns, Handovers
  <2>6. Remembers(c.bot)
    BY <2>3 DEF Remembers, BotReset
  <2>7. Fair(c)
    BY <1>1, <2>3, <2>4, <2>5, <2>6, PeaceIsFair DEF Setup
  <2>8. Prepared(View(n), View(c))
    BY <1>1, <2>3, <2>4, EmptyIsGood, SeenPrepared DEF Setup, Menus
  <2> QED BY <2>7, <2>8
<1>3. CASE option = 2
  BY <1>1, <1>3, MenuChanges DEF MenuChoose, Menus
<1>4. CASE option = 3
  BY <1>4, QuitMoves DEF MenuChoose
<1> QED BY <1>2, <1>3, <1>4

\* Esc: the rules see through the pause.
LEMMA PauseMoves ==
  ASSUME NEW n, Fair(n), PlacesByKey(n) \/ CanFire(n), NEW c, c = Transition(n, "PAUSED")
  PROVE  Fair(c) /\ View(c) = View(n)
<1>1. Sound(n) /\ Sound(c)
  BY PauseSound DEF Fair
<1>2. n.tag \in {"PLACE_SHIPS_P1", "PLACE_SHIPS_P2", "TURN_P1"} /\ ~n.waiting
  BY <1>1 DEF PlacesByKey, CanFire, OwnsTurn, Sound, Shape, UnderWay, Turns
<1>3. /\ c.p1 = n.p1 /\ c.p2 = n.p2 /\ c.bot = n.bot /\ c.single = n.single
      /\ c.tag = "PAUSED" /\ c.prev = n.tag /\ c.at = n.at /\ c.word = n.word
      /\ c.waiting = n.waiting /\ c.done = n.done /\ c.expl = n.expl
  BY <1>1, Transits DEF GoesTo, Sound, Shape
<1>4. Alike(n, c)
  BY <1>2, <1>3 DEF Alike, Screen, Settled, Exploding
<1> QED BY <1>1, <1>4, AlikeKeeps

\* Resume, or Quit, from the pause menu: the same.
LEMMA ResumeMoves ==
  ASSUME NEW n, Fair(n), n.tag = "PAUSED", NEW option, NEW c, c = PauseChoose(n, option)
  PROVE  Fair(c) /\ View(c) = View(n)
<1>1. Sound(n) /\ Sound(c)
  BY ResumeSound DEF Fair
<1>2. CASE option = 0
  <2>1. n.prev \in {"PLACE_SHIPS_P1", "PLACE_SHIPS_P2", "TURN_P1"} /\ ~n.waiting
    BY <1>1 DEF Sound, Paused, UnderWay, Turns
  <2>2. /\ c.p1 = n.p1 /\ c.p2 = n.p2 /\ c.bot = n.bot /\ c.single = n.single
        /\ c.tag = n.prev /\ c.at = n.at /\ c.word = n.word
        /\ c.waiting = n.waiting /\ c.done = n.done /\ c.expl = n.expl
    BY <1>1, <1>2, Transits DEF PauseChoose, GoesTo, Sound, Shape
  <2>3. Alike(n, c)
    BY <2>1, <2>2 DEF Alike, Screen, Settled, Exploding
  <2> QED BY <1>1, <2>3, AlikeKeeps
<1>3. CASE option # 0
  BY <1>3, QuitMoves DEF PauseChoose
<1> QED BY <1>2, <1>3

\* Enter after the game clears the boards.
LEMMA RematchMoves ==
  ASSUME NEW n, Fair(n), n.tag = "GAME_OVER", NEW c, c = Rematch(n)
  PROVE  Fair(c) /\ Prepared(View(n), View(c))
<1> DEFINE calm == [CalmRenderer(ClearBoards(n)) EXCEPT !.word = 0]
           left == Transition(calm, "MAIN_MENU")
<1>1. DOMAIN n = Fields /\ Sound(c) /\ Screen(n) = "GAME_OVER" /\ ~n.waiting
  BY RematchSound DEF Fair, Sound, Shape, UnderWay, Turns, Screen
<1>2. /\ DOMAIN calm = Fields /\ calm.p1 = EmptyBoard /\ calm.p2 = EmptyBoard
      /\ calm.bot = n.bot /\ calm.waiting = n.waiting
  BY <1>1 DEF CalmRenderer, ClearBoards, Fields
<1>3. c = Send(left, StateMsg("MAIN_MENU"))
  BY DEF Rematch
<1> HIDE DEF calm
<1>4. /\ DOMAIN left = Fields /\ left.tag = "MAIN_MENU" /\ left.p1 = EmptyBoard /\ left.p2 = EmptyBoard
      /\ left.bot = n.bot /\ left.waiting = n.waiting
  BY <1>2, Transits DEF GoesTo
<1> HIDE DEF left
<1>5. /\ c.tag = "MAIN_MENU" /\ c.p1 = EmptyBoard /\ c.p2 = EmptyBoard
      /\ c.bot = n.bot /\ c.waiting = n.waiting
  BY <1>3, <1>4 DEF Send, Fields
<1>6. Screen(c) = "MAIN_MENU"
  BY <1>5 DEF Screen
<1>7. Prepares(c)
  BY <1>5, <1>6, EmptyIsGood DEF Prepares, Menus, Setup, Turns, Handovers
<1>8. Fair(c)
  BY <1>1, <1>5, <1>6, <1>7, PeaceIsFair DEF Fair, Menus
<1>9. Prepared(View(n), View(c))
  BY <1>1, <1>5, <1>6, EmptyIsGood, SeenPrepared DEF Menus
<1> QED BY <1>8, <1>9

----------------------------------------------------------------------------
(* The rules                                                               *)

\* The cautious player of PlaysByTheRules, and a handover that is seen.
Careful == ~HastyShots /\ ~KeysDuringDraw /\ TicksPerSec > 1

\* Sending and forgetting what was sent is nothing the rules see.
LEMMA BecomeMoves ==
  ASSUME NEW v, NEW n, Fair(n), Ruled(v, View(n)), NEW c, c = [n EXCEPT !.out = << >>]
  PROVE  Fair(c) /\ Ruled(v, View(c))
<1>1. DOMAIN n = Fields
  BY DEF Fair, Sound, Shape
<1>2. Sound(c)
  BY DEF Fair, Sound, Shape, UnderWay, Paused, Click, Alone, Exploding, Placing, Screen, Fields
<1>3. /\ c.p1 = n.p1 /\ c.p2 = n.p2 /\ c.bot = n.bot /\ c.single = n.single
      /\ c.tag = n.tag /\ c.prev = n.prev /\ c.at = n.at /\ c.word = n.word
      /\ c.waiting = n.waiting /\ c.done = n.done /\ c.expl = n.expl
  BY <1>1 DEF Fields
<1>4. Alike(n, c)
  BY <1>3 DEF Alike, Screen, Settled, Exploding, Fair, Fights
<1> QED BY <1>2, <1>4, AlikeKeeps

\* The program starts fair.
LEMMA InitFair == Init => Fair(m) /\ R!Init
<1> SUFFICES ASSUME Init PROVE Fair(m) /\ R!Init
  OBVIOUS
<1>1. /\ m.tag = "MAIN_MENU" /\ m.p1 = EmptyBoard /\ m.p2 = EmptyBoard /\ m.waiting = FALSE
      /\ m.bot = BotReset /\ Sound(m)
  <2>1. Sound(m)
    BY InitSound DEF SInv
  <2> QED BY <2>1 DEF Init, Fresh
<1>2. Screen(m) = "MAIN_MENU"
  BY <1>1 DEF Screen
<1>3. Prepares(m)
  BY <1>1, <1>2, EmptyIsGood DEF Prepares, Menus, Setup, Turns, Handovers
<1>4. Fair(m)
  <2>1. Remembers(m.bot)
    BY <1>1 DEF Remembers, BotReset
  <2> QED BY <1>1, <1>2, <1>3, <2>1, PeaceIsFair DEF Menus
<1>5. FleetCells(EmptyBoard) = {} /\ ShotCells(EmptyBoard) = {}
  <2>1. ShotCells(EmptyBoard) = {}
    BY EmptyIsGood, BoardView
  <2>2. DOMAIN EmptyBoard.ships = {}
    BY DEF EmptyBoard
  <2> QED BY <2>1, <2>2 DEF FleetCells
<1>6. TurnOf(m) = 0 /\ WinnerOf(m) = 0
  BY <1>1, <1>2 DEF TurnOf, WinnerOf
<1>7. MissPending(m) = FALSE
  <2>1. ~Missed(m)
    BY <1>2 DEF Missed, Turns
  <2> QED BY <1>1, <2>1, MissSeen, MissBoolean DEF Sound
<1>8. /\ [p \in 1 .. 2 |-> FleetCells(IF p = 1 THEN m.p1 ELSE m.p2)] = [p \in {1, 2} |-> {}]
      /\ [p \in 1 .. 2 |-> ShotCells(IF p = 1 THEN m.p1 ELSE m.p2)] = [p \in {1, 2} |-> {}]
  BY <1>1, <1>5
<1>9. R!Init
  BY <1>6, <1>7, <1>8 DEF R!Init, R!Players
<1> QED BY <1>4, <1>9

\* One step per action: what each makes of the program, the rules allow.
LEMMA StepFair == Careful /\ Fair(m) /\ [Next]_m => Fair(m') /\ Ruled(View(m), View(m'))
<1> SUFFICES ASSUME Careful, Fair(m), [Next]_m PROVE Fair(m') /\ Ruled(View(m), View(m'))
  OBVIOUS
<1>1. ASSUME NEW n, Fair(n), Ruled(View(m), View(n)), Become(n)
      PROVE  Fair(m') /\ Ruled(View(m), View(m'))
  BY <1>1, BecomeMoves DEF Become
<1> DEFINE Same(n) == /\ n.p1 = m.p1 /\ n.p2 = m.p2 /\ n.bot = m.bot /\ n.single = m.single
                      /\ n.tag = m.tag /\ n.prev = m.prev /\ n.at = m.at
                      /\ n.waiting = m.waiting /\ n.done = m.done /\ n.expl = m.expl
                      /\ m.tag = "GAME_OVER" => n.word = m.word
<1>2. ASSUME NEW n, Sound(n), Same(n) PROVE Fair(n) /\ Ruled(View(m), View(n))
  <2>1. Screen(m) = "GAME_OVER" => m.tag = "GAME_OVER"
    BY DEF Fair, Sound, Paused, Screen
  <2>2. Alike(m, n)
    BY <1>2, <2>1 DEF Alike, Screen, Settled, Exploding, Fair, Fights
  <2> QED BY <1>2, <2>2, AlikeKeeps DEF Ruled
<1>3. DOMAIN m = Fields /\ m.role = Host /\ Sound(m)
  BY DEF Fair, Sound, Shape
<1>4. CASE MenuArrow
  <2>1. ASSUME NEW key, m.tag \in {"MAIN_MENU", "PAUSED"}
        PROVE  Sound(Arrow(m, key)) /\ Same(Arrow(m, key))
    <3>1. Sound(Arrow(m, key))
      BY <1>3 DEF Arrow, Sound, Shape, UnderWay, Paused, Click, Alone, Exploding, Placing, Screen, Fields
    <3>2. Same(Arrow(m, key))
      BY <1>3, <2>1 DEF Arrow, Fields
    <3> QED BY <3>1, <3>2
  <2> HIDE DEF Same
  <2> QED BY <1>1, <1>2, <1>4, <2>1 DEF MenuArrow
<1>5. CASE MenuEnter
  <2>1. PICK option \in {0, 2, 3} : Become(MenuChoose(m, option)) /\ m.tag = "MAIN_MENU"
    BY <1>5 DEF MenuEnter
  <2> QED BY <1>1, <2>1, MenuMoves DEF Ruled
<1>6. CASE LeaveInstructions
  <2>1. m.tag = "INSTRUCTIONS" /\ Become(Transition(m, "MAIN_MENU"))
    BY <1>6 DEF LeaveInstructions
  <2>2. Shape(m) /\ ~Exploding(m) /\ ~m.waiting /\ ~m.done
    BY <1>3, <2>1 DEF Sound, UnderWay, Turns, Screen
  <2>3. Sound(Transition(m, "MAIN_MENU"))
    BY <2>2, ArrivesSound DEF GoesTo, Tags
  <2> QED BY <1>1, <2>1, <2>3, MenuChanges DEF Ruled, Menus
<1>7. CASE PlaceByMouse
  <2>1. PICK cells \in Footprints(ShipSizes[m.idx + 1]) : Become(PutShip(m, cells))
    BY <1>7 DEF PlaceByMouse
  <2>2. m.tag = "PLACE_SHIPS_P1"
    BY <1>3, <1>7 DEF PlaceByMouse, PlacesByMouse
  <2> QED BY <1>1, <2>1, <2>2, PutShipMoves DEF Ruled
<1>8. CASE PlaceByKey
  <2>1. PICK cells \in Footprints(ShipSizes[m.idx + 1]) : Become(PutShip(m, cells))
    BY <1>8 DEF PlaceByKey
  <2>2. m.tag = "PLACE_SHIPS_P1"
    BY <1>8 DEF PlaceByKey, PlacesByKey, Careful
  <2> QED BY <1>1, <2>1, <2>2, PutShipMoves DEF Ruled
<1>9. CASE Fire
  <2>1. PICK x \in Cells : Become(FireAt(m, x))
    BY <1>9 DEF Fire
  <2>2. CanFire(m) /\ Settled(m)
    BY <1>9 DEF Fire, Careful
  <2> QED BY <1>1, <2>1, <2>2, FireMoves DEF Ruled
<1>10. CASE Pause
  <2>1. (PlacesByKey(m) \/ CanFire(m)) /\ Become(Transition(m, "PAUSED"))
    BY <1>10 DEF Pause
  <2> QED BY <1>1, <2>1, PauseMoves DEF Ruled
<1>11. CASE PauseEnter
  <2>1. PICK option \in 0 .. 1 : Become(PauseChoose(m, option)) /\ m.tag = "PAUSED"
    BY <1>11 DEF PauseEnter
  <2> QED BY <1>1, <2>1, ResumeMoves DEF Ruled
<1>12. CASE GameOverEnter
  BY <1>1, <1>12, RematchMoves DEF GameOverEnter, Ruled
<1>13. CASE GameOverEsc
  <2> DEFINE left == [m EXCEPT !.over = TRUE]
  <2>1. Sound(left)
    BY <1>3 DEF Sound, Shape, UnderWay, Paused, Click, Alone, Exploding, Placing, Screen, Fields
  <2>2. Same(left)
    BY <1>3 DEF Fields
  <2> HIDE DEF Same
  <2> QED BY <1>1, <1>2, <1>13, <2>1, <2>2 DEF GameOverEsc
<1>14. CASE ClickInBotTurn
  <2> DEFINE latched == [m EXCEPT !.clicked = TRUE]
  <2>1. Sound(latched)
    BY <1>3, <1>14 DEF ClickInBotTurn, Sound, Shape, UnderWay, Paused, Click, Alone, Exploding, Placing,
                       Screen, Fields
  <2>2. Same(latched)
    BY <1>3 DEF Fields
  <2> HIDE DEF Same
  <2> QED BY <1>1, <1>2, <1>14, <2>1, <2>2 DEF ClickInBotTurn
<1>15. CASE Timer
  BY <1>1, <1>15, TickMoves DEF Timer, Careful
<1>16. CASE UNCHANGED m
  BY <1>16 DEF Ruled
<1> QED BY <1>4, <1>5, <1>6, <1>7, <1>8, <1>9, <1>10, <1>11, <1>12, <1>13, <1>14, <1>15, <1>16 DEF Next

\* Alone with the bot, whatever a player does who waits for a shot's result and keeps off
\* the keyboard while the bot places its ships, the program's handlers, animations, waits
\* and pauses together play by the README's turn rule, on any sea, with any fleet and any
\* timing but a handover of a single tick.
THEOREM RulesKept == ASSUME Careful PROVE Spec => PlaysByTheRules
<1>1. Init => Fair(m) /\ R!Init
  BY InitFair
<1>2. Fair(m) /\ [Next]_m => Fair(m)'
  BY StepFair
<1>3. Fair(m) /\ [Next]_m => [R!Next]_(R!vars)
  <2> SUFFICES ASSUME Fair(m), [Next]_m PROVE [R!Next]_(R!vars)
    OBVIOUS
  <2>1. Fair(m') /\ Ruled(View(m), View(m'))
    BY StepFair
  <2>2. Shape(m) /\ Shape(m')
    BY <2>1 DEF Fair, Sound
  <2> QED BY <2>1, <2>2, RulesStep
<1> QED BY <1>1, <1>2, <1>3, PTL DEF Spec, PlaysByTheRules, R!Spec

----------------------------------------------------------------------------
(* Counters and screens                                                    *)

\* How far the counters of a program go.  The countdown is over before it reaches zero
\* on its screen, and the wait for the bot's ships before it is two seconds long.
Ranges(n) ==
  /\ n.prev \in Tags /\ n.word \in 0 .. 3 /\ n.idx \in 0 .. NumShips - 1
  /\ n.secs \in 0 .. CountdownStart /\ (n.tag = "COUNTDOWN" => n.secs > 0)
  /\ n.cticks \in 0 .. TicksPerSec - 1
  /\ n.botTimer \in 0 .. 2 * TicksPerSec
  /\ Screen(n) = "PLACE_SHIPS_P2" => n.botTimer < 2 * TicksPerSec
  /\ n.bot \in BotType
  /\ n.post \in 0 .. PostAttackTicks - 1
  /\ n.expl \in {"none", "blast", "splash"}

\* The counters a handler leaves alone.
SameCounters(n, c) ==
  /\ c.secs = n.secs /\ c.cticks = n.cticks /\ c.botTimer = n.botTimer /\ c.bot = n.bot
  /\ c.post = n.post /\ c.expl = n.expl /\ c.idx = n.idx /\ c.word = n.word

\* A change of screen touches no counter.
LEMMA ArrivesInRange ==
  ASSUME NEW n, DOMAIN n = Fields, n.tag \in Tags, Ranges(n), NEW next,
         next = "COUNTDOWN" => n.secs > 0,
         next = "PLACE_SHIPS_P2" => n.botTimer < 2 * TicksPerSec,
         next = "PAUSED" => n.tag # "PAUSED",
         NEW c, GoesTo(n, next, c)
  PROVE  Ranges(c)
<1>1. c.tag = next /\ c.prev = n.tag /\ SameCounters(n, c)
  BY DEF GoesTo, Transition, Push, Send, Fields, SameCounters
<1> QED BY <1>1 DEF Ranges, SameCounters, Screen

\* A message sent, the click and the end of the program touch none either.
LEMMA StaysInRange ==
  ASSUME NEW n, Ranges(n), NEW c, SameCounters(n, c), c.tag = n.tag, c.prev = n.prev
  PROVE  Ranges(c)
  BY DEF Ranges, SameCounters, Screen

\* The limits leave room for one.
LEMMA Positive ==
  /\ TicksPerSec \in Nat \ {0} /\ CountdownStart \in Nat \ {0} /\ PostAttackTicks \in Nat \ {0}
  BY TimingAssumption

\* The countdown stops at zero, with the next screen.
LEMMA CountdownInRange ==
  ASSUME NEW n, Sound(n), Ranges(n)
  PROVE  Ranges(Countdown(n))
<1>1. CASE n.tag # "COUNTDOWN"
  BY <1>1 DEF Countdown
<1>2. CASE n.tag = "COUNTDOWN"
  <2> DEFINE ticked == [n EXCEPT !.cticks = n.cticks + 1]
             second == [n EXCEPT !.cticks = 0, !.secs = n.secs - 1]
             begun  == [second EXCEPT !.word = 1]
             told   == Send(second, [type |-> "SECONDS", secs |-> second.secs])
  <2>1. DOMAIN n = Fields /\ n.role = Host
    BY DEF Sound, Shape
  <2>2. \/ n.cticks + 1 < TicksPerSec /\ Countdown(n) = ticked
        \/ n.secs - 1 <= 0 /\ Countdown(n) = Push(begun, "TURN_P1")
        \/ ~(n.secs - 1 <= 0) /\ Countdown(n) \in {second, told}
    <3>1. second.secs = n.secs - 1
      BY <2>1 DEF Fields
    <3> HIDE DEF second
    <3>2. Countdown(n) = IF n.cticks + 1 < TicksPerSec THEN ticked
                         ELSE IF second.secs <= 0 THEN Push(begun, "TURN_P1")
                         ELSE IF second.single THEN second ELSE told
      BY <2>1, <1>2 DEF Countdown, second
    <3> QED BY <3>1, <3>2
  <2>3. n.cticks + 1 < TicksPerSec => Ranges(ticked)
    BY <1>2, <2>1, Positive DEF Ranges, Fields, Screen
  <2>4. ~(n.secs - 1 <= 0) => Ranges(second)
    BY <1>2, <2>1, Positive DEF Ranges, Fields, Screen
  <2>5. DOMAIN second = Fields /\ second.tag = n.tag /\ second.prev = n.prev
    BY <2>1 DEF Fields
  <2>6. ~(n.secs - 1 <= 0) => Ranges(told)
    <3> HIDE DEF second
    <3>1. SameCounters(second, told) /\ told.tag = second.tag /\ told.prev = second.prev
      BY <2>5 DEF SameCounters, Send, Fields
    <3> QED BY <2>4, <3>1, StaysInRange
  <2>7. Ranges(Push(begun, "TURN_P1"))
    <3> DEFINE c == Push(begun, "TURN_P1")
    <3>1. DOMAIN begun = Fields
      BY <2>5 DEF Fields
    <3>2. /\ begun.secs = n.secs - 1 /\ begun.cticks = 0 /\ begun.botTimer = n.botTimer
          /\ begun.bot = n.bot /\ begun.post = n.post /\ begun.expl = n.expl
          /\ begun.idx = n.idx /\ begun.word = 1 /\ begun.tag = "COUNTDOWN"
      BY <1>2, <2>1 DEF Fields
    <3> HIDE DEF begun
    <3>3. c.tag = "TURN_P1" /\ c.prev = "COUNTDOWN" /\ SameCounters(begun, c)
      BY <3>1, <3>2 DEF Transition, Push, Send, Fields, SameCounters
    <3> HIDE DEF c
    <3>4. Ranges(c)
      BY <1>2, <3>2, <3>3, Positive DEF Ranges, SameCounters, Screen, Tags
    <3> QED BY <3>4 DEF c
  <2> HIDE DEF second, begun, ticked, told
  <2> QED BY <2>2, <2>3, <2>4, <2>6, <2>7
<1> QED BY <1>1, <1>2

\* The result names the winner or starts the wait.
LEMMA ResultInRange ==
  ASSUME NEW n, Sound(n), Ranges(n)
  PROVE  Ranges(Result(n))
<1>1. CASE ~(n.role = Host /\ InTurn(n) /\ ~n.waiting /\ n.done)
  BY <1>1 DEF Result
<1>2. CASE n.role = Host /\ InTurn(n) /\ ~n.waiting /\ n.done
  <2> DEFINE read   == [n EXCEPT !.done = FALSE]
             result == ResultAt(Target(n), n.at)
             told   == IF n.single THEN read
                       ELSE Send(read, [type |-> "RESULT", cell |-> n.at, result |-> result])
             winner == IF n.tag = "TURN_P1" THEN 1 ELSE 2
             final  == [told EXCEPT !.word = winner]
             won    == Transition(final, "GAME_OVER")
             shown  == Send(Send(won, [type |-> "WINNER", winner |-> winner]), StateMsg("GAME_OVER"))
             missed == [told EXCEPT !.waiting = TRUE, !.post = 0]
  <2>1. Result(n) \in {won, shown, missed, told}
    BY <1>2 DEF Result
  <2>2. DOMAIN told = Fields /\ \A f \in Fields \ {"done", "out"} : told[f] = n[f]
    BY DEF Sound, Shape, Send, Fields
  <2>3. winner \in 0 .. 3
    OBVIOUS
  <2>4. n.tag \in Turns
    BY <1>2 DEF InTurn, Turns
  <2> HIDE DEF told, winner, result
  <2>5. DOMAIN final = Fields /\ final.tag = n.tag /\ Ranges(final)
    BY <2>2, <2>3 DEF Ranges, Fields, Screen
  <2>6. Ranges(missed) /\ Ranges(told)
    BY <2>2, Positive DEF Ranges, Fields, Screen
  <2>7. Ranges(won) /\ DOMAIN won = Fields
    <3> HIDE DEF final
    <3>1. Ranges(won)
      BY <2>4, <2>5, ArrivesInRange DEF GoesTo, Turns, Tags
    <3>2. DOMAIN won = Fields
      BY <2>5 DEF Transition
    <3> QED BY <3>1, <3>2
  <2>8. Ranges(shown)
    <3> HIDE DEF won
    <3>1. SameCounters(won, shown) /\ shown.tag = won.tag /\ shown.prev = won.prev
      BY <2>7 DEF SameCounters, Send, Fields
    <3> QED BY <2>7, <3>1, StaysInRange
  <2> QED BY <2>1, <2>6, <2>7, <2>8
<1> QED BY <1>1, <1>2

\* The wait ends before its counter leaves its range.
LEMMA PostAttackInRange ==
  ASSUME NEW n, Sound(n), Ranges(n)
  PROVE  Ranges(PostAttack(n))
<1> DEFINE more   == [n EXCEPT !.post = n.post + 1]
           over   == [n EXCEPT !.waiting = FALSE, !.post = 0, !.cticks = 0]
           first  == [over EXCEPT !.word = 1]
           second == [over EXCEPT !.word = 2]
<1>1. DOMAIN n = Fields /\ n.tag \in Tags
  BY DEF Sound, Shape
<1>2. \/ PostAttack(n) = n
      \/ n.post + 1 < PostAttackTicks /\ PostAttack(n) = more
      \/ PostAttack(n) \in {Push(second, "HANDOVER_P2"), Push(first, "HANDOVER_P1")}
  BY DEF PostAttack
<1>3. n.post + 1 < PostAttackTicks => Ranges(more)
  BY <1>1, Positive DEF Ranges, Fields, Screen
<1>4. /\ DOMAIN first = Fields /\ first.tag = n.tag /\ Ranges(first)
      /\ DOMAIN second = Fields /\ second.tag = n.tag /\ Ranges(second)
  <2>1. DOMAIN over = Fields /\ over.tag = n.tag /\ Ranges(over)
    BY <1>1, Positive DEF Ranges, Fields, Screen
  <2> HIDE DEF over
  <2> QED BY <2>1 DEF Ranges, Fields, Screen
<1> HIDE DEF more, first, second
<1>5. Ranges(Push(second, "HANDOVER_P2")) /\ Ranges(Push(first, "HANDOVER_P1"))
  BY <1>1, <1>4, ArrivesInRange DEF GoesTo
<1> QED BY <1>2, <1>3, <1>5

\* So does the handover.
LEMMA HandoverInRange ==
  ASSUME NEW n, Sound(n), Ranges(n)
  PROVE  Ranges(Handover(n))
<1> DEFINE more == [n EXCEPT !.cticks = n.cticks + 1]
           over == [n EXCEPT !.cticks = 0]
<1>1. DOMAIN n = Fields /\ n.tag \in Tags
  BY DEF Sound, Shape
<1>2. \/ Handover(n) = n
      \/ n.cticks + 1 < TicksPerSec /\ Handover(n) = more
      \/ Handover(n) \in {Push(over, "TURN_P1"), Push(over, "TURN_P2")}
  BY DEF Handover
<1>3. n.cticks + 1 < TicksPerSec => Ranges(more)
  BY <1>1, Positive DEF Ranges, Fields, Screen
<1>4. DOMAIN over = Fields /\ over.tag = n.tag /\ Ranges(over)
  BY <1>1, Positive DEF Ranges, Fields, Screen
<1> HIDE DEF more, over
<1>5. Ranges(Push(over, "TURN_P1")) /\ Ranges(Push(over, "TURN_P2"))
  BY <1>1, <1>4, ArrivesInRange DEF GoesTo
<1> QED BY <1>2, <1>3, <1>5

\* A blocked probe turns the direction within four, and the bot has not tried all
\* directions while it searches.
LEMMA BotAimsInRange ==
  ASSUME NEW bot \in BotType, NEW b, NEW aimed \in Choose(bot, b)
  PROVE  aimed \in BotType /\ (aimed.mode = "search" => aimed.tried < 4)
<1> DEFINE open == OpenProbes(bot, b)
<1>1. Probes(bot) \in 0 .. 4 /\ (bot.mode = "search" => Probes(bot) = 4 - bot.tried)
  BY DEF Probes, BotType
<1>2. ASSUME NEW some \in BotType, aimed \in Random(some, b)
      PROVE  aimed \in BotType /\ aimed.mode = "random"
  BY <1>2 DEF Random, BotType, Modes
<1>3. ASSUME NEW k \in 0 .. Probes(bot)
      PROVE  /\ Blocked(bot, k) \in BotType
             /\ Blocked(bot, k).mode = bot.mode
             /\ bot.mode = "search" => Blocked(bot, k).tried = bot.tried + k
  <2>1. ProbeDir(bot, k) \in 0 .. 3
    <3>1. bot.dir + k * Turn(bot) \in Nat
      BY <1>1 DEF Turn, BotType
    <3>2. \A a \in Nat : a % 4 \in 0 .. 3
      OBVIOUS
    <3> QED BY <3>1, <3>2 DEF ProbeDir
  <2>2. bot.mode = "search" => bot.tried + k \in 0 .. 4
    BY <1>1 DEF BotType
  <2> DEFINE dir == ProbeDir(bot, k)
  <2>3. Blocked(bot, k) = [bot EXCEPT !.dir = dir,
                                      !.tried = IF bot.mode = "search" THEN bot.tried + k ELSE bot.tried]
    BY DEF Blocked, BotType
  <2> HIDE DEF dir
  <2> QED BY <2>1, <2>2, <2>3 DEF BotType, dir
<1>4. CASE bot.mode = "random"
  BY <1>2, <1>4 DEF Choose
<1>5. CASE bot.mode # "random" /\ open = {}
  BY <1>1, <1>2, <1>3, <1>5 DEF Choose
<1>6. CASE bot.mode # "random" /\ open # {}
  <2> DEFINE k == CHOOSE j \in open : \A i \in open : j <= i
  <2>1. open \in SUBSET Nat
    BY <1>1 DEF OpenProbes
  <2>2. k \in open
    BY <1>6, <2>1, LeastNumber
  <2>3. aimed = [Blocked(bot, k) EXCEPT !.curr = ProbeCell(bot, b, k)]
    BY <1>6 DEF Choose
  <2> HIDE DEF k
  <2>4. ProbeCell(bot, b, k) \in Cells /\ k \in 0 .. Probes(bot) - 1
    BY <2>2 DEF OpenProbes
  <2>5. k \in 0 .. Probes(bot) /\ k < Probes(bot)
    BY <1>1, <2>4
  <2>6. Blocked(bot, k) \in BotType /\ Blocked(bot, k).mode = bot.mode
    BY <1>3, <2>5
  <2>7. bot.mode = "search" => Blocked(bot, k).tried < 4
    BY <1>1, <1>3, <2>5 DEF BotType
  <2> QED BY <2>3, <2>4, <2>6, <2>7 DEF BotType
<1> QED BY <1>4, <1>5, <1>6

\* What a result leaves of it.
LEMMA BotRegistersInRange ==
  ASSUME NEW bot \in BotType, bot.mode = "search" => bot.tried < 4, NEW result
  PROVE  Register(bot, result) \in BotType
<1>1. /\ bot.dir + 1 \in Nat /\ bot.dir + 2 \in Nat
      /\ \A a \in Nat : a % 4 \in 0 .. 3
  BY DEF BotType
<1>2. bot.mode = "search" => bot.tried + 1 \in 0 .. 4
  BY DEF BotType
<1> DEFINE next == (bot.dir + 1) % 4
           back == (bot.dir + 2) % 4
<1>3. next \in 0 .. 3 /\ back \in 0 .. 3
  BY <1>1
<1>4. Register(bot, result) \in
        {bot, [bot EXCEPT !.mode = "random"], [bot EXCEPT !.mode = "destroy"],
         [bot EXCEPT !.mode = "search", !.first = bot.curr, !.dir = 0, !.tried = 0],
         [bot EXCEPT !.dir = back, !.curr = bot.first]}
      \/ /\ bot.mode = "search"
         /\ Register(bot, result) =
              [bot EXCEPT !.dir = next, !.tried = bot.tried + 1, !.curr = bot.first,
                          !.mode = IF bot.tried + 1 >= 4 THEN "random" ELSE bot.mode]
  BY DEF Register
<1> HIDE DEF next, back
<1>5. \A mode \in Modes : [bot EXCEPT !.mode = mode] \in BotType
  BY DEF BotType
<1>6. [bot EXCEPT !.mode = "search", !.first = bot.curr, !.dir = 0, !.tried = 0] \in BotType
  <2>1. 0 \in 0 .. 3 /\ 0 \in 0 .. 4
    OBVIOUS
  <2>2. \A d \in 0 .. 3, t \in 0 .. 4 :
          [bot EXCEPT !.mode = "search", !.first = bot.curr, !.dir = d, !.tried = t] \in BotType
    BY DEF BotType, Modes
  <2> QED BY <2>1, <2>2
<1>7. [bot EXCEPT !.dir = back, !.curr = bot.first] \in BotType
  BY <1>3 DEF BotType
<1>8. bot.mode = "search" =>
        [bot EXCEPT !.dir = next, !.tried = bot.tried + 1, !.curr = bot.first,
                    !.mode = IF bot.tried + 1 >= 4 THEN "random" ELSE bot.mode] \in BotType
  BY <1>2, <1>3 DEF BotType, Modes
<1> QED BY <1>4, <1>5, <1>6, <1>7, <1>8 DEF Modes

\* The bot's clock is read before it passes two seconds, and set back by its shot.
LEMMA BotPlaysInRange ==
  ASSUME NEW n, Sound(n), Ranges(n), NEW c \in BotPlays(n)
  PROVE  Ranges(c)
<1> DEFINE ticked == [n EXCEPT !.botTimer = n.botTimer + 1]
<1>1. DOMAIN n = Fields /\ n.tag \in Tags /\ ticked.botTimer = n.botTimer + 1
  BY DEF Sound, Shape, Fields
<1> HIDE DEF ticked
<1>2. \/ c = n
      \/ n.tag = "PLACE_SHIPS_P2" /\ n.botTimer + 1 < 2 * TicksPerSec /\ c = ticked
      \/ BotReady(n) /\ n.botTimer + 1 < TicksPerSec /\ c = ticked
      \/ /\ n.tag = "PLACE_SHIPS_P2"
         /\ \E b : c = Transition([ticked EXCEPT !.p2 = b, !.secs = CountdownStart, !.cticks = 0],
                                  "COUNTDOWN")
      \/ /\ BotReady(n)
         /\ \E b, x, hit, result : \E aimed \in Choose(n.bot, n.p1) :
              c = [Explode(SetTarget(n, b), x, hit)
                     EXCEPT !.botTimer = 0, !.bot = Register(aimed, result)]
  BY <1>1 DEF BotPlays, Resolve, ticked
<1>3. ASSUME c = ticked, n.tag = "PLACE_SHIPS_P2" \/ BotReady(n),
             \/ n.tag = "PLACE_SHIPS_P2" /\ n.botTimer + 1 < 2 * TicksPerSec
             \/ BotReady(n) /\ n.botTimer + 1 < TicksPerSec
      PROVE  Ranges(c)
  BY <1>1, <1>3, Positive DEF Ranges, Fields, Screen, BotReady, ticked
<1>4. ASSUME n.tag = "PLACE_SHIPS_P2", NEW b,
             c = Transition([ticked EXCEPT !.p2 = b, !.secs = CountdownStart, !.cticks = 0], "COUNTDOWN")
      PROVE  Ranges(c)
  <2> DEFINE drawn == [ticked EXCEPT !.p2 = b, !.secs = CountdownStart, !.cticks = 0]
  <2>1. n.botTimer + 1 \in 0 .. 2 * TicksPerSec
    BY <1>4, Positive DEF Ranges, Screen
  <2>2. /\ DOMAIN drawn = Fields /\ drawn.tag = n.tag /\ drawn.secs = CountdownStart /\ drawn.cticks = 0
        /\ drawn.botTimer = n.botTimer + 1 /\ drawn.bot = n.bot /\ drawn.post = n.post
        /\ drawn.expl = n.expl /\ drawn.idx = n.idx /\ drawn.word = n.word
    BY <1>1 DEF ticked, Fields
  <2> HIDE DEF drawn
  <2>3. c = Transition(drawn, "COUNTDOWN")
    BY <1>4 DEF drawn
  <2>4. c.tag = "COUNTDOWN" /\ c.prev = "PLACE_SHIPS_P2" /\ SameCounters(drawn, c)
    BY <1>4, <2>2, <2>3 DEF Transition, SameCounters, Fields
  <2> QED BY <2>1, <2>2, <2>4, Positive DEF Ranges, SameCounters, Screen, Tags
<1>5. ASSUME BotReady(n), NEW b, NEW x, NEW hit, NEW result, NEW aimed \in Choose(n.bot, n.p1),
             c = [Explode(SetTarget(n, b), x, hit) EXCEPT !.botTimer = 0, !.bot = Register(aimed, result)]
      PROVE  Ranges(c)
  <2>1. Register(aimed, result) \in BotType
    BY BotAimsInRange, BotRegistersInRange DEF Ranges
  <2> DEFINE memory == Register(aimed, result)
  <2> HIDE DEF memory
  <2>2. /\ c.tag = n.tag /\ c.prev = n.prev /\ c.secs = n.secs /\ c.cticks = n.cticks
        /\ c.botTimer = 0 /\ c.bot = memory /\ c.post = n.post /\ c.expl = "blast"
        /\ c.idx = n.idx /\ c.word = n.word
    BY <1>1, <1>5 DEF Explode, SetTarget, Fields, memory
  <2> QED BY <1>5, <2>1, <2>2, Positive DEF Ranges, Screen, BotReady, memory
<1> QED BY <1>2, <1>3, <1>4, <1>5

\* The animation moves its own counter only.
LEMMA AnimateInRange ==
  ASSUME NEW n, Sound(n), Ranges(n)
  PROVE  Ranges(Animate(n))
<1> DEFINE frame  == [n EXCEPT !.eticks = n.eticks + 1]
           splash == [n EXCEPT !.expl = "splash", !.eticks = 0]
           ended  == [n EXCEPT !.expl = "none", !.eticks = 0, !.done = TRUE]
<1>1. Animate(n) \in {n, frame, splash, ended}
  BY DEF Animate
<1>2. DOMAIN n = Fields
  BY DEF Sound, Shape
<1>3. Ranges(frame) /\ Ranges(splash) /\ Ranges(ended)
  BY <1>2 DEF Ranges, Fields, Screen
<1> QED BY <1>1, <1>3

\* And so a whole tick.
LEMMA TickInRange == ASSUME NEW n, Sound(n), Ranges(n), NEW c \in Tick(n) PROVE Ranges(c)
<1> DEFINE told   == Result(Countdown(n))
           waited == PostAttack(told)
           handed == Handover(waited)
<1>1. Sound(told) /\ Ranges(told)
  BY CountdownSound, ResultSound, CountdownInRange, ResultInRange
<1>2. Sound(handed) /\ Ranges(handed)
  BY <1>1, PostAttackSound, HandoverSound, PostAttackInRange, HandoverInRange
<1>3. \A e \in BotPlays(handed) : Sound(e) /\ Ranges(e)
  BY <1>2, BotPlaysSound, BotPlaysInRange
<1>4. c = Animate(told) \/ \E e \in BotPlays(handed) : c = Animate(e)
  BY TickParts
<1> QED BY <1>1, <1>3, <1>4, AnimateInRange

\* A ship placed: the next one, or the next screen from the first again.
LEMMA PutShipInRange ==
  ASSUME NEW n, Sound(n), Ranges(n), n.tag = "PLACE_SHIPS_P1", n.single, NEW cells
  PROVE  Ranges(PutShip(n, cells))
<1> DEFINE size   == ShipSizes[n.idx + 1]
           board  == PlaceShip(n.p1, cells, size)
           onto   == [n EXCEPT !.p1 = board]
           begun  == [onto EXCEPT !.idx = 0, !.botTimer = 0]
           next   == [onto EXCEPT !.idx = n.idx + 1]
<1>1. DOMAIN n = Fields /\ n.role = Host
  BY DEF Sound, Shape
<1> HIDE DEF size, board
<1>2. /\ DOMAIN onto = Fields /\ onto.role = Host /\ onto.tag = n.tag /\ onto.prev = n.prev
      /\ SameCounters(n, onto) /\ onto.single = n.single
  BY <1>1 DEF Fields, SameCounters
<1>3. PutShip(n, cells) \in {n, Transition(begun, "PLACE_SHIPS_P2"), next}
  <2>1. \A ship : MirrorShip(onto, ship) = onto
    BY <1>2 DEF MirrorShip, Host, Client
  <2>2. onto.idx = n.idx
    BY <1>2 DEF SameCounters
  <2> HIDE DEF onto
  <2>3. PutShip(n, cells) = IF ~CanPlace(n.p1, cells) THEN n
                            ELSE IF Len(board.ships) >= NumShips THEN FleetPlaced(onto)
                            ELSE [onto EXCEPT !.idx = onto.idx + 1]
    BY <2>1 DEF PutShip, PlacedOn, onto, board, size
  <2>4. FleetPlaced(onto) = Transition(begun, "PLACE_SHIPS_P2")
    BY <1>2 DEF FleetPlaced
  <2> QED BY <2>2, <2>3, <2>4
<1>4. Ranges(Transition(begun, "PLACE_SHIPS_P2"))
  <2>1. /\ DOMAIN begun = Fields /\ begun.tag = n.tag /\ begun.prev = n.prev
        /\ begun.secs = n.secs /\ begun.cticks = n.cticks /\ begun.botTimer = 0
        /\ begun.bot = n.bot /\ begun.post = n.post /\ begun.expl = n.expl
        /\ begun.idx = 0 /\ begun.word = n.word
    BY <1>2 DEF Fields, SameCounters
  <2> HIDE DEF begun
  <2>2. Ranges(begun)
    BY <2>1, Positive, NumShipsType DEF Ranges, Screen
  <2>3. begun.botTimer < 2 * TicksPerSec
    BY <2>1, Positive
  <2> QED BY <2>1, <2>2, <2>3, ArrivesInRange DEF GoesTo, Tags
<1>5. PutShip(n, cells) = next => Ranges(next)
  <2> SUFFICES ASSUME PutShip(n, cells) = next PROVE Ranges(next)
    OBVIOUS
  <2>1. Sound(next)
    BY PutShipSound
  <2>2. /\ next.tag = n.tag /\ next.prev = n.prev
        /\ next.secs = n.secs /\ next.cticks = n.cticks /\ next.botTimer = n.botTimer
        /\ next.bot = n.bot /\ next.post = n.post /\ next.expl = n.expl
        /\ next.idx = n.idx + 1 /\ next.word = n.word
    BY <1>2 DEF Fields, SameCounters
  <2> HIDE DEF next
  <2>3. next.idx < NumShips
    BY <2>1, <2>2 DEF Sound, Screen, Placing
  <2> QED BY <2>2, <2>3, NumShipsType DEF Ranges, Screen
<1> QED BY <1>3, <1>4, <1>5

\* The menus set the counters of a new game back.
LEMMA MenuInRange ==
  ASSUME NEW n, Sound(n), Ranges(n), n.tag = "MAIN_MENU", NEW option \in {0, 2, 3}
  PROVE  Ranges(MenuChoose(n, option))
<1>1. DOMAIN n = Fields /\ n.role = Host
  BY DEF Sound, Shape
<1>2. CASE option = 0
  <2> DEFINE begun == [NewGame(n) EXCEPT !.single = TRUE]
  <2>1. /\ DOMAIN begun = Fields /\ begun.tag = n.tag /\ begun.prev = n.prev
        /\ begun.secs = n.secs /\ begun.cticks = n.cticks /\ begun.botTimer = n.botTimer
        /\ begun.bot = BotReset /\ begun.post = n.post /\ begun.expl = "none"
        /\ begun.idx = 0 /\ begun.word = 1
    BY <1>1 DEF NewGame, CalmRenderer, ClearBoards, Fields
  <2> HIDE DEF begun
  <2>2. BotReset \in BotType
    BY BoardAssumption DEF BotReset, BotType, Modes, Cells
  <2>3. Ranges(begun)
    BY <2>1, <2>2, NumShipsType DEF Ranges, Screen
  <2>4. Ranges(Transition(begun, "PLACE_SHIPS_P1"))
    BY <2>1, <2>3, ArrivesInRange DEF GoesTo, Tags
  <2> QED BY <1>1, <1>2, <2>4 DEF MenuChoose, StartSingle, begun
<1>3. CASE option = 2
  BY <1>1, <1>3, ArrivesInRange DEF MenuChoose, GoesTo, Tags
<1>4. CASE option = 3
  <2>1. Quit(n) = [n EXCEPT !.over = TRUE]
    BY <1>1 DEF Quit, Host, Client
  <2> QED BY <1>1, <1>4, <2>1 DEF MenuChoose, Ranges, Screen, Fields
<1> QED BY <1>2, <1>3, <1>4

\* The pause menu.
LEMMA ResumeInRange ==
  ASSUME NEW n, Sound(n), Ranges(n), n.tag = "PAUSED", NEW option
  PROVE  Ranges(PauseChoose(n, option))
<1>1. DOMAIN n = Fields /\ n.role = Host /\ n.tag \in Tags
  BY DEF Sound, Shape
<1>2. Screen(n) = n.prev /\ n.prev \in {"PLACE_SHIPS_P1", "PLACE_SHIPS_P2", "TURN_P1"}
  BY DEF Screen, Sound, Paused
<1>3. Ranges(Transition(n, n.prev))
  BY <1>1, <1>2, ArrivesInRange DEF GoesTo, Ranges
<1>4. Quit(n) = [n EXCEPT !.over = TRUE]
  BY <1>1 DEF Quit, Host, Client
<1>5. Ranges(Quit(n))
  BY <1>1, <1>4 DEF Ranges, Screen, Fields
<1> QED BY <1>3, <1>5 DEF PauseChoose

\* Enter after the game.
LEMMA RematchInRange ==
  ASSUME NEW n, Sound(n), Ranges(n), n.tag = "GAME_OVER"
  PROVE  Ranges(Rematch(n))
<1> DEFINE calm == [CalmRenderer(ClearBoards(n)) EXCEPT !.word = 0]
           left == Transition(calm, "MAIN_MENU")
<1>1. DOMAIN n = Fields
  BY DEF Sound, Shape
<1>2. DOMAIN calm = Fields /\ calm.tag = "GAME_OVER" /\ Ranges(calm)
  BY <1>1 DEF CalmRenderer, ClearBoards, Ranges, Screen, Fields
<1> HIDE DEF calm
<1>3. Ranges(left) /\ DOMAIN left = Fields
  <2>1. Ranges(left)
    BY <1>2, ArrivesInRange DEF GoesTo, Tags
  <2> QED BY <1>2, <2>1 DEF Transition
<1> HIDE DEF left
<1>4. Rematch(n) = Send(left, StateMsg("MAIN_MENU"))
  BY DEF Rematch, left, calm
<1>5. Ranges(Send(left, StateMsg("MAIN_MENU")))
  BY <1>3 DEF Ranges, Screen, Send, Fields
<1> QED BY <1>4, <1>5

\* A shot.
LEMMA FireInRange ==
  ASSUME NEW n, Sound(n), Ranges(n), CanFire(n), NEW x
  PROVE  Ranges(FireAt(n, x))
<1>1. DOMAIN n = Fields /\ n.role = Host
  BY DEF Sound, Shape
<1>2. ASSUME NEW b, NEW hit PROVE Ranges(Explode(SetTarget(n, b), x, hit))
  BY <1>1 DEF Explode, SetTarget, Ranges, Screen, Fields
<1> QED BY <1>1, <1>2 DEF FireAt, Resolve

\* The highlighted line.
LEMMA ArrowInRange ==
  ASSUME NEW n, Sound(n), Ranges(n), NEW key
  PROVE  Ranges(Arrow(n, key))
<1> DEFINE w == IF n.tag = "PAUSED" THEN (n.word + 1) % 2
                ELSE (n.word + (IF key = "up" THEN 3 ELSE 1)) % 4
<1>1. DOMAIN n = Fields
  BY DEF Sound, Shape
<1>2. w \in 0 .. 3
  <2>1. n.word + 1 \in Nat /\ n.word + 3 \in Nat
    BY DEF Ranges
  <2>2. \A a \in Nat : a % 2 \in 0 .. 3 /\ a % 4 \in 0 .. 3
    OBVIOUS
  <2> QED BY <2>1, <2>2
<1>3. Arrow(n, key) = [n EXCEPT !.word = w]
  BY DEF Arrow
<1> HIDE DEF w
<1> QED BY <1>1, <1>2, <1>3 DEF Ranges, Screen, Fields

\* Every action keeps the counters in their ranges.
LEMMA StepInRange == Careful /\ Fair(m) /\ Ranges(m) /\ [Next]_m => Ranges(m')
<1> SUFFICES ASSUME Careful, Fair(m), Ranges(m), [Next]_m PROVE Ranges(m')
  OBVIOUS
<1>1. Sound(m) /\ DOMAIN m = Fields /\ m.role = Host /\ m.tag \in Tags
  BY DEF Fair, Sound, Shape
<1>2. ASSUME NEW n, Ranges(n), Become(n) PROVE Ranges(m')
  BY <1>2 DEF Become, Ranges, Screen
<1>3. CASE MenuArrow
  BY <1>1, <1>2, <1>3, ArrowInRange DEF MenuArrow
<1>4. CASE MenuEnter
  BY <1>1, <1>2, <1>4, MenuInRange DEF MenuEnter
<1>5. CASE LeaveInstructions
  BY <1>1, <1>2, <1>5, ArrivesInRange DEF LeaveInstructions, GoesTo
<1>6. CASE PlaceByMouse \/ PlaceByKey
  <2>1. m.tag = "PLACE_SHIPS_P1"
    BY <1>1, <1>6 DEF PlaceByMouse, PlacesByMouse, PlaceByKey, PlacesByKey, Careful
  <2>2. m.single
    BY <2>1 DEF Fair, Prepares, Screen
  <2> QED BY <1>1, <1>2, <1>6, <2>1, <2>2, PutShipInRange DEF PlaceByMouse, PlaceByKey
<1>7. CASE Fire
  BY <1>1, <1>2, <1>7, FireInRange DEF Fire
<1>8. CASE Pause
  <2>1. m.tag # "PAUSED"
    BY <1>1, <1>8 DEF Pause, PlacesByKey, CanFire, OwnsTurn
  <2> QED BY <1>1, <1>2, <1>8, <2>1, ArrivesInRange DEF Pause, GoesTo
<1>9. CASE PauseEnter
  BY <1>1, <1>2, <1>9, ResumeInRange DEF PauseEnter
<1>10. CASE GameOverEnter
  BY <1>1, <1>2, <1>10, RematchInRange DEF GameOverEnter
<1>11. CASE GameOverEsc
  BY <1>1, <1>2, <1>11 DEF GameOverEsc, Ranges, Screen, Fields
<1>12. CASE ClickInBotTurn
  BY <1>1, <1>2, <1>12 DEF ClickInBotTurn, Ranges, Screen, Fields
<1>13. CASE Timer
  BY <1>1, <1>2, <1>13, TickInRange DEF Timer
<1>14. CASE UNCHANGED m
  BY <1>14 DEF Ranges, Screen
<1> QED BY <1>3, <1>4, <1>5, <1>6, <1>7, <1>8, <1>9, <1>10, <1>11, <1>12, <1>13, <1>14 DEF Next

\* For the same careful players no counter of the program runs past its limit and no
\* index past its array: ship_idx, the countdown, the bot's directions and clocks, however
\* the handlers interleave.  Keys during the bot's draw are left out with reason: they
\* can give the bot's board more ships than it has room for (board.c:32).
THEOREM CountersInRange == ASSUME Careful PROVE Spec => []TypeOK
<1>1. Init => Fair(m) /\ Ranges(m)
  <2> SUFFICES ASSUME Init PROVE Ranges(m)
    BY InitFair
  <2>1. BotReset \in BotType
    BY BoardAssumption DEF BotReset, BotType, Modes, Cells
  <2> QED BY <2>1, Positive, NumShipsType DEF Init, Fresh, Ranges, Screen, Tags
<1>2. Fair(m) /\ Ranges(m) /\ [Next]_m => Fair(m)' /\ Ranges(m)'
  BY StepFair, StepInRange
<1>3. Fair(m) /\ Ranges(m) => TypeOK
  <2> SUFFICES ASSUME Fair(m), Ranges(m) PROVE TypeOK
    OBVIOUS
  <2>1. BoardType(m.p1) /\ BoardType(m.p2) /\ m.tag \in Tags
    BY DEF Fair, Prepares, Good, Sound, Shape
  <2> QED BY <2>1 DEF TypeOK, Ranges, BoardType
<1> QED BY <1>1, <1>2, <1>3, PTL DEF Spec
=============================================================================
