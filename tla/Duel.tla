-------------------------------- MODULE Duel --------------------------------
(***************************************************************************)
(* Two instances of the program, host and client, on a serial cable that    *)
(* keeps the order of messages.  Keys, clicks, timer interrupts and the      *)
(* arrival of messages interleave.  Single Player is not chosen here.       *)
(***************************************************************************)
EXTENDS Console

CONSTANTS Timely,  \* both clocks tick together and no message takes longer than a tick
          Hasty    \* the roles whose player may fire while a result is still to be read

ASSUME DuelAssumption == Timely \in BOOLEAN /\ Hasty \subseteq Roles

VARIABLES con,   \* the two instances
          net,   \* net[r]: the messages on their way to r
          gone   \* the instances that have left their main loop

vars == <<con, net, gone>>

Peer(r) == IF r = Host THEN Client ELSE Host

Spare(n) == [n EXCEPT !.out = << >>]

\* The messages of a handler that reach a program still listening.
Posted(r, msgs) == IF r \in gone THEN << >> ELSE net[r] \o msgs

\* Instance r becomes n; what n sent is on its way.
Become(r, n) ==
  /\ con' = [con EXCEPT ![r] = Spare(n)]
  /\ net' = [net EXCEPT ![Peer(r)] = Posted(Peer(r), n.out)]
  /\ UNCHANGED gone

TypeOK ==
  /\ \A r \in Roles :
       /\ con[r].role = r
       /\ con[r].tag \in Tags /\ con[r].prev \in Tags
       /\ con[r].word \in 0 .. 3
       /\ con[r].secs \in 0 .. CountdownStart /\ con[r].cticks \in 0 .. TicksPerSec - 1
       /\ con[r].post \in 0 .. PostAttackTicks - 1
       /\ con[r].out = << >>
       /\ Len(con[r].p1.ships) <= NumShips /\ Len(con[r].p2.ships) <= NumShips
  /\ gone \subseteq Roles

Init ==
  /\ con = [r \in Roles |-> Fresh(r)]
  /\ net = [r \in Roles |-> << >>]
  /\ gone = {}

Running(r) == ~con[r].over

----------------------------------------------------------------------------
(* The players                                                             *)

\* The client's devices act on its own screens only (client_owns).
Owns(r) ==
  r = Client => con[r].tag \in {"PLACE_SHIPS_P2", "TURN_P2", "PAUSED", "MAIN_MENU",
                               "INSTRUCTIONS", "GAME_OVER", "WAITING_CONNECT"}

Menu(r) ==
  /\ Running(r) /\ con[r].tag = "MAIN_MENU"
  /\ \E option \in 1 .. 3 : Become(r, MenuChoose(con[r], option))

LeaveInstructions(r) ==
  /\ Running(r) /\ con[r].tag = "INSTRUCTIONS"
  /\ Become(r, Transition(con[r], "MAIN_MENU"))

Place(r) ==
  /\ Running(r) /\ Owns(r)
  /\ PlacesByKey(con[r]) \/ PlacesByMouse(con[r])
  /\ \E cells \in Footprints(ShipSizes[con[r].idx + 1]) : Become(r, PutShip(con[r], cells))

\* The last shot is on its way to the host, or its result still to be read.
ShotOpen ==
  \/ ~Settled(con[Host])
  \/ \E i \in DOMAIN net[Host] : net[Host][i].type = "ATTACK"

Fire(r) ==
  /\ Running(r) /\ CanFire(con[r])
  /\ ShotOpen => r \in Hasty
  /\ \E x \in Cells : Become(r, FireAt(con[r], x))

Pause(r) ==
  /\ Running(r) /\ Owns(r)
  /\ PlacesByKey(con[r]) \/ CanFire(con[r])
  /\ Become(r, Transition(con[r], "PAUSED"))

PauseEnter(r) ==
  /\ Running(r) /\ con[r].tag = "PAUSED"
  /\ \E option \in 0 .. 1 : Become(r, PauseChoose(con[r], option))

PauseArrow(r) ==
  /\ Running(r) /\ con[r].tag = "PAUSED"
  /\ Become(r, Arrow(con[r], "down"))

GameOverEnter(r) ==
  /\ Running(r) /\ con[r].tag = "GAME_OVER"
  /\ Become(r, Rematch(con[r]))

GameOverEsc(r) ==
  /\ Running(r) /\ con[r].tag = "GAME_OVER"
  /\ Become(r, [con[r] EXCEPT !.over = TRUE])

Player(r) ==
  \/ Menu(r) \/ LeaveInstructions(r) \/ Place(r) \/ Fire(r)
  \/ Pause(r) \/ PauseEnter(r) \/ PauseArrow(r)
  \/ GameOverEnter(r) \/ GameOverEsc(r)

----------------------------------------------------------------------------
(* The machines                                                            *)

\* handle_serial: one message is decoded and handled.
Deliver(r) ==
  /\ Running(r) /\ net[r] # << >>
  /\ \E n \in {Receive(con[r], Head(net[r]))} :
       /\ con' = [con EXCEPT ![r] = Spare(n)]
       /\ net' = [net EXCEPT ![r] = Tail(@), ![Peer(r)] = Posted(Peer(r), n.out)]
  /\ UNCHANGED gone

\* handle_timer on a client in WAITING_CONNECT says hello once a second; one
\* hello under way is enough.
SayHello ==
  /\ Running(Client) /\ con[Client].tag = "WAITING_CONNECT"
  /\ net[Host] = << >> /\ Host \notin gone
  /\ Become(Client, Send(con[Client], [type |-> "HELLO"]))

\* One machine's timer interrupt, whenever it likes.
TickAlone(r) ==
  /\ ~Timely
  /\ Running(r)
  /\ \E n \in Tick(con[r]) : Become(r, n)

\* Both machines' timer interrupts; the cable has had time to empty.
TickTogether ==
  /\ Timely
  /\ \A r \in Roles : Running(r) => net[r] = << >>
  /\ \E h \in Tick(con[Host]), c \in Tick(con[Client]) :
       /\ con' = [r \in Roles |-> IF ~Running(r) THEN con[r]
                                  ELSE Spare(IF r = Host THEN h ELSE c)]
       /\ net' = [net EXCEPT ![Client] = IF Running(Host) THEN Posted(Client, h.out) ELSE @,
                             ![Host]   = IF Running(Client) THEN Posted(Host, c.out) ELSE @]
  /\ UNCHANGED gone

\* The main loop ends: the last message says so, then nobody listens any more.
Leave(r) ==
  /\ con[r].over /\ r \notin gone
  /\ gone' = gone \cup {r}
  /\ net' = [net EXCEPT ![r] = << >>, ![Peer(r)] = Posted(Peer(r), <<StateMsg("EXIT")>>)]
  /\ UNCHANGED con

Machine(r) == Deliver(r) \/ TickAlone(r) \/ Leave(r)

Next == (\E r \in Roles : Player(r) \/ Machine(r)) \/ SayHello \/ TickTogether

\* Interrupts arrive and messages are delivered; nobody has to press a key.
Fairness ==
  /\ \A r \in Roles : WF_vars(Deliver(r)) /\ WF_vars(Leave(r)) /\ WF_vars(TickAlone(r))
  /\ WF_vars(TickTogether)
  /\ WF_vars(SayHello)

Spec == Init /\ [][Next]_vars /\ Fairness

----------------------------------------------------------------------------
(* Properties                                                              *)

HostView == con[Host]
ClientView == con[Client]

\* Nothing is under way and both programs run.
Quiet == gone = {} /\ \A r \in Roles : net[r] = << >> /\ Running(r)

R == INSTANCE Rules WITH
       Sea    <- Cells,
       turn   <- TurnOf(HostView),
       missed <- MissPending(HostView),
       fleet  <- [p \in 1 .. 2 |-> FleetCells(IF p = 1 THEN HostView.p1 ELSE HostView.p2)],
       shots  <- [p \in 1 .. 2 |-> ShotCells(IF p = 1 THEN HostView.p1 ELSE HostView.p2)],
       winner <- WinnerOf(HostView)

\* The host, which resolves everybody's shots, plays by the rules.
PlaysByTheRules == R!Spec

Fighting == {"COUNTDOWN", "TURN_P1", "TURN_P2", "HANDOVER_P1", "HANDOVER_P2"}

\* When the cable is quiet and no result is being read, the client's copies of
\* both boards show what the host's boards are: a result told once, in order, is
\* enough to keep the copies exact (game.c:799-839).
CopiesAgree ==
  Quiet /\ Settled(HostView) /\ Screen(HostView) \in Fighting /\ Screen(ClientView) \in Fighting =>
    /\ ClientView.p1.grid = HostView.p1.grid
    /\ ClientView.p2.grid = HostView.p2.grid
    /\ ClientView.p1.sunk = HostView.p1.sunk
    /\ ClientView.p2.sunk = HostView.p2.sunk

\* When the cable is quiet both instances are on the same screen; the client's
\* own placement is the host's waiting screen.
InStep ==
  Quiet /\ Screen(HostView) \in Fighting \cup {"PLACE_SHIPS_P1", "PLACE_SHIPS_WAITING"} =>
    \/ Screen(ClientView) = Screen(HostView)
    \/ Screen(HostView) = "PLACE_SHIPS_WAITING" /\ Screen(ClientView) = "PLACE_SHIPS_P2"

\* The two players may never fire at the same time.
OneShooter == ~(CanFire(HostView) /\ CanFire(ClientView))

\* Both screens name the same winner.
SameWinner ==
  Quiet /\ HostView.tag = "GAME_OVER" /\ ClientView.tag = "GAME_OVER" =>
    HostView.word = ClientView.word

SomeoneQuits == \E r \in Roles : ~Running(r)

SomeonePauses == \E r \in Roles : con[r].tag = "PAUSED"

\* Two players who both chose Multiplayer, in any order and after any earlier
\* game, come to place their ships (game.c:282-289, 659-672): the handshake is
\* never taken for one of an earlier game.
BothWaitingMeet ==
  (\A r \in Roles : con[r].tag = "WAITING_CONNECT") ~>
    (HostView.tag = "PLACE_SHIPS_P1" \/ SomeoneQuits)

\* A shot that falls in the water gives the opponent a turn on the opponent's own
\* machine, through result, wait, handover and the messages that tell of them.
MissPassesTheTurn ==
  /\ (HostView.tag = "TURN_P1" /\ MissPending(HostView)) ~>
       (OwnsTurn(ClientView) \/ SomeonePauses \/ SomeoneQuits)
  /\ (HostView.tag = "TURN_P2" /\ MissPending(HostView)) ~>
       (OwnsTurn(HostView) \/ SomeonePauses \/ SomeoneQuits)

\* A player who quits takes the other one along, except the client that quits on
\* the game-over screen, as the README's notes say.
QuitReachesThePeer ==
  (~Running(Host) \/ (~Running(Client) /\ ClientView.tag # "GAME_OVER")) ~>
    (\A r \in Roles : ~Running(r))
=============================================================================
