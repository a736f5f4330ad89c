-------------------------- MODULE DuelTurns_proofs --------------------------
(***************************************************************************)
(* Whose turn it is and who has won, on two machines whose clocks tick       *)
(* together: what the client still has to be told of the turn and of the     *)
(* end, and where the animations of the two programs are meanwhile.          *)
(***************************************************************************)
EXTENDS Duel_proofs

----------------------------------------------------------------------------
(* Whose turn it is                                                        *)

\* The screens on which a player can leave the program.
Parting == {"PAUSED", "MAIN_MENU", "GAME_OVER"}

\* A program ends where its player may leave it, or because the other one has.
Ending(h, c, ch, g) ==
  /\ h.over = TRUE => h.tag \in Parting \/ (c.over = TRUE /\ c.tag \in Parting)
  /\ c.over = TRUE => c.tag \in Parting \/ Host \in g
  /\ \A i \in 1 .. Len(ch) : ch[i].type = "QUIT" => c.over = TRUE /\ c.tag \in Parting

\* The client is told that its turn has come.
Comes(q) == \E i \in 1 .. Len(q) : q[i] = StateMsg("TURN_P2")

\* Where the host is as long as the client may think that the turn is its own.
Yielding == {"TURN_P2", "HANDOVER_P1", "lobby"}

\* The client has its turn only as long as the host gives it; the host takes it back
\* with a handover, which the client is told of before the handover ends.
Prompt(h, c, hc) ==
  h.over = FALSE /\ c.over = FALSE /\ (Copy(c).at = "TURN_P2" \/ Comes(hc)) => HostAt(h) \in Yielding

\* Farewells only in q among those in p.
NoMoreQuits(p, q) == \A i \in 1 .. Len(p) : p[i].type = "QUIT" => \E j \in 1 .. Len(q) : q[j].type = "QUIT"

Turning(h, c, hc, ch, g) == Ending(h, c, ch, g) /\ Prompt(h, c, hc)

\* Nobody says that it quits.
NoQuit(q) == \A i \in 1 .. Len(q) : q[i].type # "QUIT"

\* What a player of the host does is not about turns, and if it ends the program it
\* does so on one of those screens.
Mild(n, c) ==
  /\ c.out = n.out \/ \E s \in {"PLACE_SHIPS_P2", "MAIN_MENU"} : c.out = Append(n.out, StateMsg(s))
  /\ c.over = n.over \/ c.tag \in Parting

\* A client that quits says so, and does so on one of them.
Parts(n, c) ==
  /\ c.over = n.over \/ c.tag \in Parting
  /\ (c.over = TRUE /\ c.tag \in Parting) \/ NoQuit(c.out)

----------------------------------------------------------------------------
(* Queues                                                                  *)

\* What two queues joined say one of them says.
LEMMA ComesJoined ==
  ASSUME NEW S, NEW p \in Seq(S), NEW q \in Seq(S), Comes(p \o q)
  PROVE  Comes(p) \/ Comes(q)
<1>1. PICK i \in 1 .. Len(p \o q) : (p \o q)[i] = StateMsg("TURN_P2")
  BY DEF Comes
<1>2. /\ Len(p) \in Nat /\ Len(q) \in Nat /\ Len(p \o q) = Len(p) + Len(q)
      /\ \A j \in 1 .. Len(p) + Len(q) : (p \o q)[j] = IF j <= Len(p) THEN p[j] ELSE q[j - Len(p)]
  BY ConcatProperties
<1>3. CASE i <= Len(p)
  <2>1. i \in 1 .. Len(p) /\ p[i] = StateMsg("TURN_P2")
    BY <1>1, <1>2, <1>3
  <2> QED BY <2>1 DEF Comes
<1>4. CASE ~(i <= Len(p))
  <2>1. i - Len(p) \in 1 .. Len(q) /\ q[i - Len(p)] = StateMsg("TURN_P2")
    BY <1>1, <1>2, <1>4
  <2> QED BY <2>1 DEF Comes
<1> QED BY <1>3, <1>4

\* And so of the messages that a program has quit.
LEMMA QuitJoined ==
  ASSUME NEW S, NEW p \in Seq(S), NEW q \in Seq(S), NoQuit(q), NEW i \in 1 .. Len(p \o q),
         (p \o q)[i].type = "QUIT"
  PROVE  \E j \in 1 .. Len(p) : p[j].type = "QUIT"
<1>1. /\ Len(p) \in Nat /\ Len(q) \in Nat /\ Len(p \o q) = Len(p) + Len(q)
      /\ \A j \in 1 .. Len(p) + Len(q) : (p \o q)[j] = IF j <= Len(p) THEN p[j] ELSE q[j - Len(p)]
  BY ConcatProperties
<1>2. CASE i <= Len(p)
  <2>1. i \in 1 .. Len(p) /\ p[i].type = "QUIT"
    BY <1>1, <1>2
  <2> QED BY <2>1
<1>3. CASE ~(i <= Len(p))
  <2>1. i - Len(p) \in 1 .. Len(q) /\ q[i - Len(p)].type = "QUIT"
    BY <1>1, <1>3
  <2> QED BY <2>1 DEF NoQuit
<1> QED BY <1>2, <1>3

\* One message more.
LEMMA ComesNext ==
  ASSUME NEW S, NEW q \in Seq(S), NEW msg \in S, Comes(Append(q, msg)), msg # StateMsg("TURN_P2")
  PROVE  Comes(q)
<1>1. PICK i \in 1 .. Len(Append(q, msg)) : Append(q, msg)[i] = StateMsg("TURN_P2")
  BY DEF Comes
<1>2. /\ Len(q) \in Nat /\ Len(Append(q, msg)) = Len(q) + 1 /\ Append(q, msg)[Len(q) + 1] = msg
      /\ \A j \in 1 .. Len(q) : Append(q, msg)[j] = q[j]
  BY AppendOf
<1>3. i # Len(q) + 1
  BY <1>1, <1>2
<1>4. i \in 1 .. Len(q) /\ q[i] = StateMsg("TURN_P2")
  BY <1>1, <1>2, <1>3
<1> QED BY <1>4 DEF Comes

\* One message less.
LEMMA ComesLater ==
  ASSUME NEW S, NEW q \in Seq(S), q # << >>, Comes(Tail(q))
  PROVE  Comes(q)
<1>1. PICK i \in 1 .. Len(Tail(q)) : Tail(q)[i] = StateMsg("TURN_P2")
  BY DEF Comes
<1>2. Len(q) \in Nat \ {0} /\ Len(Tail(q)) = Len(q) - 1 /\ \A j \in 1 .. Len(q) - 1 : Tail(q)[j] = q[j + 1]
  BY TailOf
<1>3. i + 1 \in 1 .. Len(q) /\ q[i + 1] = StateMsg("TURN_P2")
  BY <1>1, <1>2
<1> QED BY <1>3 DEF Comes

----------------------------------------------------------------------------
(* The host                                                                *)

\* Where the host gives or takes back a turn its player can do nothing.
LEMMA YieldingIsIdle ==
  ASSUME NEW n, HostOK(n), HostAt(n) \in {"TURN_P2", "HANDOVER_P1"}
  PROVE  n.tag = HostAt(n) /\ n.tag \in Fighting
<1>1. n.tag = "PAUSED" => n.prev \in {"PLACE_SHIPS_P1", "TURN_P1"}
  BY DEF HostOK, HostScreens
<1>2. Screen(n) = HostAt(n)
  BY DEF HostAt
<1>3. n.tag # "PAUSED" => Screen(n) = n.tag
  BY DEF Screen
<1>4. n.tag = "PAUSED" => Screen(n) = n.prev
  BY DEF Screen
<1> QED BY <1>1, <1>2, <1>3, <1>4 DEF Fighting

\* A step of the host that does not lead away from where the turn is the client's, and
\* that does not give it to it.
LEMMA HostTurns ==
  ASSUME NEW h, NEW c, NEW hc \in Seq(ToClient), NEW ch, NEW g, Turning(h, c, hc, ch, g), h.over = FALSE,
         NEW n, n.out \in Seq(ToClient), NEW e, e.over = n.over, e.tag = n.tag, HostAt(e) = HostAt(n),
         NEW q, q = Sent(Client, g, hc, n.out), NEW p,
         NoMoreQuits(p, ch),
         n.over = TRUE => n.tag \in Parting \/ (c.over = TRUE /\ c.tag \in Parting),
         c.over = FALSE /\ (Copy(c).at = "TURN_P2" \/ Comes(hc)) /\ HostAt(h) \in Yielding => HostAt(n) \in Yielding,
         ~Comes(n.out)
  PROVE  Turning(e, c, q, p, g)
<1>1. Ending(e, c, p, g)
  BY DEF Turning, Ending, NoMoreQuits
<1>2. Comes(q) => Comes(hc)
  <2>1. CASE Client \in g
    <3>1. q = << >> /\ Len(<< >>) = 0
      BY <2>1 DEF Sent
    <3> QED BY <3>1 DEF Comes
  <2>2. CASE Client \notin g
    <3>1. q = hc \o n.out
      BY <2>2 DEF Sent
    <3> QED BY <3>1, ComesJoined
  <2> QED BY <2>1, <2>2
<1>3. Prompt(e, c, q)
  BY <1>2 DEF Turning, Prompt
<1> QED BY <1>1, <1>3 DEF Turning

\* What a mild step says.
LEMMA MildSays ==
  ASSUME NEW n, NEW c, n.out = << >>, Mild(n, c)
  PROVE  ~Comes(c.out) /\ c.out \in Seq(ToClient)
<1>1. CASE c.out = n.out
  BY <1>1 DEF Comes
<1>2. CASE c.out # n.out
  <2>1. PICK s \in {"PLACE_SHIPS_P2", "MAIN_MENU"} : c.out = Append(n.out, StateMsg(s))
    BY <1>2 DEF Mild
  <2>2. StateMsg(s) \in ToClient /\ StateMsg(s) # StateMsg("TURN_P2")
    BY DEF ToClient, StateMsg, Tags
  <2>3. << >> \in Seq(ToClient) /\ ~Comes(<< >>)
    BY DEF Comes
  <2>4. PICK msg \in ToClient : msg = StateMsg(s)
    BY <2>2
  <2>5. ~Comes(Append(<< >>, msg)) /\ Append(<< >>, msg) \in Seq(ToClient)
    BY <2>2, <2>3, <2>4, ComesNext, AppendOf
  <2> QED BY <2>1, <2>4, <2>5
<1> QED BY <1>1, <1>2

\* The steps of a player are mild.
LEMMA MenuMild ==
  ASSUME NEW n, DOMAIN n = Fields, n.role = Host, n.tag = "MAIN_MENU", NEW option \in 1 .. 3, NEW c, c = MenuChoose(n, option)
  PROVE  Mild(n, c)
<1>1. CASE option = 1
  <2>1. c = StartMulti(n)
    BY <1>1 DEF MenuChoose
  <2>2. c.out = n.out /\ c.over = n.over
    BY <2>1 DEF StartMulti, NewGame, CalmRenderer, ClearBoards, Transition, Fields
  <2> QED BY <2>2 DEF Mild
<1>2. CASE option = 2
  <2>1. c = Transition(n, "INSTRUCTIONS")
    BY <1>2 DEF MenuChoose
  <2>2. c.out = n.out /\ c.over = n.over
    BY <2>1 DEF Transition, Fields
  <2> QED BY <2>2 DEF Mild
<1>3. CASE option = 3
  <2>1. c = [n EXCEPT !.over = TRUE]
    BY <1>3 DEF MenuChoose, Quit, Host, Client
  <2>2. c.out = n.out /\ c.tag = n.tag
    BY <2>1 DEF Fields
  <2> QED BY <2>2 DEF Mild, Parting
<1> QED BY <1>1, <1>2, <1>3

\* Changing the screen.
LEMMA TransitionMild ==
  ASSUME NEW n, DOMAIN n = Fields, NEW s, NEW c, c = Transition(n, s)
  PROVE  c.out = n.out /\ c.over = n.over /\ c.tag = s /\ Mild(n, c)
<1>1. c.out = n.out /\ c.over = n.over /\ c.tag = s
  BY DEF Transition, Fields
<1> QED BY <1>1 DEF Mild

\* Beginning again.
LEMMA RematchMild ==
  ASSUME NEW n, DOMAIN n = Fields, NEW c, c = Rematch(n)
  PROVE  Mild(n, c)
<1>1. PICK k : k = [CalmRenderer(ClearBoards(n)) EXCEPT !.word = 0]
  OBVIOUS
<1>2. DOMAIN k = Fields /\ k.out = n.out /\ k.over = n.over
  BY <1>1 DEF CalmRenderer, ClearBoards, Fields
<1>3. PICK m : m = Transition(k, "MAIN_MENU")
  OBVIOUS
<1>4. DOMAIN m = Fields /\ m.out = n.out /\ m.over = n.over
  BY <1>2, <1>3 DEF Transition, Fields
<1>5. c = Send(m, StateMsg("MAIN_MENU"))
  BY <1>1, <1>3 DEF Rematch
<1>6. c.out = Append(n.out, StateMsg("MAIN_MENU")) /\ c.over = n.over
  BY <1>4, <1>5 DEF Send, Fields
<1> QED BY <1>6 DEF Mild

\* A shot of the host says nothing yet.
LEMMA FireMild ==
  ASSUME NEW n, DOMAIN n = Fields, n.role = Host, NEW x, NEW c, c = FireAt(n, x)
  PROVE  Mild(n, c)
<1>1. c = n \/ c = Resolve(n, x)
  BY DEF FireAt
<1>2. CASE c = Resolve(n, x)
  <2>1. Keeps(n, c, {"p1", "p2", "expl", "eticks", "done", "at", "ishit"})
    BY <1>2, ResolveDoes DEF Resolved
  <2>2. c.out = n.out /\ c.over = n.over
    BY <2>1 DEF Keeps, Fields
  <2> QED BY <2>2 DEF Mild
<1> QED BY <1>1, <1>2 DEF Mild

\* Leaving a pause, or the program.
LEMMA PauseMild ==
  ASSUME NEW n, DOMAIN n = Fields, n.role = Host, n.tag = "PAUSED", NEW option \in 0 .. 1,
         NEW c, c = PauseChoose(n, option)
  PROVE  Mild(n, c)
<1>1. CASE option = 0
  <2>1. c = Transition(n, n.prev)
    BY <1>1 DEF PauseChoose
  <2> QED BY <2>1, TransitionMild
<1>2. CASE option # 0
  <2>1. c = [n EXCEPT !.over = TRUE]
    BY <1>2 DEF PauseChoose, Quit, Host, Client
  <2>2. c.out = n.out /\ c.tag = n.tag
    BY <2>1 DEF Fields
  <2> QED BY <2>2 DEF Mild, Parting
<1> QED BY <1>1, <1>2

\* What the player of the host does.
LEMMA HostPlayerMild ==
  ASSUME DuelInv, Player(Host)
  PROVE  \E n : Become(Host, n) /\ HostStep(con[Host], n) /\ Mild(con[Host], n) /\ con[Host].tag \notin {"TURN_P2", "HANDOVER_P1"}
<1> DEFINE h == con[Host]
<1>1. HostOK(h) /\ h.role = Host /\ DOMAIN h = Fields
  BY DuelSays DEF HostOK, HostShape
<1>2. CASE Menu(Host)
  <2>1. PICK option \in 1 .. 3 : Become(Host, MenuChoose(h, option))
    BY <1>2 DEF Menu
  <2>2. h.tag = "MAIN_MENU"
    BY <1>2 DEF Menu
  <2>3. HostStep(h, MenuChoose(h, option)) /\ Mild(h, MenuChoose(h, option))
    BY <1>1, <2>2, MenuSteps, MenuMild
  <2> QED BY <2>1, <2>2, <2>3
<1>3. CASE LeaveInstructions(Host)
  <2>1. h.tag = "INSTRUCTIONS" /\ Become(Host, Transition(h, "MAIN_MENU"))
    BY <1>3 DEF LeaveInstructions
  <2>2. HostStep(h, Transition(h, "MAIN_MENU")) /\ Mild(h, Transition(h, "MAIN_MENU"))
    BY <1>1, <2>1, InstructionsStep, TransitionMild
  <2> QED BY <2>1, <2>2
<1>4. CASE Place(Host)
  <2>1. PICK cells \in Footprints(ShipSizes[h.idx + 1]) : Become(Host, PutShip(h, cells))
    BY <1>4 DEF Place
  <2>2. h.tag = "PLACE_SHIPS_P1"
    <3>1. h.tag # "PLACE_SHIPS_P2"
      BY <1>1 DEF HostOK, HostScreens
    <3> QED BY <1>1, <1>4, <3>1 DEF Place, PlacesByKey, PlacesByMouse
  <2>3. PICK n : n = PutShip(h, cells)
    OBVIOUS
  <2>4. HostStep(h, n)
    BY <1>1, <2>2, <2>3, PlaceSteps
  <2>5. \/ n = h
        \/ Keeps(h, n, {"p1", "idx"})
        \/ Keeps(h, n, {"p1", "idx", "tag", "prev", "clicked", "out"}) /\ n.out = Append(h.out, StateMsg("PLACE_SHIPS_P2"))
    BY <1>1, <2>2, <2>3, PutShipDoes
  <2>6. n.over = h.over /\ (n.out = h.out \/ n.out = Append(h.out, StateMsg("PLACE_SHIPS_P2")))
    BY <2>5 DEF Keeps, Fields
  <2> QED BY <2>1, <2>2, <2>3, <2>4, <2>6 DEF Mild
<1>5. CASE Fire(Host)
  <2>1. PICK x \in Cells : Become(Host, FireAt(h, x))
    BY <1>5 DEF Fire
  <2>2. CanFire(h) /\ h.tag = "TURN_P1"
    BY <1>1, <1>5 DEF Fire, CanFire, OwnsTurn
  <2>3. Patient => Settled(h)
    BY <1>5 DEF Fire, Patient, ShotOpen
  <2>4. HostStep(h, FireAt(h, x))
    BY <1>1, <2>2, <2>3, FireSteps
  <2>5. Mild(h, FireAt(h, x))
    BY <1>1, FireMild
  <2> QED BY <2>1, <2>2, <2>4, <2>5
<1>6. CASE Pause(Host)
  <2>1. Become(Host, Transition(h, "PAUSED")) /\ (PlacesByKey(h) \/ CanFire(h))
    BY <1>6 DEF Pause
  <2>2. HostStep(h, Transition(h, "PAUSED")) /\ Mild(h, Transition(h, "PAUSED"))
    BY <1>1, <2>1, PauseSteps, TransitionMild
  <2>3. h.tag \notin {"TURN_P2", "HANDOVER_P1"}
    BY <1>1, <2>1 DEF PlacesByKey, CanFire, OwnsTurn
  <2> QED BY <2>1, <2>2, <2>3
<1>7. CASE PauseEnter(Host)
  <2>1. PICK option \in 0 .. 1 : Become(Host, PauseChoose(h, option))
    BY <1>7 DEF PauseEnter
  <2>2. h.tag = "PAUSED"
    BY <1>7 DEF PauseEnter
  <2>3. HostStep(h, PauseChoose(h, option)) /\ Mild(h, PauseChoose(h, option))
    BY <1>1, <2>2, PauseEnterSteps, PauseMild
  <2> QED BY <2>1, <2>2, <2>3
<1>8. CASE PauseArrow(Host)
  <2>1. h.tag = "PAUSED" /\ Become(Host, Arrow(h, "down"))
    BY <1>8 DEF PauseArrow
  <2>2. HostStep(h, Arrow(h, "down"))
    BY <1>1, <2>1, ArrowSteps
  <2>3. Arrow(h, "down").out = h.out /\ Arrow(h, "down").over = h.over
    BY <1>1 DEF Arrow, Fields
  <2> QED BY <2>1, <2>2, <2>3 DEF Mild
<1>9. CASE GameOverEnter(Host)
  <2>1. h.tag = "GAME_OVER" /\ Become(Host, Rematch(h))
    BY <1>9 DEF GameOverEnter
  <2>2. HostStep(h, Rematch(h)) /\ Mild(h, Rematch(h))
    BY <1>1, <2>1, RematchSteps, RematchMild
  <2> QED BY <2>1, <2>2
<1>10. CASE GameOverEsc(Host)
  <2>1. h.tag = "GAME_OVER" /\ Become(Host, [h EXCEPT !.over = TRUE])
    BY <1>10 DEF GameOverEsc
  <2>2. HostStep(h, [h EXCEPT !.over = TRUE])
    BY <1>1, OverSteps
  <2>3. [h EXCEPT !.over = TRUE].out = h.out /\ [h EXCEPT !.over = TRUE].tag = h.tag
    BY <1>1 DEF Fields
  <2> QED BY <2>1, <2>2, <2>3 DEF Mild, Parting
<1> QED BY <1>2, <1>3, <1>4, <1>5, <1>6, <1>7, <1>8, <1>9, <1>10 DEF Player

\* The two programs after a step of the host, and of the client.
LEMMA AfterHost ==
  ASSUME DuelInv, NEW n, Become(Host, n)
  PROVE  /\ con'[Host] = Spare(n) /\ con'[Client] = con[Client] /\ net'[Host] = net[Host] /\ gone' = gone
         /\ net'[Client] = Sent(Client, gone, net[Client], n.out)
<1>1. DOMAIN con = Roles /\ DOMAIN net = Roles /\ Host \in Roles /\ Client \in Roles /\ Host # Client
  BY DEF DuelInv, Roles, Host, Client
<1> QED BY <1>1 DEF Become, Peer, Posted, Sent

\* The same of the client.
LEMMA AfterClient ==
  ASSUME DuelInv, NEW n, Become(Client, n)
  PROVE  /\ con'[Client] = Spare(n) /\ con'[Host] = con[Host] /\ net'[Client] = net[Client] /\ gone' = gone
         /\ net'[Host] = Sent(Host, gone, net[Host], n.out)
<1>1. DOMAIN con = Roles /\ DOMAIN net = Roles /\ Host \in Roles /\ Client \in Roles /\ Host # Client
  BY DEF DuelInv, Roles, Host, Client
<1> QED BY <1>1 DEF Become, Peer, Posted, Sent

\* The invariant of the turns.
TurnInv == Turning(con[Host], con[Client], net[Client], net[Host], gone)

\* A host that ends ends where it may, and the client's turn stays as it is.
LEMMA HostPlaysInTurn == ASSUME DuelInv, TurnInv, Player(Host) PROVE TurnInv'
<1>1. PICK n : Become(Host, n) /\ HostStep(con[Host], n) /\ Mild(con[Host], n)
               /\ con[Host].tag \notin {"TURN_P2", "HANDOVER_P1"}
  BY HostPlayerMild
<1> DEFINE h == con[Host]
           c == con[Client]
<1>2. InOrder(h, c, net[Client], net[Host], gone) /\ HostOK(h) /\ HostOK(n) /\ net[Client] \in Seq(ToClient)
      /\ h.out = << >> /\ h.over = FALSE
  <2>1. Running(Host) /\ h.over \in BOOLEAN
    BY DuelSays DEF Player, Menu, LeaveInstructions, Place, Fire, Pause, PauseEnter, PauseArrow,
                    GameOverEnter, GameOverEsc, HostOK, HostShape
  <2> QED BY <1>1, <2>1, DuelSays DEF HostStep, InOrder, Wires, Running
<1>3. ~Comes(n.out) /\ n.out \in Seq(ToClient)
  BY <1>1, <1>2, MildSays
<1>4. HostOK(Spare(n)) /\ HostAt(Spare(n)) = HostAt(n) /\ Spare(n).over = n.over /\ Spare(n).tag = n.tag
  BY <1>2, HostSpare DEF Fields
<1>5. HostAt(h) \in Yielding => HostAt(n) \in Yielding
  <2>1. HostAt(h) \notin {"TURN_P2", "HANDOVER_P1"}
    BY <1>1, <1>2, YieldingIsIdle
  <2>2. HostAt(h) = "lobby" => HostAt(n) = "lobby"
    BY <1>1 DEF HostStep, Goes
  <2> QED BY <2>1, <2>2 DEF Yielding
<1>6. n.over = TRUE => n.tag \in Parting
  BY <1>1, <1>2 DEF Mild
<1>7. con'[Host] = Spare(n) /\ con'[Client] = c /\ net'[Host] = net[Host] /\ gone' = gone
      /\ net'[Client] = Sent(Client, gone, net[Client], n.out)
  BY <1>1, AfterHost
<1>8. PICK e, q, hc, ch : /\ e = Spare(n) /\ q = Sent(Client, gone, hc, n.out)
                         /\ hc = net[Client] /\ ch = net[Host] /\ hc \in Seq(ToClient)
  BY <1>2
<1>9. NoMoreQuits(ch, ch)
  BY DEF NoMoreQuits
<1>10. Turning(h, c, hc, ch, gone) /\ HostAt(e) = HostAt(n) /\ e.over = n.over /\ e.tag = n.tag
  BY <1>4, <1>8 DEF TurnInv
<1> HIDE DEF h, c
<1>11. Turning(e, c, q, ch, gone)
  BY <1>2, <1>3, <1>5, <1>6, <1>8, <1>9, <1>10, HostTurns
<1> QED BY <1>7, <1>8, <1>11 DEF TurnInv

\* Before a new game nothing on the way is about a turn.
LEMMA LobbyHearsNoTurn ==
  ASSUME NEW S, NEW q \in Seq(S), NEW k, NEW l, Path(q, k, l), l.at = "lobby"
  PROVE  ~Comes(q)
<1> SUFFICES ASSUME NEW i \in 1 .. Len(q), q[i] = StateMsg("TURN_P2") PROVE FALSE
  BY DEF Comes
<1>1. PICK t : t[1] = k /\ t[Len(q) + 1] = l /\ Along(t, q)
  BY DEF Path
<1>2. Hop(t[i], q[i], t[i + 1])
  BY <1>1 DEF Along
<1>3. i \in 1 .. Len(q) + 1 /\ Len(q) + 1 \in 1 .. Len(q) + 1 /\ i <= Len(q) + 1
  OBVIOUS
<1>4. Rank(t[i].at) <= Rank(l.at)
  BY <1>1, <1>3 DEF Along
<1>5. Rank(l.at) = 0
  BY DEF Rank
<1>6. Rank(t[i].at) \in 0 .. 5 /\ (Rank(t[i].at) = 0 => t[i].at = "lobby")
  BY RankSays
<1>7. t[i].at = "lobby"
  BY <1>4, <1>5, <1>6
<1>8. q[i].type = "STATE" /\ q[i].state = "TURN_P2"
  BY DEF StateMsg
<1>9. Leads(t[i], "TURN_P2", t[i + 1])
  BY <1>2, <1>8 DEF Hop
<1> QED BY <1>7, <1>9 DEF Leads, Gate

\* What the host answers is not about turns.
LEMMA HelloMild ==
  ASSUME NEW n, DOMAIN n = Fields, n.out = << >>, NEW c, c = Hello(n)
  PROVE  ~Comes(c.out) /\ c.out \in Seq(ToClient) /\ c.over = n.over
<1>1. << >> \in Seq(ToClient) /\ ~Comes(<< >>)
  BY DEF Comes
<1>2. CASE n.connected
  <2>1. c = n
    BY <1>2 DEF Hello
  <2> QED BY <1>1, <2>1
<1>3. CASE ~n.connected
  <2>1. PICK a, s : a = [type |-> "HELLO_ACK"] /\ s = StateMsg("PLACE_SHIPS_P1")
    OBVIOUS
  <2>2. a \in ToClient /\ s \in ToClient /\ a # StateMsg("TURN_P2") /\ s # StateMsg("TURN_P2")
    BY <2>1 DEF ToClient, StateMsg, Tags
  <2>3. c.over = n.over /\ (c.out = Append(<< >>, a) \/ c.out = Append(Append(<< >>, a), s))
    BY <1>3, <2>1, HelloDoes DEF Keeps, Fields
  <2>4. PICK p \in Seq(ToClient) : p = Append(<< >>, a)
    BY <1>1, <2>2, AppendOf
  <2>5. ~Comes(p)
    BY <1>1, <2>2, <2>4, ComesNext
  <2>6. ~Comes(Append(p, s)) /\ Append(p, s) \in Seq(ToClient)
    BY <2>2, <2>5, ComesNext, AppendOf
  <2> QED BY <2>3, <2>4, <2>5, <2>6
<1> QED BY <1>2, <1>3

\* Showing the fleet and the countdown.
LEMMA DoneMild ==
  ASSUME NEW n, HostOK(n), n.tag = "PLACE_SHIPS_WAITING", n.out = << >>,
         NEW msg, msg.type = "DONE", NEW c, c = HostReceives(n, msg)
  PROVE  ~Comes(c.out) /\ c.out \in Seq(ToClient) /\ c.over = n.over
<1>1. DOMAIN n = Fields /\ n.out \in Seq(ToClient) /\ Good(n.p1) /\ Ranges(n)
  BY DEF HostOK, HostShape
<1>2. Len(n.p1.ships) = NumShips /\ ShotOn(n.p1) = {}
  BY DEF HostOK, HostBoards
<1>3. FleetMessages(n.p1) \in Seq(ToClient) /\ \A i \in 1 .. NumShips : FleetMessages(n.p1)[i].type = "SHIP"
  BY <1>1, <1>2, FleetPath
<1>4. PICK f \in Seq(ToClient) : f = FleetMessages(n.p1)
  BY <1>3
<1>5. 1 .. Len(f) = 1 .. NumShips
  <2>1. n.p1.ships \in Seq(Ship)
    BY <1>1 DEF Good, BoardType
  <2>2. DOMAIN f = DOMAIN n.p1.ships
    BY <1>4 DEF FleetMessages
  <2>3. DOMAIN f = 1 .. Len(f) /\ DOMAIN n.p1.ships = 1 .. Len(n.p1.ships)
    BY <2>1
  <2> QED BY <1>2, <2>2, <2>3
<1>6. ~Comes(f)
  <2>1. \A i \in 1 .. Len(f) : f[i].type = "SHIP"
    BY <1>3, <1>4, <1>5
  <2> QED BY <2>1 DEF Comes, StateMsg
<1>7. PICK w : w = <<StateMsg("COUNTDOWN"), [type |-> "SECONDS", secs |-> CountdownStart]>>
  OBVIOUS
<1>8. w \in Seq(ToClient) /\ Len(w) = 2 /\ w[1] = StateMsg("COUNTDOWN") /\ w[2].type = "SECONDS"
  <2>1. CountdownStart \in 0 .. CountdownStart
    BY TimingAssumption
  <2>2. StateMsg("COUNTDOWN") \in ToClient /\ [type |-> "SECONDS", secs |-> CountdownStart] \in ToClient
    BY <2>1 DEF ToClient, StateMsg, Tags
  <2> QED BY <1>7, <2>2
<1>9. ~Comes(w)
  BY <1>8 DEF Comes, StateMsg
<1>10. c.out = n.out \o (f \o w) /\ c.over = n.over
  <2>1. c.out = n.out \o (f \o w) /\ Keeps(n, c, {"tag", "prev", "clicked", "secs", "cticks", "out"})
    BY <1>1, <1>3, <1>4, <1>7, DoneDoes
  <2> QED BY <2>1 DEF Keeps, Fields
<1>11. PICK v \in Seq(ToClient) : v = f \o w
  BY <1>8, ConcatProperties
<1>12. ~Comes(v)
  BY <1>6, <1>8, <1>9, <1>11, ComesJoined
<1>13. ~Comes(n.out) /\ n.out \o v \in Seq(ToClient)
  BY <1>1, ConcatProperties DEF Comes
<1>14. ~Comes(n.out \o v)
  BY <1>1, <1>12, <1>13, ComesJoined
<1> QED BY <1>10, <1>11, <1>13, <1>14

\* A message to the host.
LEMMA HostHearsInTurn ==
  ASSUME NEW h, NEW c, NEW hc, NEW ch, NEW g, InOrder(h, c, hc, ch, g), Turning(h, c, hc, ch, g),
         h.over = FALSE, ch # << >>, NEW n, n = HostReceives(h, Head(ch)), DOMAIN n = Fields,
         NEW q, q = Sent(Client, g, hc, n.out)
  PROVE  Turning(Spare(n), c, q, Tail(ch), g)
<1>1. /\ HostOK(h) /\ ClientOK(c) /\ Asked(h, c, ch) /\ Linked(h, c, hc, g)
      /\ ch \in Seq(ToHost) /\ hc \in Seq(ToClient) /\ h.out = << >> /\ (Client \in g => c.over = TRUE)
      /\ DOMAIN h = Fields
  BY DEF InOrder, Wires, HostOK, HostShape
<1>2. PICK msg \in ToHost : msg = Head(ch)
  BY <1>1, TailOf
<1>3. /\ msg.type \in {"HELLO", "DONE", "QUIT", "STATE", "SHIP", "ATTACK"}
      /\ n = HostReceives(h, msg) /\ msg = ch[1] /\ 1 \in 1 .. Len(ch)
  BY <1>1, <1>2, TailOf DEF ToHost
<1>4. /\ msg.type = "HELLO" => HostAt(h) \in {"lobby", "PLACE_SHIPS_P1", "PLACE_SHIPS_WAITING"}
      /\ msg.type = "HELLO" /\ HostAt(h) = "lobby" => c.tag = "WAITING_CONNECT"
      /\ msg.type \in {"SHIP", "DONE"} => HostAt(h) = "PLACE_SHIPS_WAITING"
  BY <1>1, <1>2, AskedNext
<1>5. /\ ~Comes(n.out) /\ n.out \in Seq(ToClient)
      /\ n.over = TRUE => c.over = TRUE /\ c.tag \in Parting
  <2>0. << >> \in Seq(ToClient) /\ ~Comes(<< >>)
    BY DEF Comes
  <2>1. CASE msg.type = "HELLO"
    <3>1. n = Hello(h)
      BY <1>3, <2>1 DEF HostReceives
    <3>2. ~Comes(n.out) /\ n.out \in Seq(ToClient) /\ n.over = h.over
      BY <1>1, <3>1, HelloMild
    <3> QED BY <3>2
  <2>2. CASE msg.type = "DONE"
    <3>1. h.tag = "PLACE_SHIPS_WAITING"
      BY <1>1, <1>4, <2>2, HostWhere
    <3>2. ~Comes(n.out) /\ n.out \in Seq(ToClient) /\ n.over = h.over
      BY <1>1, <1>3, <2>2, <3>1, DoneMild
    <3> QED BY <3>2
  <2>3. CASE msg.type = "QUIT"
    <3>1. n = [h EXCEPT !.over = TRUE]
      BY <1>3, <2>3 DEF HostReceives
    <3>2. n.out = << >>
      BY <1>1, <3>1 DEF Fields
    <3> QED BY <1>3, <2>0, <2>3, <3>2 DEF Turning, Ending
  <2>4. CASE msg.type = "STATE"
    <3>1. n = h
      BY <1>3, <2>4 DEF HostReceives
    <3> QED BY <1>1, <2>0, <3>1
  <2>5. CASE msg.type = "SHIP"
    <3>1. n = [h EXCEPT !.p2 = PlaceShip(h.p2, msg.cells, msg.size)]
      BY <1>3, <2>5 DEF HostReceives
    <3>2. n.out = << >> /\ n.over = h.over
      BY <1>1, <3>1 DEF Fields
    <3> QED BY <2>0, <3>2
  <2>6. CASE msg.type = "ATTACK"
    <3>1. n = h \/ n = Resolve(h, msg.cell)
      BY <1>3, <2>6 DEF HostReceives, AttackAsked
    <3>2. n = h \/ Keeps(h, n, {"p1", "p2", "expl", "eticks", "done", "at", "ishit"})
      BY <1>1, <3>1, ResolveDoes DEF Resolved
    <3>3. n.out = h.out /\ n.over = h.over
      BY <3>2 DEF Keeps, Fields
    <3> QED BY <1>1, <2>0, <3>3
  <2> QED BY <1>3, <2>1, <2>2, <2>3, <2>4, <2>5, <2>6
<1>6. ASSUME c.over = FALSE, Copy(c).at = "TURN_P2" \/ Comes(hc), HostAt(h) \in Yielding
      PROVE  HostAt(n) \in Yielding
  <2>1. CASE msg.type = "HELLO"
    <3>1. HostAt(h) = "lobby" /\ c.tag = "WAITING_CONNECT"
      BY <1>4, <1>6, <2>1 DEF Yielding
    <3>2. ClientAt(c) = "lobby" /\ Copy(c).at = "lobby"
      BY <3>1 DEF ClientAt, Screen, Lobby, Copy, Idle, Copied
    <3>3. PICK l : Ends(h, c, hc, l)
      BY <1>1, <1>6 DEF Linked
    <3>4. l.at \in {"lobby", "left"} /\ Rank(l.at) <= 2
      BY <3>1, <3>2, <3>3 DEF Ends, Mirror, Rank
    <3>5. l.at = "lobby"
      BY <3>4 DEF Rank, Fighting
    <3>6. ~Comes(hc)
      BY <1>1, <3>3, <3>5, LobbyHearsNoTurn DEF Ends
    <3> QED BY <1>6, <3>2, <3>6
  <2>2. CASE msg.type \in {"DONE", "SHIP"}
    BY <1>4, <1>6, <2>2 DEF Yielding
  <2>3. CASE msg.type = "QUIT"
    <3>1. n = [h EXCEPT !.over = TRUE]
      BY <1>3, <2>3 DEF HostReceives
    <3>2. n.tag = h.tag /\ n.prev = h.prev
      BY <1>1, <3>1 DEF Fields
    <3> QED BY <1>6, <3>2 DEF HostAt, Screen
  <2>4. CASE msg.type = "STATE"
    <3>1. n = h
      BY <1>3, <2>4 DEF HostReceives
    <3> QED BY <1>6, <3>1
  <2>5. CASE msg.type = "ATTACK"
    <3>1. n = h \/ n = Resolve(h, msg.cell)
      BY <1>3, <2>5 DEF HostReceives, AttackAsked
    <3>2. n = h \/ Keeps(h, n, {"p1", "p2", "expl", "eticks", "done", "at", "ishit"})
      BY <1>1, <3>1, ResolveDoes DEF Resolved
    <3>3. n.tag = h.tag /\ n.prev = h.prev
      BY <3>2 DEF Keeps, Fields
    <3> QED BY <1>6, <3>3 DEF HostAt, Screen
  <2> QED BY <1>3, <2>1, <2>2, <2>3, <2>4, <2>5
<1>7. PICK e : e = Spare(n)
  OBVIOUS
<1>8. HostAt(e) = HostAt(n) /\ e.over = n.over /\ e.tag = n.tag
  <2>1. e.tag = n.tag /\ e.prev = n.prev /\ e.over = n.over
    BY <1>7 DEF Spare, Fields
  <2> QED BY <2>1 DEF HostAt, Screen
<1>9. PICK p \in Seq(ToHost) : p = Tail(ch)
  BY <1>1, TailOf
<1>10. NoMoreQuits(p, ch)
  <2> SUFFICES ASSUME NEW i \in 1 .. Len(p), p[i].type = "QUIT" PROVE \E j \in 1 .. Len(ch) : ch[j].type = "QUIT"
    BY DEF NoMoreQuits
  <2>1. Len(ch) \in Nat /\ Len(p) = Len(ch) - 1 /\ \A j \in 1 .. Len(ch) - 1 : p[j] = ch[j + 1]
    BY <1>1, <1>9, TailOf
  <2>2. i + 1 \in 1 .. Len(ch) /\ ch[i + 1].type = "QUIT"
    BY <2>1
  <2> QED BY <2>2
<1>11. n.over = TRUE => n.tag \in Parting \/ (c.over = TRUE /\ c.tag \in Parting)
  BY <1>5
<1>12. Turning(e, c, q, p, g)
  BY <1>1, <1>5, <1>6, <1>8, <1>10, <1>11, HostTurns
<1> QED BY <1>7, <1>9, <1>12

\* A part of a tick that says nothing of the client's turn and does not end the program.
Keeping(n, c) == HostOK(c) /\ c.over = n.over /\ (Comes(c.out) => Comes(n.out))

\* The countdown.
LEMMA CountdownKeeping ==
  ASSUME NEW n, HostOK(n), NEW c, c = Countdown(n)
  PROVE  Keeping(n, c) /\ (n.tag \in {"TURN_P2", "HANDOVER_P1", "HANDOVER_P2"} => c = n)
<1>1. n.out \in Seq(ToClient) /\ HostOK(c) /\ Ranges(n) /\ Ranges(c)
  BY CountdownSteps DEF HostOK, HostShape, HostStep
<1>2. CASE c = n
  BY <1>1, <1>2 DEF Keeping
<1>3. CASE c # n
  <2>1. n.tag = "COUNTDOWN"
    BY <1>3, CountdownDoes
  <2>2. /\ c.over = n.over
        /\ \/ c.out = n.out
           \/ c.out = Append(n.out, [type |-> "SECONDS", secs |-> c.secs])
           \/ c.out = Append(n.out, StateMsg("TURN_P1"))
    BY <1>3, CountdownDoes DEF Keeps, Fields
  <2>3. [type |-> "SECONDS", secs |-> c.secs] \in ToClient /\ StateMsg("TURN_P1") \in ToClient
        /\ [type |-> "SECONDS", secs |-> c.secs] # StateMsg("TURN_P2") /\ StateMsg("TURN_P1") # StateMsg("TURN_P2")
    BY <1>1 DEF ToClient, StateMsg, Tags, Ranges
  <2>4. Comes(c.out) => Comes(n.out)
    BY <1>1, <2>2, <2>3, ComesNext
  <2> QED BY <1>1, <2>1, <2>2, <2>4 DEF Keeping
<1> QED BY <1>2, <1>3

\* The result.
LEMMA ResultKeeping ==
  ASSUME NEW n, HostOK(n), NEW c, c = Result(n)
  PROVE  Keeping(n, c) /\ c.tag \in {n.tag, "GAME_OVER"}
<1>1. /\ n.out \in Seq(ToClient) /\ HostOK(c) /\ n.at \in Cells /\ Good(n.p1) /\ Good(n.p2)
      /\ DOMAIN n = Fields
  BY ResultSteps DEF HostOK, HostShape, HostStep
<1>2. CASE c = n
  BY <1>1, <1>2 DEF Keeping
<1>3. CASE c # n
  <2> DEFINE res == ResultAt(Target(n), n.at)
             m1 == [type |-> "RESULT", cell |-> n.at, result |-> res]
             m2 == [type |-> "WINNER", winner |-> Shooter(n)]
             m3 == StateMsg("GAME_OVER")
             a  == Append(n.out, m1)
  <2>1. n.tag \in Turns /\ Follows(n, c)
    BY <1>3, ResultDoes
  <2>2. /\ c.over = n.over /\ c.tag \in {n.tag, "GAME_OVER"}
        /\ c.out = a \/ c.out = Append(Append(a, m2), m3)
    <3>1. PICK k : k = Reported(n)
      OBVIOUS
    <3>2. k.out = a /\ k.over = n.over /\ k.tag = n.tag
      BY <1>1, <3>1 DEF Reported, Fields
    <3>3. CASE AllSunk(Target(n))
      BY <2>1, <3>1, <3>2, <3>3 DEF Follows, Keeps, Fields
    <3>4. CASE ~AllSunk(Target(n))
      <4>1. c = k \/ Keeps(k, c, {"waiting", "post"})
        BY <2>1, <3>1, <3>4 DEF Follows
      <4> QED BY <3>2, <4>1 DEF Keeps, Fields
    <3> QED BY <3>3, <3>4
  <2>3. res \in Results
    <3>1. Target(n) \in {n.p1, n.p2}
      BY DEF Target
    <3> QED BY <1>1, <3>1 DEF ResultAt, Results
  <2>4. /\ m1 \in ToClient /\ m2 \in ToClient /\ m3 \in ToClient
        /\ m1 # StateMsg("TURN_P2") /\ m2 # StateMsg("TURN_P2") /\ m3 # StateMsg("TURN_P2")
    BY <1>1, <2>3 DEF ToClient, StateMsg, Tags, Shooter, Results
  <2> HIDE DEF m1, m2, m3
  <2>5. a \in Seq(ToClient) /\ Append(a, m2) \in Seq(ToClient)
    BY <1>1, <2>4, AppendOf
  <2> HIDE DEF a
  <2>6. Comes(Append(Append(a, m2), m3)) => Comes(a)
    BY <2>4, <2>5, ComesNext
  <2>7. Comes(a) => Comes(n.out)
    BY <1>1, <2>4, ComesNext DEF a
  <2> QED BY <1>1, <2>2, <2>6, <2>7 DEF Keeping
<1> QED BY <1>2, <1>3

\* The wait after a miss: the client's turn ends with a handover of full length.
LEMMA PostAttackKeeping ==
  ASSUME NEW n, HostOK(n), NEW c, c = PostAttack(n)
  PROVE  /\ Keeping(n, c)
         /\ n.tag = "TURN_P2" => c.tag = "TURN_P2" \/ (c.tag = "HANDOVER_P1" /\ c.cticks = 0)
         /\ n.tag \notin Turns => c.tag = n.tag
<1>1. n.out \in Seq(ToClient) /\ HostOK(c)
  BY PostAttackSteps DEF HostOK, HostShape, HostStep
<1>2. CASE c = n \/ Keeps(n, c, {"post"})
  <2>1. c.tag = n.tag /\ c.over = n.over /\ c.out = n.out
    BY <1>2 DEF Keeps, Fields
  <2> QED BY <1>1, <2>1 DEF Keeping
<1>3. CASE ~(c = n \/ Keeps(n, c, {"post"}))
  <2>1. /\ n.tag \in Turns /\ c.over = n.over /\ c.cticks = 0 /\ c.out = Append(n.out, StateMsg(c.tag))
        /\ c.tag = IF n.tag = "TURN_P1" THEN "HANDOVER_P2" ELSE "HANDOVER_P1"
    <3>1. /\ n.tag \in Turns /\ c.cticks = 0 /\ c.out = Append(n.out, StateMsg(c.tag))
          /\ Keeps(n, c, {"waiting", "post", "cticks", "word", "tag", "prev", "clicked", "out"})
          /\ IF n.tag = "TURN_P1" THEN c.word = 2 /\ c.tag = "HANDOVER_P2"
             ELSE c.word = 1 /\ c.tag = "HANDOVER_P1"
      BY <1>3, PostAttackDoes
    <3>2. c.over = n.over
      BY <3>1 DEF Keeps, Fields
    <3> QED BY <3>1, <3>2
  <2>2. StateMsg(c.tag) \in ToClient /\ StateMsg(c.tag) # StateMsg("TURN_P2")
    BY <2>1 DEF ToClient, StateMsg, Tags
  <2>3. Comes(c.out) => Comes(n.out)
    BY <1>1, <2>1, <2>2, ComesNext
  <2> QED BY <1>1, <2>1, <2>3 DEF Keeping, Turns
<1> QED BY <1>2, <1>3

\* The handover.
LEMMA HandoverKeeping ==
  ASSUME NEW n, HostOK(n), TicksPerSec > 1, NEW c, c = Handover(n)
  PROVE  /\ HostOK(c) /\ c.over = n.over /\ (Comes(c.out) => Comes(n.out) \/ c.tag = "TURN_P2")
         /\ n.tag = "TURN_P2" \/ (n.tag = "HANDOVER_P1" /\ n.cticks = 0) \/ n.tag = "GAME_OVER" => c.tag = n.tag
<1>1. n.out \in Seq(ToClient) /\ HostOK(c) /\ DOMAIN n = Fields /\ n.role = Host
  BY HandoverSteps DEF HostOK, HostShape, HostStep
<1>2. CASE c = n \/ Keeps(n, c, {"cticks"})
  <2>1. c.tag = n.tag /\ c.over = n.over /\ c.out = n.out
    BY <1>2 DEF Keeps, Fields
  <2> QED BY <1>1, <2>1
<1>3. CASE ~(c = n \/ Keeps(n, c, {"cticks"}))
  <2>1. /\ n.tag \in {"HANDOVER_P1", "HANDOVER_P2"} /\ c.over = n.over /\ c.out = Append(n.out, StateMsg(c.tag))
        /\ c.tag \in {"TURN_P1", "TURN_P2"}
    BY <1>3, HandoverDoes DEF Keeps, Fields
  <2>2. StateMsg(c.tag) \in ToClient /\ (c.tag = "TURN_P1" => StateMsg(c.tag) # StateMsg("TURN_P2"))
    BY <2>1 DEF ToClient, StateMsg, Tags
  <2>3. Comes(c.out) => Comes(n.out) \/ c.tag = "TURN_P2"
    BY <1>1, <2>1, <2>2, ComesNext
  <2>4. ~(n.tag = "HANDOVER_P1" /\ n.cticks = 0)
    <3> SUFFICES ASSUME n.tag = "HANDOVER_P1", n.cticks = 0 PROVE FALSE
      OBVIOUS
    <3>1. n.cticks + 1 < TicksPerSec
      BY TimingAssumption
    <3>2. c = [n EXCEPT !.cticks = n.cticks + 1]
      BY <1>1, <3>1 DEF Handover
    <3>3. Keeps(n, c, {"cticks"})
      BY <1>1, <3>2 DEF Keeps, Fields
    <3> QED BY <1>3, <3>3
  <2> QED BY <1>1, <2>1, <2>3, <2>4
<1> QED BY <1>2, <1>3

\* The animation.
LEMMA AnimateKeeping ==
  ASSUME NEW n, HostOK(n), NEW c, c = Animate(n)
  PROVE  c.tag = n.tag /\ c.out = n.out /\ c.over = n.over /\ HostOK(c)
<1>1. DOMAIN n = Fields /\ HostOK(c)
  BY AnimateSteps DEF HostOK, HostShape, HostStep
<1>2. c = n \/ Keeps(n, c, {"expl", "eticks", "done"})
  BY <1>1, AnimateDoes
<1> QED BY <1>1, <1>2 DEF Keeps, Fields

\* In one tick the client's turn ends at most with the beginning of the handover, and
\* the client is told of its turn only when it begins.
LEMMA TickInTurn ==
  ASSUME NEW n, HostOK(n), n.out = << >>, TicksPerSec > 1, NEW c \in Tick(n)
  PROVE  /\ n.tag = "TURN_P2" => c.tag \in {"TURN_P2", "HANDOVER_P1", "GAME_OVER"}
         /\ Comes(c.out) => c.tag = "TURN_P2"
         /\ c.over = n.over
<1> DEFINE a == Countdown(n)
           b == Result(a)
           d == PostAttack(b)
           e == Handover(d)
<1>1. Keeping(n, a) /\ (n.tag = "TURN_P2" => a = n)
  BY CountdownKeeping
<1>2. Keeping(a, b) /\ b.tag \in {a.tag, "GAME_OVER"}
  BY <1>1, ResultKeeping DEF Keeping
<1>3. /\ Keeping(b, d)
      /\ b.tag = "TURN_P2" => d.tag = "TURN_P2" \/ (d.tag = "HANDOVER_P1" /\ d.cticks = 0)
      /\ b.tag \notin Turns => d.tag = b.tag
  BY <1>2, PostAttackKeeping DEF Keeping
<1>4. /\ HostOK(e) /\ e.over = d.over /\ (Comes(e.out) => Comes(d.out) \/ e.tag = "TURN_P2")
      /\ d.tag = "TURN_P2" \/ (d.tag = "HANDOVER_P1" /\ d.cticks = 0) \/ d.tag = "GAME_OVER" => e.tag = d.tag
  BY <1>3, HandoverKeeping DEF Keeping
<1>5. (b.tag = "GAME_OVER" /\ c = Animate(b)) \/ c = Animate(e)
  <2>1. \A x : HostOK(x) => x.single = FALSE
    BY DEF HostOK, HostShape
  <2> QED BY <2>1, TickIs
<1> HIDE DEF a, b, d, e
<1>6. PICK z : c = Animate(z) /\ ((z = b /\ b.tag = "GAME_OVER") \/ z = e)
  BY <1>5
<1>7. HostOK(b) /\ HostOK(e) /\ HostOK(z)
  BY <1>2, <1>4, <1>6 DEF Keeping
<1>8. c.tag = z.tag /\ c.out = z.out /\ c.over = z.over
  BY <1>6, <1>7, AnimateKeeping
<1>9. ~Comes(n.out)
  BY DEF Comes
<1>10. b.over = n.over /\ e.over = n.over
  BY <1>1, <1>2, <1>3, <1>4 DEF Keeping
<1>11. n.tag = "TURN_P2" => b.tag \in {"TURN_P2", "GAME_OVER"}
  BY <1>1, <1>2
<1>12. n.tag = "TURN_P2" => e.tag \in {"TURN_P2", "HANDOVER_P1", "GAME_OVER"}
  BY <1>3, <1>4, <1>11 DEF Turns
<1>13. ~Comes(b.out) /\ (Comes(e.out) => e.tag = "TURN_P2")
  BY <1>1, <1>2, <1>3, <1>4, <1>9 DEF Keeping
<1> QED BY <1>6, <1>8, <1>10, <1>11, <1>12, <1>13

\* A tick of the host with nothing on the way to the client.
LEMMA HostTicksInTurn ==
  ASSUME NEW h, NEW c, NEW hc, NEW ch, NEW g, InOrder(h, c, hc, ch, g), Turning(h, c, hc, ch, g),
         h.over = FALSE, c.over = FALSE => hc = << >>, TicksPerSec > 1,
         NEW n \in Tick(h), NEW q, q = Sent(Client, g, hc, n.out)
  PROVE  Turning(Spare(n), c, q, ch, g)
<1>1. /\ HostOK(h) /\ ClientOK(c) /\ Linked(h, c, hc, g) /\ h.out = << >> /\ (Client \in g => c.over = TRUE)
      /\ HostOK(n) /\ n.out \in Seq(ToClient) /\ hc \in Seq(ToClient)
  BY HostTicks DEF InOrder, Wires, HostStep, HostOK, HostShape
<1>2. /\ h.tag = "TURN_P2" => n.tag \in {"TURN_P2", "HANDOVER_P1", "GAME_OVER"}
      /\ Comes(n.out) => n.tag = "TURN_P2"
      /\ n.over = FALSE
  BY <1>1, TickInTurn
<1>3. PICK e : e = Spare(n)
  OBVIOUS
<1>4. HostAt(e) = HostAt(n) /\ e.over = FALSE /\ e.tag = n.tag
  BY <1>1, <1>2, <1>3, HostSpare DEF Fields
<1>5. Ending(e, c, ch, g)
  BY <1>4 DEF Turning, Ending
<1>6. n.tag \in {"TURN_P2", "HANDOVER_P1", "GAME_OVER"} => HostAt(n) \in Yielding
  BY DEF HostAt, Screen, Lobby, Yielding
<1>7. ASSUME c.over = FALSE, Copy(c).at = "TURN_P2" \/ Comes(q) PROVE HostAt(n) \in Yielding
  <2>1. hc = << >> /\ Client \notin g
    BY <1>1, <1>7
  <2>2. q = n.out
    BY <1>1, <2>1 DEF Sent
  <2>3. CASE Comes(q)
    BY <1>2, <1>6, <2>2, <2>3
  <2>4. CASE Copy(c).at = "TURN_P2"
    <3>1. PICK l : Ends(h, c, hc, l)
      BY <1>1, <2>1 DEF Linked
    <3>2. Path(hc, Copy(c), l) /\ Mirror(h, l)
      BY <3>1 DEF Ends
    <3>3. l = Copy(c)
      BY <1>1, <2>1, <3>2, PathRank
    <3>4. HostAt(h) = "TURN_P2"
      BY <2>4, <3>2, <3>3 DEF Mirror
    <3>5. h.tag = "TURN_P2"
      BY <1>1, <3>4, YieldingIsIdle
    <3> QED BY <1>2, <1>6, <3>5
  <2> QED BY <1>7, <2>3, <2>4
<1>8. Prompt(e, c, q)
  BY <1>4, <1>7 DEF Prompt
<1> QED BY <1>3, <1>5, <1>8 DEF Turning

----------------------------------------------------------------------------
(* The client                                                              *)

\* A step of the client that gives it no turn but the one it was told of, and that says
\* so if it ends the program.
TakesTurn(c, n, hc, g) ==
  /\ n.out \in Seq(ToHost)
  /\ Copy(n).at = "TURN_P2" => Copy(c).at = "TURN_P2" \/ Comes(hc)
  /\ n.over = TRUE => n.tag \in Parting \/ Host \in g
  /\ (n.over = TRUE /\ n.tag \in Parting) \/ NoQuit(n.out)

\* The same but for what it has said.
SameClient(e, n) == e.over = n.over /\ e.tag = n.tag /\ Copy(e) = Copy(n)

\* Such a step leaves the turns in order.
LEMMA ClientTurns ==
  ASSUME NEW h, NEW c, NEW hc, NEW ch \in Seq(ToHost), NEW g, Turning(h, c, hc, ch, g), c.over = FALSE,
         NEW n, TakesTurn(c, n, hc, g), NEW e, SameClient(e, n),
         NEW q, q = hc \/ (Comes(q) => Comes(hc)), NEW p, p = Sent(Host, g, ch, n.out)
  PROVE  Turning(h, e, q, p, g)
<1>0. TakesTurn(c, n, hc, g) /\ n.out \in Seq(ToHost) /\ e.over = n.over /\ e.tag = n.tag
  BY DEF TakesTurn, SameClient
<1>1. ASSUME NEW i \in 1 .. Len(p), p[i].type = "QUIT" PROVE e.over = TRUE /\ e.tag \in Parting
  <2>1. \A j \in 1 .. Len(ch) : ch[j].type # "QUIT"
    BY DEF Turning, Ending
  <2>2. CASE NoQuit(n.out)
    <3>1. CASE Host \in g
      BY <1>1, <3>1 DEF Sent
    <3>2. CASE Host \notin g
      <4>1. p = ch \o n.out
        BY <3>2 DEF Sent
      <4>2. i \in 1 .. Len(ch \o n.out) /\ (ch \o n.out)[i].type = "QUIT"
        BY <1>1, <4>1
      <4>3. \E j \in 1 .. Len(ch) : ch[j].type = "QUIT"
        BY <1>0, <2>2, <4>2, QuitJoined
      <4> QED BY <2>1, <4>3
    <3> QED BY <3>1, <3>2
  <2> QED BY <1>0, <2>2 DEF TakesTurn
<1>2. Ending(h, e, p, g)
  BY <1>0, <1>1 DEF Turning, Ending, TakesTurn
<1>3. Prompt(h, e, q)
  BY DEF Turning, Prompt, TakesTurn, SameClient
<1> QED BY <1>2, <1>3 DEF Turning

\* One message that is not a farewell.
LEMMA OneNoQuit ==
  ASSUME NEW n, NEW c, n.out = << >>, NEW msg \in ToHost, msg.type # "QUIT", c.out = Append(n.out, msg)
  PROVE  NoQuit(c.out) /\ c.out \in Seq(ToHost)
<1>1. << >> \in Seq(ToHost) /\ Len(<< >>) = 0
  OBVIOUS
<1>2. c.out \in Seq(ToHost) /\ Len(c.out) = 1 /\ c.out[1] = msg
  BY <1>1, AppendOf
<1> QED BY <1>2 DEF NoQuit

\* What the player of the client does, and how it leaves.
LEMMA QuitParts ==
  ASSUME NEW n, DOMAIN n = Fields, n.role = Client, n.tag \in Parting, NEW c, c = Quit(n)
  PROVE  Parts(n, c)
<1>1. c = [Send(n, [type |-> "QUIT"]) EXCEPT !.over = TRUE]
  BY DEF Quit
<1>2. c.over = TRUE /\ c.tag = n.tag
  BY <1>1 DEF Send, Fields
<1> QED BY <1>2 DEF Parts

\* One that says nothing.
LEMMA SilentParts ==
  ASSUME NEW n, n.out = << >>, NEW c, c.out = n.out, c.over = n.over
  PROVE  Parts(n, c)
  BY DEF Parts, NoQuit

\* The steps of a player.
LEMMA ClientPlayerParts ==
  ASSUME DuelInv, Player(Client)
  PROVE  \E n : /\ Become(Client, n) /\ ClientOK(n) /\ Parts(con[Client], n)
                /\ Copy(n).at = "TURN_P2" => Copy(con[Client]).at = "TURN_P2"
<1> DEFINE n == con[Client]
<1>1. ClientOK(n) /\ n.role = Client /\ DOMAIN n = Fields /\ n.out = << >>
  BY DuelSays, ClientFields DEF InOrder, Wires
<1>2. \A c : ClientStep(n, c) => ClientOK(c) /\ (Copy(c).at = "TURN_P2" => Copy(n).at = "TURN_P2")
  BY DEF ClientStep
<1>3. CASE Menu(Client)
  <2>1. PICK option \in 1 .. 3 : Become(Client, MenuChoose(n, option))
    BY <1>3 DEF Menu
  <2>2. n.tag = "MAIN_MENU"
    BY <1>3 DEF Menu
  <2>3. PICK c : c = MenuChoose(n, option)
    OBVIOUS
  <2>4. ClientStep(n, c)
    BY <1>1, <2>2, <2>3, ClientMenu
  <2>5. CASE option = 1
    <3>1. c = StartMulti(n)
      BY <2>3, <2>5 DEF MenuChoose
    <3>2. c.out = n.out /\ c.over = n.over
      BY <1>1, <3>1 DEF StartMulti, NewGame, CalmRenderer, ClearBoards, Transition, Fields
    <3> QED BY <1>1, <1>2, <2>1, <2>3, <2>4, <3>2, SilentParts
  <2>6. CASE option = 2
    <3>1. c = Transition(n, "INSTRUCTIONS")
      BY <2>3, <2>6 DEF MenuChoose
    <3> QED BY <1>1, <1>2, <2>1, <2>3, <2>4, <3>1, TransitionMild, SilentParts
  <2>7. CASE option = 3
    <3>1. c = Quit(n)
      BY <2>3, <2>7 DEF MenuChoose
    <3> QED BY <1>1, <1>2, <2>1, <2>2, <2>3, <2>4, <3>1, QuitParts DEF Parting
  <2> QED BY <2>5, <2>6, <2>7
<1>4. CASE LeaveInstructions(Client)
  <2>1. PICK c : c = Transition(n, "MAIN_MENU")
    OBVIOUS
  <2>2. ClientStep(n, c) /\ Become(Client, c)
    BY <1>1, <1>4, <2>1, ClientReads DEF LeaveInstructions
  <2> QED BY <1>1, <1>2, <2>1, <2>2, TransitionMild, SilentParts
<1>5. CASE Place(Client)
  <2>1. PICK cells \in Footprints(ShipSizes[n.idx + 1]) : Become(Client, PutShip(n, cells))
    BY <1>5 DEF Place
  <2>2. PICK c : c = PutShip(n, cells)
    OBVIOUS
  <2>3. n.tag = "PLACE_SHIPS_P2"
    BY <1>1, <1>5 DEF Place, PlacesByKey, PlacesByMouse, Host, Client
  <2>4. c = n \/ \E ship : Placed(n, c, ship)
    BY <1>1, <2>2, <2>3, ClientPlaces
  <2>5. CASE c = n
    BY <1>1, <2>1, <2>2, <2>5, SilentParts
  <2>6. CASE \E ship : Placed(n, c, ship)
    <3>1. PICK ship : Placed(n, c, ship)
      BY <2>6
    <3>2. ClientOK(c) /\ ClientAt(c) = "PLACE_SHIPS_WAITING" /\ ship \in ToHost /\ ship.type = "SHIP"
      BY <3>1 DEF Placed
    <3>3. Copy(c).at # "TURN_P2"
      BY <3>2 DEF Copy, Copied
    <3>4. c.over = n.over /\ NoQuit(c.out)
      <4>1. CASE ~CanPlace(n.p2, cells)
        <5>1. c = n
          BY <2>2, <2>3, <4>1 DEF PutShip, PlacedOn
        <5> QED BY <1>1, <5>1 DEF NoQuit
      <4>2. CASE CanPlace(n.p2, cells)
        <5>1. PICK size, board, msg : size = ShipSizes[n.idx + 1] /\ board = PlaceShip(n.p2, cells, size)
                                      /\ msg = [type |-> "SHIP", cells |-> cells, size |-> size]
          OBVIOUS
        <5>2. \/ Keeps(n, c, {"p2", "idx", "out"}) /\ c.out = Append(n.out, msg)
              \/ /\ Keeps(n, c, {"p2", "tag", "prev", "clicked", "out"})
                 /\ c.out = Append(Append(n.out, msg), [type |-> "DONE"])
          BY <1>1, <2>2, <2>3, <4>2, <5>1, ClientPutDoes
        <5>3. c.over = n.over
          BY <5>2 DEF Keeps, Fields
        <5>4. msg.type # "QUIT" /\ [type |-> "DONE"].type # "QUIT"
          BY <5>1
        <5>5. c.out = <<msg>> \/ c.out = <<msg, [type |-> "DONE"]>>
          BY <1>1, <5>2
        <5>6. NoQuit(c.out)
          BY <5>4, <5>5 DEF NoQuit
        <5> QED BY <5>3, <5>6
      <4> QED BY <4>1, <4>2
    <3>5. Parts(n, c)
      BY <3>4 DEF Parts
    <3> QED BY <2>1, <2>2, <3>2, <3>3, <3>5
  <2> QED BY <2>4, <2>5, <2>6
<1>6. CASE Fire(Client)
  <2>1. PICK x \in Cells : Become(Client, FireAt(n, x))
    BY <1>6 DEF Fire
  <2>2. PICK c : c = FireAt(n, x)
    OBVIOUS
  <2>3. ClientStep(n, c)
    BY <1>1, <2>2, ClientFires
  <2>4. Parts(n, c)
    <3>1. CASE c = n
      BY <1>1, <3>1, SilentParts
    <3>2. CASE c # n
      <4>1. c = Send(Explode(n, x, FALSE), [type |-> "ATTACK", cell |-> x])
        BY <1>1, <2>2, <3>2 DEF FireAt, Host, Client
      <4>2. [type |-> "ATTACK", cell |-> x] \in ToHost /\ [type |-> "ATTACK", cell |-> x].type # "QUIT"
        BY DEF ToHost
      <4>3. c.out = Append(n.out, [type |-> "ATTACK", cell |-> x]) /\ c.over = n.over
        BY <1>1, <4>1 DEF Send, Explode, Fields
      <4>4. NoQuit(c.out)
        BY <1>1, <4>2, <4>3, OneNoQuit
      <4> QED BY <4>3, <4>4 DEF Parts
    <3> QED BY <3>1, <3>2
  <2> QED BY <1>2, <2>1, <2>2, <2>3, <2>4
<1>7. CASE Pause(Client)
  <2>1. PICK c : c = Transition(n, "PAUSED")
    OBVIOUS
  <2>2. ClientStep(n, c) /\ Become(Client, c)
    BY <1>1, <1>7, <2>1, ClientPauses DEF Pause
  <2> QED BY <1>1, <1>2, <2>1, <2>2, TransitionMild, SilentParts
<1>8. CASE PauseEnter(Client)
  <2>1. PICK option \in 0 .. 1 : Become(Client, PauseChoose(n, option))
    BY <1>8 DEF PauseEnter
  <2>2. PICK c : c = PauseChoose(n, option)
    OBVIOUS
  <2>3. n.tag = "PAUSED" /\ ClientStep(n, c)
    BY <1>1, <1>8, <2>2, ClientResumes DEF PauseEnter
  <2>4. Parts(n, c)
    <3>1. CASE option = 0
      <4>1. c = Transition(n, n.prev)
        BY <2>2, <3>1 DEF PauseChoose
      <4> QED BY <1>1, <4>1, TransitionMild, SilentParts
    <3>2. CASE option # 0
      <4>1. c = Quit(n)
        BY <2>2, <3>2 DEF PauseChoose
      <4> QED BY <1>1, <2>3, <4>1, QuitParts DEF Parting
    <3> QED BY <3>1, <3>2
  <2> QED BY <1>2, <2>1, <2>2, <2>3, <2>4
<1>9. CASE PauseArrow(Client)
  <2>1. PICK c : c = Arrow(n, "down")
    OBVIOUS
  <2>2. ClientStep(n, c) /\ Become(Client, c)
    BY <1>1, <1>9, <2>1, ClientArrows DEF PauseArrow
  <2>3. c.out = n.out /\ c.over = n.over
    BY <1>1, <2>1 DEF Arrow, Fields
  <2> QED BY <1>1, <1>2, <2>2, <2>3, SilentParts
<1>10. CASE GameOverEnter(Client)
  <2>1. PICK c : c = Rematch(n)
    OBVIOUS
  <2>2. n.tag = "GAME_OVER" /\ Become(Client, c)
    BY <1>10, <2>1 DEF GameOverEnter
  <2>3. ClientStep(n, c)
    BY <1>1, <2>1, <2>2, ClientRematch
  <2>4. c.over = n.over /\ c.out = Append(n.out, StateMsg("MAIN_MENU"))
    <3>1. PICK k : k = [CalmRenderer(ClearBoards(n)) EXCEPT !.word = 0]
      OBVIOUS
    <3>2. DOMAIN k = Fields /\ k.out = n.out /\ k.over = n.over
      BY <1>1, <3>1 DEF CalmRenderer, ClearBoards, Fields
    <3>3. c = Send(Transition(k, "MAIN_MENU"), StateMsg("MAIN_MENU"))
      BY <2>1, <3>1 DEF Rematch
    <3> QED BY <3>2, <3>3 DEF Send, Transition, Fields
  <2>5. StateMsg("MAIN_MENU") \in ToHost /\ StateMsg("MAIN_MENU").type # "QUIT"
    BY DEF ToHost, StateMsg
  <2>6. NoQuit(c.out)
    BY <1>1, <2>4, <2>5, OneNoQuit
  <2> QED BY <1>2, <2>2, <2>3, <2>4, <2>6 DEF Parts
<1>11. CASE GameOverEsc(Client)
  <2>1. PICK c : c = [n EXCEPT !.over = TRUE]
    OBVIOUS
  <2>2. n.tag = "GAME_OVER" /\ Become(Client, c)
    BY <1>11, <2>1 DEF GameOverEsc
  <2>3. DOMAIN c = Fields /\ c.over = TRUE /\ \A f \in Fields \ {"over", "out"} : c[f] = n[f]
    BY <1>1, <2>1 DEF Fields
  <2>4. c.out = n.out /\ c.tag = n.tag
    BY <1>1, <2>1 DEF Fields
  <2>5. ClientStep(n, c)
    BY <1>1, <2>3, <2>4, ClientEnds
  <2> QED BY <1>2, <2>2, <2>3, <2>4, <2>5 DEF Parts, Parting
<1> QED BY <1>3, <1>4, <1>5, <1>6, <1>7, <1>8, <1>9, <1>10, <1>11 DEF Player

\* What the player of the client does leaves its turn as it is.
LEMMA ClientPlaysInTurn == ASSUME DuelInv, TurnInv, Player(Client) PROVE TurnInv'
<1>1. PICK n : /\ Become(Client, n) /\ ClientOK(n) /\ Parts(con[Client], n)
               /\ Copy(n).at = "TURN_P2" => Copy(con[Client]).at = "TURN_P2"
  BY ClientPlayerParts
<1> DEFINE h == con[Host]
           c == con[Client]
<1>2. net[Host] \in Seq(ToHost) /\ c.over = FALSE /\ n.out \in Seq(ToHost)
  <2>1. Running(Client) /\ c.over \in BOOLEAN
    BY DuelSays, ClientFields DEF Player, Menu, LeaveInstructions, Place, Fire, Pause, PauseEnter, PauseArrow,
                                  GameOverEnter, GameOverEsc
  <2> QED BY <1>1, <2>1, ClientFields DEF DuelInv, InOrder, Wires, Running
<1>3. PICK e, p, hc, ch : /\ e = Spare(n) /\ p = Sent(Host, gone, ch, n.out)
                          /\ hc = net[Client] /\ ch = net[Host] /\ ch \in Seq(ToHost)
  BY <1>2
<1>4. Copy(e) = Copy(n) /\ e.over = n.over /\ e.tag = n.tag
  BY <1>1, <1>3, ClientSpare
<1>5. con'[Client] = e /\ con'[Host] = h /\ net'[Client] = hc /\ gone' = gone /\ net'[Host] = p
  BY <1>1, <1>3, AfterClient
<1>6. Turning(h, c, hc, ch, gone)
  BY <1>3 DEF TurnInv
<1> HIDE DEF h, c
<1>7. /\ n.over = TRUE => n.tag \in Parting
      /\ (n.over = TRUE /\ n.tag \in Parting) \/ NoQuit(n.out)
  <2>1. Parts(c, n)
    BY <1>1 DEF c
  <2> QED BY <1>2, <2>1 DEF Parts
<1>8. Copy(n).at = "TURN_P2" => Copy(c).at = "TURN_P2"
  BY <1>1 DEF c
<1>9. Turning(h, e, hc, p, gone)
  <2>1. TakesTurn(c, n, hc, gone) /\ SameClient(e, n)
    BY <1>2, <1>4, <1>7, <1>8 DEF TakesTurn, SameClient
  <2> QED BY <1>2, <1>3, <1>6, <2>1, ClientTurns
<1> QED BY <1>5, <1>9 DEF TurnInv

\* A client is ended from outside only by a host that has left.
LEMMA HeardOver ==
  ASSUME NEW c, DOMAIN c = Fields, NEW msg \in ToClient, NEW n, n = ClientReceives(c, msg)
  PROVE  n.over = c.over \/ msg = StateMsg("EXIT")
<1>1. msg.type \in {"HELLO_ACK", "STATE", "SHIP", "RESULT", "SECONDS", "WINNER"}
  BY DEF ToClient
<1>2. CASE msg.type = "HELLO_ACK"
  <2>1. n = [c EXCEPT !.connected = TRUE]
    BY <1>2 DEF ClientReceives
  <2> QED BY <2>1 DEF Fields
<1>3. CASE msg.type = "STATE"
  <2>1. n = Follow(c, msg.state)
    BY <1>3 DEF ClientReceives
  <2>2. CASE msg.state = "EXIT"
    <3>1. msg = StateMsg("EXIT")
      BY <1>3, <2>2 DEF ToClient, StateMsg
    <3> QED BY <3>1
  <2>3. CASE msg.state # "EXIT"
    <3>1. PICK k : k = IF msg.state = "MAIN_MENU" /\ c.tag = "GAME_OVER" THEN CalmRenderer(ClearBoards(c)) ELSE c
      OBVIOUS
    <3>2. DOMAIN k = Fields /\ k.over = c.over
      BY <3>1 DEF CalmRenderer, ClearBoards, Fields
    <3>3. PICK m : m = Transition(k, msg.state)
      OBVIOUS
    <3>4. DOMAIN m = Fields /\ m.over = c.over
      BY <3>2, <3>3 DEF Transition, Fields
    <3>5. n = c \/ n = m \/ n = [m EXCEPT !.idx = 0]
      BY <2>1, <2>3, <3>1, <3>3 DEF Follow
    <3> QED BY <3>4, <3>5 DEF Fields
  <2> QED BY <2>2, <2>3
<1>4. CASE msg.type = "SHIP"
  <2>1. n = ReceiveShip(c, msg)
    BY <1>4 DEF ClientReceives
  <2> QED BY <2>1 DEF ReceiveShip, Fields
<1>5. CASE msg.type = "RESULT"
  <2>1. n = ReceiveResult(c, msg.cell, msg.result)
    BY <1>5 DEF ClientReceives
  <2>2. PICK k : k = SetTarget(c, MirrorAttack(Target(c), msg.cell, msg.result))
    OBVIOUS
  <2>3. DOMAIN k = Fields /\ k.over = c.over
    BY <2>2 DEF SetTarget, Fields
  <2>4. n = k \/ n = Explode(k, msg.cell, msg.result # "miss")
    BY <2>1, <2>2 DEF ReceiveResult
  <2> QED BY <2>3, <2>4 DEF Explode, Fields
<1>6. CASE msg.type = "SECONDS"
  <2>1. n = [c EXCEPT !.secs = msg.secs]
    BY <1>6 DEF ClientReceives
  <2> QED BY <2>1 DEF Fields
<1>7. CASE msg.type = "WINNER"
  <2>1. n = [c EXCEPT !.word = msg.winner]
    BY <1>7 DEF ClientReceives
  <2> QED BY <2>1 DEF Fields
<1> QED BY <1>1, <1>2, <1>3, <1>4, <1>5, <1>6, <1>7

\* A message to the client.
LEMMA ClientHearsInTurn ==
  ASSUME NEW h, NEW c, NEW hc, NEW ch, NEW g, InOrder(h, c, hc, ch, g), Turning(h, c, hc, ch, g),
         c.over = FALSE, hc # << >>, NEW n, n = ClientReceives(c, Head(hc)),
         NEW p, p = Sent(Host, g, ch, n.out)
  PROVE  Turning(h, Spare(n), Tail(hc), p, g)
<1>1. /\ HostOK(h) /\ ClientOK(c) /\ Linked(h, c, hc, g) /\ hc \in Seq(ToClient) /\ ch \in Seq(ToHost)
      /\ c.out = << >> /\ Client \notin g
      /\ \A i \in 1 .. Len(hc) : hc[i] = StateMsg("EXIT") => i = Len(hc) /\ Host \in g
  BY DEF InOrder, Wires
<1>2. PICK msg \in ToClient : msg = Head(hc)
  BY <1>1, TailOf
<1>3. msg = hc[1] /\ 1 \in 1 .. Len(hc)
  BY <1>1, <1>2, TailOf
<1>4. PICK l : Ends(h, c, hc, l)
  BY <1>1 DEF Linked
<1>5. PICK m : Hop(Copy(c), msg, m) /\ Arrives(c, n, m)
  BY <1>1, <1>2, <1>4, HearsNext
<1>6. ClientOK(n) /\ n.out = << >> /\ (Copy(n) = IF m.at = "left" THEN Idle("lobby") ELSE m)
  BY <1>1, <1>5 DEF Arrives
<1>7. n.over = TRUE => Host \in g
  <2>1. n.over = c.over \/ msg = StateMsg("EXIT")
    BY <1>1, <1>2, HeardOver, ClientFields
  <2> QED BY <1>1, <1>3, <2>1
<1>8. Copy(n).at = "TURN_P2" => Copy(c).at = "TURN_P2" \/ Comes(hc)
  <2> SUFFICES ASSUME Copy(n).at = "TURN_P2", Copy(c).at # "TURN_P2" PROVE Comes(hc)
    OBVIOUS
  <2>1. m.at = "TURN_P2"
    BY <1>6 DEF Idle, Copied
  <2>2. msg = StateMsg("TURN_P2")
    <3>1. m # Copy(c)
      BY <2>1
    <3>2. msg.type = "STATE" /\ Leads(Copy(c), msg.state, m)
      BY <1>5, <2>1, <3>1 DEF Hop, Copied
    <3>3. msg.state = "TURN_P2"
      BY <2>1, <3>1, <3>2 DEF Leads, Copied, Idle
    <3> QED BY <3>2, <3>3 DEF ToClient, StateMsg
  <2> QED BY <1>3, <2>2 DEF Comes
<1>9. PICK e, q : e = Spare(n) /\ q = Tail(hc)
  OBVIOUS
<1>10. Copy(e) = Copy(n) /\ e.over = n.over /\ e.tag = n.tag
  BY <1>6, <1>9, ClientSpare
<1>11. Comes(q) => Comes(hc)
  BY <1>1, <1>9, ComesLater
<1>12. NoQuit(n.out) /\ n.out \in Seq(ToHost)
  <2>1. << >> \in Seq(ToHost) /\ NoQuit(<< >>)
    BY DEF NoQuit
  <2> QED BY <1>6, <2>1
<1>13. Turning(h, e, q, p, g)
  <2>1. TakesTurn(c, n, hc, g) /\ SameClient(e, n)
    BY <1>7, <1>8, <1>10, <1>12 DEF TakesTurn, SameClient
  <2> QED BY <1>1, <1>11, <2>1, ClientTurns
<1> QED BY <1>9, <1>13

\* A message is delivered.
LEMMA DeliveredInTurn == ASSUME DuelInv, TurnInv, NEW r \in Roles, Deliver(r) PROVE TurnInv'
<1>1. /\ InOrder(con[Host], con[Client], net[Client], net[Host], gone)
      /\ con[Host].role = Host /\ con[Client].role = Client /\ net[r] # << >>
      /\ con[Host].over \in BOOLEAN /\ con[Client].over \in BOOLEAN /\ Running(r)
  BY DuelSays, ClientFields DEF Deliver, HostOK, HostShape
<1>2. DOMAIN con = Roles /\ DOMAIN net = Roles /\ Host \in Roles /\ Client \in Roles /\ Host # Client
  BY DEF DuelInv, Roles, Host, Client
<1>3. PICK n : n = Receive(con[r], Head(net[r]))
  OBVIOUS
<1>4. /\ con' = [con EXCEPT ![r] = Spare(n)] /\ gone' = gone
      /\ net' = [net EXCEPT ![r] = Tail(@), ![Peer(r)] = Posted(Peer(r), n.out)]
  BY <1>3 DEF Deliver
<1>5. CASE r = Host
  <2>1. /\ n = HostReceives(con[Host], Head(net[Host])) /\ Host \notin gone /\ net[Host] # << >>
        /\ con[Host].over = FALSE
    BY <1>1, <1>3, <1>5, DuelSays DEF Receive, Running
  <2>2. PICK q : q = Sent(Client, gone, net[Client], n.out)
    OBVIOUS
  <2>3. DOMAIN n = Fields
    <3>1. PICK e : e = Spare(n)
      OBVIOUS
    <3>2. InOrder(e, con[Client], q, Tail(net[Host]), gone)
      BY <1>1, <2>1, <2>2, <3>1, HostHears
    <3>3. DOMAIN e = Fields
      BY <3>2 DEF InOrder, HostOK, HostShape
    <3> QED BY <3>1, <3>3 DEF Spare
  <2>4. Turning(Spare(n), con[Client], q, Tail(net[Host]), gone)
    BY <1>1, <2>1, <2>2, <2>3, HostHearsInTurn DEF TurnInv
  <2>5. Peer(r) = Client
    BY <1>5 DEF Peer
  <2>6. /\ con'[Host] = Spare(n) /\ con'[Client] = con[Client]
        /\ net'[Host] = Tail(net[Host]) /\ net'[Client] = Posted(Client, n.out)
    BY <1>2, <1>4, <1>5, <2>5
  <2>7. net'[Client] = q
    BY <2>2, <2>6 DEF Posted, Sent
  <2> QED BY <1>4, <2>4, <2>6, <2>7 DEF TurnInv
<1>6. CASE r = Client
  <2>1. /\ n = ClientReceives(con[Client], Head(net[Client])) /\ net[Client] # << >>
        /\ con[Client].over = FALSE
    BY <1>1, <1>2, <1>3, <1>6 DEF Receive, Running
  <2>2. PICK p : p = Sent(Host, gone, net[Host], n.out)
    OBVIOUS
  <2>3. Turning(con[Host], Spare(n), Tail(net[Client]), p, gone)
    BY <1>1, <2>1, <2>2, ClientHearsInTurn DEF TurnInv
  <2>4. Peer(r) = Host
    BY <1>2, <1>6 DEF Peer
  <2>5. /\ con'[Client] = Spare(n) /\ con'[Host] = con[Host]
        /\ net'[Client] = Tail(net[Client]) /\ net'[Host] = Posted(Host, n.out)
    BY <1>2, <1>4, <1>6, <2>4
  <2>6. net'[Host] = p
    BY <2>2, <2>5 DEF Posted, Sent
  <2> QED BY <1>4, <2>3, <2>5, <2>6 DEF TurnInv
<1> QED BY <1>5, <1>6 DEF Roles

\* The client says hello.
LEMMA SaidInTurn == ASSUME DuelInv, TurnInv, SayHello PROVE TurnInv'
<1> DEFINE h == con[Host]
           c == con[Client]
<1>1. PICK n : n = Send(c, [type |-> "HELLO"])
  OBVIOUS
<1>2. ClientOK(c) /\ c.out = << >> /\ c.over = FALSE /\ net[Host] \in Seq(ToHost) /\ Become(Client, n)
  <2>1. ClientOK(c) /\ c.over \in BOOLEAN /\ Running(Client)
    BY DuelSays, ClientFields DEF SayHello
  <2> QED BY <1>1, <2>1 DEF SayHello, Running, DuelInv, InOrder, Wires
<1>3. /\ ClientStep(c, n) /\ n.out = Append(c.out, [type |-> "HELLO"]) /\ [type |-> "HELLO"] \in ToHost
      /\ n.over = c.over
  BY <1>1, <1>2, ClientGreets, ClientFields DEF Send, Fields
<1>4. ClientOK(n) /\ Copy(n) = Copy(c)
  BY <1>3 DEF ClientStep
<1>5. NoQuit(n.out) /\ n.out \in Seq(ToHost)
  BY <1>2, <1>3, OneNoQuit
<1>6. PICK e, p, hc, ch : /\ e = Spare(n) /\ p = Sent(Host, gone, ch, n.out)
                          /\ hc = net[Client] /\ ch = net[Host] /\ ch \in Seq(ToHost)
  BY <1>2
<1>7. Copy(e) = Copy(n) /\ e.over = n.over /\ e.tag = n.tag
  BY <1>4, <1>6, ClientSpare
<1>8. con'[Client] = e /\ con'[Host] = h /\ net'[Client] = hc /\ gone' = gone /\ net'[Host] = p
  BY <1>2, <1>6, AfterClient
<1>9. Turning(h, c, hc, ch, gone)
  BY <1>6 DEF TurnInv
<1> HIDE DEF h, c
<1>10. Turning(h, e, hc, p, gone)
  <2>1. TakesTurn(c, n, hc, gone) /\ SameClient(e, n)
    BY <1>2, <1>3, <1>4, <1>5, <1>7 DEF TakesTurn, SameClient
  <2>2. c.over = FALSE
    BY <1>2
  <2> QED BY <1>6, <1>9, <2>1, <2>2, ClientTurns
<1> QED BY <1>8, <1>10 DEF TurnInv

\* A farewell is no farewell of the player's.
LEMMA FarewellIsNoQuit ==
  ASSUME NEW ch \in Seq(ToHost)
  PROVE  NoMoreQuits(ch \o <<StateMsg("EXIT")>>, ch) /\ NoMoreQuits(<< >>, ch) /\ NoMoreQuits(ch, ch)
<1>1. PICK w : w = <<StateMsg("EXIT")>>
  OBVIOUS
<1>2. PICK S : S = ToHost \cup {StateMsg("EXIT")}
  OBVIOUS
<1>3. w \in Seq(S) /\ ch \in Seq(S) /\ Len(w) = 1 /\ w[1] = StateMsg("EXIT")
  BY <1>1, <1>2
<1>4. NoQuit(w)
  BY <1>3 DEF NoQuit, StateMsg
<1>5. NoMoreQuits(ch \o w, ch)
  BY <1>3, <1>4, QuitJoined DEF NoMoreQuits
<1>6. Len(<< >>) = 0
  OBVIOUS
<1> QED BY <1>1, <1>5, <1>6 DEF NoMoreQuits

\* A program leaves.
LEMMA LeavesInTurn == ASSUME DuelInv, TurnInv, NEW r \in Roles, Leave(r) PROVE TurnInv'
<1> DEFINE h == con[Host]
           c == con[Client]
<1>1. DOMAIN net = Roles /\ Host \in Roles /\ Client \in Roles /\ Host # Client /\ net[Host] \in Seq(ToHost)
      /\ h.over \in BOOLEAN /\ c.over \in BOOLEAN /\ Turning(h, c, net[Client], net[Host], gone)
  BY DuelSays, ClientFields DEF DuelInv, InOrder, Wires, Roles, Host, Client, HostOK, HostShape, TurnInv
<1>2. /\ con[r].over /\ r \notin gone /\ gone' = gone \cup {r} /\ con' = con
      /\ net' = [net EXCEPT ![r] = << >>, ![Peer(r)] = Posted(Peer(r), <<StateMsg("EXIT")>>)]
  BY DEF Leave
<1>3. h.over = TRUE \/ c.over = TRUE
  BY <1>1, <1>2 DEF Roles
<1>4. NoMoreQuits(net'[Host], net[Host])
  <2>1. CASE r = Host
    <3>1. net'[Host] = << >>
      BY <1>1, <1>2, <2>1 DEF Peer
    <3> QED BY <1>1, <3>1, FarewellIsNoQuit
  <2>2. CASE r = Client
    <3>1. net'[Host] = Posted(Host, <<StateMsg("EXIT")>>)
      BY <1>1, <1>2, <2>2 DEF Peer
    <3>2. net'[Host] = << >> \/ net'[Host] = net[Host] \o <<StateMsg("EXIT")>>
      BY <3>1 DEF Posted
    <3> QED BY <1>1, <3>2, FarewellIsNoQuit
  <2> QED BY <2>1, <2>2 DEF Roles
<1>5. PICK p, g : p = net'[Host] /\ g = gone' /\ gone \subseteq g
  BY <1>2
<1> HIDE DEF h, c
<1>6. Ending(h, c, p, g)
  BY <1>1, <1>4, <1>5 DEF Turning, Ending, NoMoreQuits
<1>7. Prompt(h, c, net'[Client])
  BY <1>3 DEF Prompt
<1>8. con'[Host] = h /\ con'[Client] = c
  BY <1>2 DEF h, c
<1> QED BY <1>5, <1>6, <1>7, <1>8 DEF TurnInv, Turning

\* Timer interrupts on both machines, with nothing on the cable.
LEMMA BothTickInTurn == ASSUME DuelInv, TurnInv, TicksPerSec > 1, TickTogether PROVE TurnInv'
<1>1. /\ InOrder(con[Host], con[Client], net[Client], net[Host], gone)
      /\ HostOK(con[Host]) /\ ClientOK(con[Client]) /\ net[Host] \in Seq(ToHost)
      /\ con[Host].over \in BOOLEAN /\ con[Client].over \in BOOLEAN
      /\ Running(Client) => net[Client] = << >>
  BY DuelSays, ClientFields DEF TickTogether, InOrder, Wires, HostOK, HostShape, Roles
<1>2. DOMAIN con = Roles /\ DOMAIN net = Roles /\ Host \in Roles /\ Client \in Roles /\ Host # Client
  BY DEF DuelInv, Roles, Host, Client
<1>3. PICK h \in Tick(con[Host]), c \in Tick(con[Client]) :
        /\ con' = [r \in Roles |-> IF ~Running(r) THEN con[r] ELSE Spare(IF r = Host THEN h ELSE c)]
        /\ net' = [net EXCEPT ![Client] = IF Running(Host) THEN Posted(Client, h.out) ELSE @,
                              ![Host]   = IF Running(Client) THEN Posted(Host, c.out) ELSE @]
        /\ gone' = gone
  BY DEF TickTogether
<1> DEFINE h1 == IF Running(Host) THEN Spare(h) ELSE con[Host]
           q1 == IF Running(Host) THEN Posted(Client, h.out) ELSE net[Client]
           c1 == IF Running(Client) THEN Spare(c) ELSE con[Client]
           p1 == IF Running(Client) THEN Posted(Host, c.out) ELSE net[Host]
<1>4. Turning(h1, con[Client], q1, net[Host], gone)
  <2>1. CASE ~Running(Host)
    BY <2>1 DEF TurnInv
  <2>2. CASE Running(Host)
    <3>1. PICK q : q = Sent(Client, gone, net[Client], h.out)
      OBVIOUS
    <3>2. con[Host].over = FALSE /\ (con[Client].over = FALSE => net[Client] = << >>)
      BY <1>1, <2>2 DEF Running
    <3>3. Turning(Spare(h), con[Client], q, net[Host], gone)
      BY <1>1, <3>1, <3>2, HostTicksInTurn DEF TurnInv
    <3> QED BY <2>2, <3>1, <3>3 DEF Posted, Sent
  <2> QED BY <2>1, <2>2
<1>5. Turning(h1, c1, q1, p1, gone)
  <2> HIDE DEF h1, q1
  <2>1. CASE ~Running(Client)
    BY <1>4, <2>1
  <2>2. CASE Running(Client)
    <3>1. c = Animate(con[Client]) /\ ClientStep(con[Client], c) /\ c.out = con[Client].out
      BY <1>1, ClientTicks
    <3>2. ClientOK(c) /\ Copy(c) = Copy(con[Client]) /\ c.out = << >>
      BY <1>1, <3>1 DEF ClientStep, InOrder, Wires
    <3>3. c.over = FALSE
      <4>1. DOMAIN con[Client] = Fields
        BY <1>1, ClientFields
      <4>2. c = con[Client] \/ Keeps(con[Client], c, {"expl", "eticks", "done"})
        BY <3>1, <4>1, AnimateDoes
      <4>3. c.over = con[Client].over
        BY <4>2 DEF Keeps, Fields
      <4> QED BY <1>1, <2>2, <4>3 DEF Running
    <3>4. PICK e, p : e = Spare(c) /\ p = Sent(Host, gone, net[Host], c.out)
      OBVIOUS
    <3>5. SameClient(e, c)
      BY <3>2, <3>4, ClientSpare DEF SameClient
    <3>6. TakesTurn(con[Client], c, q1, gone)
      <4>1. NoQuit(<< >>) /\ << >> \in Seq(ToHost)
        BY DEF NoQuit
      <4> QED BY <3>2, <3>3, <4>1 DEF TakesTurn
    <3>7. con[Client].over = FALSE
      BY <1>1, <2>2 DEF Running
    <3>8. Turning(h1, e, q1, p, gone)
      BY <1>1, <1>4, <3>4, <3>5, <3>6, <3>7, ClientTurns
    <3> QED BY <2>2, <3>4, <3>8 DEF Posted, Sent
  <2> QED BY <2>1, <2>2
<1>6. con'[Host] = h1 /\ con'[Client] = c1
  BY <1>2, <1>3
<1>7. net'[Client] = q1 /\ net'[Host] = p1
  BY <1>2, <1>3
<1> HIDE DEF h1, q1, c1, p1
<1> QED BY <1>3, <1>5, <1>6, <1>7 DEF TurnInv

\* Every step leaves the turns in order.
LEMMA TurnsGoOn == ASSUME Timely, TicksPerSec > 1, DuelInv, TurnInv, [Next]_vars PROVE TurnInv'
<1>1. CASE Next
  <2>1. ASSUME NEW r \in Roles, Player(r) PROVE TurnInv'
    <3>1. r = Host \/ r = Client
      BY DEF Roles
    <3> QED BY <2>1, <3>1, HostPlaysInTurn, ClientPlaysInTurn
  <2>2. ASSUME NEW r \in Roles, Machine(r) PROVE TurnInv'
    <3>1. ~TickAlone(r)
      BY DEF TickAlone
    <3> QED BY <2>2, <3>1, DeliveredInTurn, LeavesInTurn DEF Machine
  <2>3. CASE SayHello
    BY <2>3, SaidInTurn
  <2>4. CASE TickTogether
    BY <2>4, BothTickInTurn
  <2> QED BY <1>1, <2>1, <2>2, <2>3, <2>4 DEF Next
<1>2. CASE UNCHANGED vars
  BY <1>2 DEF vars, TurnInv
<1> QED BY <1>1, <1>2

\* Before a game nobody has a turn.
LEMMA TurnsBegin == ASSUME Init PROVE TurnInv
<1>1. PICK h, c : h = Fresh(Host) /\ c = Fresh(Client)
  OBVIOUS
<1>2. con[Host] = h /\ con[Client] = c /\ net[Host] = << >> /\ net[Client] = << >>
  BY <1>1 DEF Init, Roles, Host, Client
<1>3. h.over = FALSE /\ c.over = FALSE /\ h.tag = "MAIN_MENU"
  BY <1>1 DEF Fresh
<1>4. Len(<< >>) = 0
  OBVIOUS
<1>5. HostAt(h) \in Yielding
  BY <1>3 DEF HostAt, Screen, Lobby, Yielding
<1> QED BY <1>2, <1>3, <1>4, <1>5 DEF TurnInv, Turning, Ending, Prompt

\* Two players on their own machines can never fire at the same time, if both clocks
\* tick together, messages arrive within a tick and the handover is longer than one.
THEOREM DuelOneShooter == ASSUME Timely, TicksPerSec > 1 PROVE Spec => []OneShooter
<1>1. ASSUME DuelInv, TurnInv PROVE OneShooter
  <2> SUFFICES ASSUME CanFire(HostView), CanFire(ClientView) PROVE FALSE
    BY DEF OneShooter
  <2> DEFINE h == con[Host]
             c == con[Client]
  <2>1. HostOK(h) /\ ClientOK(c) /\ h.role = Host /\ c.role = Client /\ Host # Client
        /\ h.over \in BOOLEAN /\ c.over \in BOOLEAN
        /\ Wires(h, c, net[Client], net[Host], gone)
    BY <1>1, DuelSays, ClientFields DEF InOrder, HostOK, HostShape, Host, Client
  <2>2. h.tag = "TURN_P1" /\ c.tag = "TURN_P2"
    BY <2>1 DEF CanFire, OwnsTurn, HostView, ClientView
  <2> HIDE DEF h, c
  <2>3. Ending(h, c, net[Host], gone) /\ Prompt(h, c, net[Client])
    BY <1>1 DEF TurnInv, Turning, h, c
  <2>4. h.over = FALSE /\ c.over = FALSE
    BY <2>1, <2>2, <2>3 DEF Ending, Parting, Wires
  <2>5. ClientAt(c) = "TURN_P2" /\ HostAt(h) = "TURN_P1"
    BY <2>2 DEF ClientAt, HostAt, Screen, Lobby
  <2>6. Copy(c).at = "TURN_P2"
    BY <2>1, <2>5, ClientWhere
  <2> QED BY <2>3, <2>4, <2>5, <2>6 DEF Prompt, Yielding
<1>2. Init => TurnInv
  BY TurnsBegin
<1>3. DuelInv /\ TurnInv /\ [Next]_vars => TurnInv'
  BY TurnsGoOn
<1> QED BY <1>1, <1>2, <1>3, DuelStaysInOrder, PTL DEF Spec

----------------------------------------------------------------------------
(* Who has won                                                             *)

\* A shot of the client is on its way to the host.
Asking(q) == \E i \in 1 .. Len(q) : q[i].type = "ATTACK"
OneShot(q) == \A i, j \in 1 .. Len(q) : q[i].type = "ATTACK" /\ q[j].type = "ATTACK" => i = j

\* The client shows a shot of its own as it shows all of them, as a miss.
Blasts(c) == c.tag = "TURN_P2" /\ c.expl = "blast" /\ c.ishit = FALSE

\* Where the client is while its turn lasts on the host.
InItsTurn(h, c, hc, ch) ==
  \/ Screen(c) = "TURN_P2" /\ (hc = << >> \/ \E msg \in ToClient : msg.type = "RESULT" /\ hc = <<msg>>)
  \/ c.tag = "HANDOVER_P2" /\ hc = <<StateMsg("TURN_P2")>> /\ ~Untold(h) /\ ~Asking(ch)

\* A shot of the client is shown by both programs at once; when the host comes to read
\* a hit, the client has the splash still before it.
Shooting(h, c, hc, ch) ==
  h.tag = "TURN_P2" =>
    /\ InItsTurn(h, c, hc, ch) /\ OneShot(ch)
    /\ Asking(ch) => Blasts(c) /\ c.eticks = 0 /\ Settled(h)
    /\ h.expl = "blast" => Blasts(c) /\ c.eticks = h.eticks
    /\ h.done /\ h.ishit => c.tag = "TURN_P2" /\ c.expl = "splash" /\ c.eticks = 0

\* The end of a game is on its way to the client.
Ended(w) == [type |-> "WINNER", winner |-> w]
Verdict(w, word, hc) ==
  \/ \E msg \in ToClient : msg.type = "RESULT" /\ hc = <<msg, Ended(w), StateMsg("GAME_OVER")>>
  \/ hc = <<Ended(w), StateMsg("GAME_OVER")>>
  \/ hc = <<StateMsg("GAME_OVER")>> /\ word = w

\* A client that will be told who has won cannot open its menu, whose line shares a
\* word with the winner.
Crowned(h, c, hc) ==
  h.tag = "GAME_OVER" =>
    \/ c.tag = "GAME_OVER" /\ c.word = h.word
    \/ c.tag \in Lobby \ {"GAME_OVER"}
    \/ (c.tag = "TURN_P1" \/ (c.tag = "TURN_P2" /\ Exploding(c))) /\ Verdict(h.word, c.word, hc)

\* The host's fleet is gone only by a hit that is still to be read.
Unbeaten(h) ==
  /\ h.expl \in {"none", "blast", "splash"} /\ h.ishit \in BOOLEAN /\ (h.expl = "splash" => h.ishit = FALSE)
  /\ Screen(h) \in Fighting /\ AllSunk(h.p1) =>
       h.tag = "TURN_P2" /\ (h.expl = "blast" \/ h.done) /\ h.ishit

\* The invariant of the winner, while both programs run.
Deciding(h, c, hc, ch) ==
  /\ Unbeaten(h)
  /\ h.over = FALSE /\ c.over = FALSE => Shooting(h, c, hc, ch) /\ Crowned(h, c, hc)

WinInv == Deciding(con[Host], con[Client], net[Client], net[Host])

\* A fleet nobody has shot at is afloat.
LEMMA Afloat ==
  ASSUME NEW b, Good(b), ShotOn(b) = {}
  PROVE  ~AllSunk(b)
<1> SUFFICES ASSUME AllSunk(b) PROVE FALSE
  OBVIOUS
<1>1. 1 \in Ids(b) /\ Gone(b, 1)
  BY LossIsCounted, NumShipsType DEF Ids
<1>2. b.ships[1].cells = {} /\ Cardinality(b.ships[1].cells) = b.ships[1].size
  BY <1>1 DEF Gone, Good, Whole
<1>3. b.ships[1].size # 0
  BY <1>1, RecordFields DEF Good
<1> QED BY <1>2, <1>3, FS_EmptySet

\* The last ship goes down by a hit.
LEMMA LossIsAHit ==
  ASSUME NEW b, Good(b), NEW x \in Cells, ~AlreadyAttacked(b, x), ~AllSunk(b),
         NEW c, c = Attack(b, x), AllSunk(c)
  PROVE  c.grid[x] \in {"hit", "sunk"}
<1>1. b.grid[x] = "ship"
  <2> SUFFICES ASSUME b.grid[x] # "ship" PROVE FALSE
    OBVIOUS
  <2>1. BoardType(b)
    BY DEF Good
  <2>2. c.sunk = b.sunk
    BY <2>1, MissEffect
  <2> QED BY <2>2 DEF AllSunk
<1>2. PICK k \in Ids(b) : x \in b.ships[k].cells /\ ~b.ships[k].sunk /\ Struck(b, x) = {k}
  BY <1>1, ShipStruck
<1> QED BY <1>1, <1>2, StrikeEffect DEF Good

----------------------------------------------------------------------------
(* The host's player                                                       *)

\* A step away from the client's turn that leaves the fleet and the explosion alone.
LEMMA UnbeatenStays ==
  ASSUME NEW h, Unbeaten(h), h.tag # "TURN_P2", NEW n, n.ishit = h.ishit, n.expl = h.expl,
         Screen(n) \in Fighting => Screen(h) \in Fighting /\ n.p1 = h.p1
  PROVE  Unbeaten(n)
  BY DEF Unbeaten

\* So does one to a screen without a fight.
LEMMA UnbeatenAtPeace ==
  ASSUME NEW h, Unbeaten(h), NEW n, n.ishit = h.ishit, n.expl = h.expl, Screen(n) \notin Fighting
  PROVE  Unbeaten(n)
  BY DEF Unbeaten

\* Renderers at rest.
LEMMA UnbeatenAtRest ==
  ASSUME NEW n, n.expl = "none", n.ishit = FALSE, Screen(n) \notin Fighting
  PROVE  Unbeaten(n)
  BY DEF Unbeaten

\* A player of the host is not where the client's turn or the end of a game begins.
Elsewhere(n) == n.over = TRUE \/ n.tag \notin {"TURN_P2", "GAME_OVER"}

\* What the player of the host does.
LEMMA HostPlayerWins ==
  ASSUME DuelInv, Unbeaten(con[Host]), Player(Host)
  PROVE  \E n : Become(Host, n) /\ DOMAIN n = Fields /\ Unbeaten(n) /\ Elsewhere(n)
<1> DEFINE h == con[Host]
<1>1. HostOK(h) /\ h.role = Host /\ DOMAIN h = Fields /\ Unbeaten(h)
  BY DuelSays DEF HostOK, HostShape
<1>2. h.tag = "PAUSED" => h.prev \in {"PLACE_SHIPS_P1", "TURN_P1"}
  BY <1>1 DEF HostOK, HostScreens
<1>3. CASE Menu(Host)
  <2>1. PICK option \in 1 .. 3 : Become(Host, MenuChoose(h, option))
    BY <1>3 DEF Menu
  <2>2. h.tag = "MAIN_MENU"
    BY <1>3 DEF Menu
  <2>3. PICK n : n = MenuChoose(h, option)
    OBVIOUS
  <2>4. CASE option = 1
    <3>1. n = StartMulti(h)
      BY <2>3, <2>4 DEF MenuChoose
    <3>2. DOMAIN n = Fields /\ n.expl = "none" /\ n.ishit = FALSE /\ n.tag = "WAITING_CONNECT"
      BY <1>1, <3>1 DEF StartMulti, NewGame, CalmRenderer, ClearBoards, Transition, Fields
    <3>3. Unbeaten(n)
      BY <3>2, UnbeatenAtRest DEF Screen, Fighting
    <3> QED BY <2>1, <2>3, <3>2, <3>3 DEF Elsewhere
  <2>5. CASE option = 2
    <3>1. n = Transition(h, "INSTRUCTIONS")
      BY <2>3, <2>5 DEF MenuChoose
    <3>2. DOMAIN n = Fields /\ n.ishit = h.ishit /\ n.expl = h.expl /\ n.tag = "INSTRUCTIONS"
      BY <1>1, <3>1 DEF Transition, Fields
    <3>3. Unbeaten(n)
      BY <1>1, <3>2, UnbeatenAtPeace DEF Screen, Fighting
    <3> QED BY <2>1, <2>3, <3>2, <3>3 DEF Elsewhere
  <2>6. CASE option = 3
    <3>1. n = [h EXCEPT !.over = TRUE]
      BY <1>1, <2>3, <2>6 DEF MenuChoose, Quit, Host, Client
    <3>2. DOMAIN n = Fields /\ n.ishit = h.ishit /\ n.expl = h.expl /\ n.tag = "MAIN_MENU" /\ n.over = TRUE
      BY <1>1, <2>2, <3>1 DEF Fields
    <3>3. Unbeaten(n)
      BY <1>1, <3>2, UnbeatenAtPeace DEF Screen, Fighting
    <3> QED BY <2>1, <2>3, <3>2, <3>3 DEF Elsewhere
  <2> QED BY <2>4, <2>5, <2>6
<1>4. CASE LeaveInstructions(Host)
  <2>1. PICK n : n = Transition(h, "MAIN_MENU")
    OBVIOUS
  <2>2. DOMAIN n = Fields /\ n.ishit = h.ishit /\ n.expl = h.expl /\ n.tag = "MAIN_MENU"
    BY <1>1, <2>1 DEF Transition, Fields
  <2>3. Unbeaten(n)
    BY <1>1, <2>2, UnbeatenAtPeace DEF Screen, Fighting
  <2> QED BY <1>4, <2>1, <2>2, <2>3 DEF Elsewhere, LeaveInstructions
<1>5. CASE Place(Host)
  <2>1. PICK cells \in Footprints(ShipSizes[h.idx + 1]) : Become(Host, PutShip(h, cells))
    BY <1>5 DEF Place
  <2>2. h.tag = "PLACE_SHIPS_P1"
    <3>1. h.tag # "PLACE_SHIPS_P2"
      BY <1>1 DEF HostOK, HostScreens
    <3> QED BY <1>1, <1>5, <3>1 DEF Place, PlacesByKey, PlacesByMouse
  <2>3. PICK n : n = PutShip(h, cells)
    OBVIOUS
  <2>4. \/ n = h
        \/ Keeps(h, n, {"p1", "idx"})
        \/ Keeps(h, n, {"p1", "idx", "tag", "prev", "clicked", "out"}) /\ n.tag = "PLACE_SHIPS_WAITING"
    BY <1>1, <2>2, <2>3, PutShipDoes
  <2>5. DOMAIN n = Fields /\ n.ishit = h.ishit /\ n.expl = h.expl /\ n.tag \in {"PLACE_SHIPS_P1", "PLACE_SHIPS_WAITING"}
    BY <1>1, <2>2, <2>4 DEF Keeps, Fields
  <2>6. Unbeaten(n)
    BY <1>1, <2>5, UnbeatenAtPeace DEF Screen, Fighting
  <2> QED BY <2>1, <2>3, <2>5, <2>6 DEF Elsewhere
<1>6. CASE Fire(Host)
  <2>1. PICK x \in Cells : Become(Host, FireAt(h, x))
    BY <1>6 DEF Fire
  <2>2. h.tag = "TURN_P1"
    BY <1>1, <1>6 DEF Fire, CanFire, OwnsTurn
  <2>3. PICK n : n = FireAt(h, x)
    OBVIOUS
  <2>4. CASE n = h
    BY <1>1, <2>1, <2>2, <2>3, <2>4 DEF Elsewhere
  <2>5. CASE n # h
    <3>1. n = Resolve(h, x)
      BY <1>1, <2>3, <2>5 DEF FireAt
    <3>2. Resolved(h, x, n)
      BY <1>1, <3>1, ResolveDoes
    <3>3. DOMAIN n = Fields /\ n.tag = h.tag /\ n.prev = h.prev /\ n.expl = "blast" /\ n.p1 = h.p1
      BY <2>2, <3>2 DEF Resolved, Keeps, Fields
    <3>4. n.ishit \in BOOLEAN
      <4>1. PICK b, m : b = Attack(Target(h), x) /\ m = SetTarget(h, b)
        OBVIOUS
      <4>2. DOMAIN m = Fields
        BY <1>1, <4>1 DEF SetTarget, Fields
      <4>3. PICK hit : hit = (b.grid[x] \in {"hit", "sunk"})
        OBVIOUS
      <4>4. n = Explode(m, x, hit)
        BY <3>1, <4>1, <4>3 DEF Resolve
      <4>5. n.ishit = hit
        BY <4>2, <4>4 DEF Explode, Fields
      <4> QED BY <4>3, <4>5
    <3>5. ~AllSunk(h.p1)
      BY <1>1, <2>2 DEF Unbeaten, Screen, Fighting
    <3>6. Unbeaten(n)
      BY <3>3, <3>4, <3>5 DEF Unbeaten
    <3> QED BY <2>1, <2>2, <2>3, <3>3, <3>6 DEF Elsewhere
  <2> QED BY <2>4, <2>5
<1>7. CASE Pause(Host)
  <2>1. Become(Host, Transition(h, "PAUSED")) /\ (PlacesByKey(h) \/ CanFire(h))
    BY <1>7 DEF Pause
  <2>2. h.tag \in {"PLACE_SHIPS_P1", "PLACE_SHIPS_P2", "TURN_P1"}
    BY <1>1, <2>1 DEF PlacesByKey, CanFire, OwnsTurn
  <2>3. PICK n : n = Transition(h, "PAUSED")
    OBVIOUS
  <2>4. DOMAIN n = Fields /\ n.ishit = h.ishit /\ n.expl = h.expl /\ n.tag = "PAUSED" /\ n.prev = h.tag /\ n.p1 = h.p1
    BY <1>1, <2>3 DEF Transition, Fields
  <2>5. Screen(n) = h.tag /\ Screen(h) = h.tag
    BY <2>2, <2>4 DEF Screen
  <2>6. Unbeaten(n)
    BY <1>1, <2>2, <2>4, <2>5, UnbeatenStays
  <2> QED BY <2>1, <2>3, <2>4, <2>6 DEF Elsewhere
<1>8. CASE PauseEnter(Host)
  <2>1. PICK option \in 0 .. 1 : Become(Host, PauseChoose(h, option))
    BY <1>8 DEF PauseEnter
  <2>2. h.tag = "PAUSED"
    BY <1>8 DEF PauseEnter
  <2>3. PICK n : n = PauseChoose(h, option)
    OBVIOUS
  <2>4. CASE option = 0
    <3>1. n = Transition(h, h.prev)
      BY <2>3, <2>4 DEF PauseChoose
    <3>2. DOMAIN n = Fields /\ n.ishit = h.ishit /\ n.expl = h.expl /\ n.tag = h.prev /\ n.p1 = h.p1
      BY <1>1, <3>1 DEF Transition, Fields
    <3>3. Screen(n) = h.prev /\ Screen(h) = h.prev
      BY <1>2, <2>2, <3>2 DEF Screen
    <3>4. Unbeaten(n)
      BY <1>1, <2>2, <3>2, <3>3, UnbeatenStays
    <3> QED BY <1>2, <2>1, <2>2, <2>3, <3>2, <3>4 DEF Elsewhere
  <2>5. CASE option # 0
    <3>1. n = [h EXCEPT !.over = TRUE]
      BY <1>1, <2>3, <2>5 DEF PauseChoose, Quit, Host, Client
    <3>2. DOMAIN n = Fields /\ n.ishit = h.ishit /\ n.expl = h.expl /\ n.tag = h.tag /\ n.prev = h.prev
          /\ n.p1 = h.p1 /\ n.over = TRUE
      BY <1>1, <3>1 DEF Fields
    <3>3. Screen(n) = Screen(h)
      BY <3>2 DEF Screen
    <3>4. Unbeaten(n)
      BY <1>1, <2>2, <3>2, <3>3, UnbeatenStays
    <3> QED BY <2>1, <2>3, <3>2, <3>4 DEF Elsewhere
  <2> QED BY <2>4, <2>5
<1>9. CASE PauseArrow(Host)
  <2>1. h.tag = "PAUSED" /\ Become(Host, Arrow(h, "down"))
    BY <1>9 DEF PauseArrow
  <2>2. PICK n : n = Arrow(h, "down")
    OBVIOUS
  <2>3. DOMAIN n = Fields /\ n.ishit = h.ishit /\ n.expl = h.expl /\ n.tag = h.tag /\ n.prev = h.prev /\ n.p1 = h.p1
    BY <1>1, <2>2 DEF Arrow, Fields
  <2>4. Screen(n) = Screen(h)
    BY <2>3 DEF Screen
  <2>5. Unbeaten(n)
    BY <1>1, <2>1, <2>3, <2>4, UnbeatenStays
  <2> QED BY <2>1, <2>2, <2>3, <2>5 DEF Elsewhere
<1>10. CASE GameOverEnter(Host)
  <2>1. PICK n, k : n = Rematch(h) /\ k = [CalmRenderer(ClearBoards(h)) EXCEPT !.word = 0]
    OBVIOUS
  <2>2. DOMAIN k = Fields /\ k.expl = "none" /\ k.ishit = FALSE
    BY <1>1, <2>1 DEF CalmRenderer, ClearBoards, Fields
  <2>3. n = Send(Transition(k, "MAIN_MENU"), StateMsg("MAIN_MENU"))
    BY <2>1 DEF Rematch
  <2>4. DOMAIN n = Fields /\ n.expl = "none" /\ n.ishit = FALSE /\ n.tag = "MAIN_MENU"
    BY <2>2, <2>3 DEF Send, Transition, Fields
  <2>5. Unbeaten(n)
    BY <2>4, UnbeatenAtRest DEF Screen, Fighting
  <2> QED BY <1>10, <2>1, <2>4, <2>5 DEF Elsewhere, GameOverEnter
<1>11. CASE GameOverEsc(Host)
  <2>1. PICK n : n = [h EXCEPT !.over = TRUE]
    OBVIOUS
  <2>2. h.tag = "GAME_OVER" /\ Become(Host, n)
    BY <1>11, <2>1 DEF GameOverEsc
  <2>3. DOMAIN n = Fields /\ n.ishit = h.ishit /\ n.expl = h.expl /\ n.tag = "GAME_OVER" /\ n.over = TRUE
    BY <1>1, <2>1, <2>2 DEF Fields
  <2>4. Unbeaten(n)
    BY <1>1, <2>3, UnbeatenAtPeace DEF Screen, Fighting
  <2> QED BY <2>2, <2>3, <2>4 DEF Elsewhere
<1> QED BY <1>3, <1>4, <1>5, <1>6, <1>7, <1>8, <1>9, <1>10, <1>11 DEF Player

\* What a program has said has no part in this.
LEMMA UnbeatenSpare ==
  ASSUME NEW n, DOMAIN n = Fields, Unbeaten(n), NEW e, e = Spare(n)
  PROVE  Unbeaten(e) /\ e.tag = n.tag /\ e.over = n.over
<1>1. \A f \in Fields \ {"out"} : e[f] = n[f]
  BY DEF Spare, Fields
<1>2. /\ e.tag = n.tag /\ e.over = n.over /\ e.prev = n.prev /\ e.p1 = n.p1
      /\ e.expl = n.expl /\ e.ishit = n.ishit /\ e.done = n.done
  BY <1>1 DEF Fields
<1> QED BY <1>2 DEF Unbeaten, Screen

\* The host's player decides nothing.
LEMMA HostPlaysOn == ASSUME DuelInv, WinInv, Player(Host) PROVE WinInv'
<1>1. Unbeaten(con[Host])
  BY DEF WinInv, Deciding
<1>2. PICK n : Become(Host, n) /\ DOMAIN n = Fields /\ Unbeaten(n) /\ Elsewhere(n)
  BY <1>1, HostPlayerWins
<1>3. PICK e : e = Spare(n)
  OBVIOUS
<1>4. Unbeaten(e) /\ Elsewhere(e)
  BY <1>2, <1>3, UnbeatenSpare DEF Elsewhere
<1>5. con'[Host] = e
  BY <1>2, <1>3, AfterHost
<1>6. Deciding(e, con'[Client], net'[Client], net'[Host])
  BY <1>4 DEF Deciding, Elsewhere, Shooting, Crowned
<1> QED BY <1>5, <1>6 DEF WinInv

----------------------------------------------------------------------------
(* The host's timer                                                        *)

\* A part of a tick that leaves the fleet and the explosion alone.
Quietly(n, c) ==
  c.p1 = n.p1 /\ c.expl = n.expl /\ c.eticks = n.eticks /\ c.ishit = n.ishit /\ HostOK(c)

\* The countdown is not about the client's turn.
LEMMA CountdownQuiet ==
  ASSUME NEW n, HostOK(n), NEW c, c = Countdown(n)
  PROVE  /\ Quietly(n, c) /\ c.done = n.done
         /\ c.tag \in {"TURN_P2", "HANDOVER_P2", "GAME_OVER"} => c = n
         /\ n.tag # "COUNTDOWN" => c = n
<1>1. HostOK(c)
  BY CountdownSteps DEF HostStep
<1>2. CASE c = n
  BY <1>1, <1>2 DEF Quietly
<1>3. CASE c # n
  <2>1. /\ n.tag = "COUNTDOWN"
        /\ \/ Keeps(n, c, {"cticks"})
           \/ Keeps(n, c, {"cticks", "secs", "out"})
           \/ Keeps(n, c, {"cticks", "secs", "word", "tag", "prev", "clicked", "out"}) /\ c.tag = "TURN_P1"
    BY <1>3, CountdownDoes
  <2>2. /\ c.p1 = n.p1 /\ c.expl = n.expl /\ c.eticks = n.eticks
        /\ c.ishit = n.ishit /\ c.done = n.done
    BY <2>1 DEF Keeps, Fields
  <2>3. c.tag \in {"COUNTDOWN", "TURN_P1"}
    BY <2>1 DEF Keeps, Fields
  <2> QED BY <1>1, <2>1, <2>2, <2>3 DEF Quietly
<1> QED BY <1>2, <1>3

\* A result is read once, and the end of the game with it.
LEMMA ResultQuiet ==
  ASSUME NEW n, HostOK(n), NEW c, c = Result(n)
  PROVE  \/ c = n /\ (n.tag \in Turns /\ n.done => n.waiting)
         \/ /\ Quietly(n, c) /\ n.tag \in Turns /\ n.done /\ ~n.waiting /\ c.done = FALSE
            /\ \/ c.tag = n.tag /\ c.out = Reported(n).out /\ ~AllSunk(Target(n))
               \/ /\ c.tag = "GAME_OVER" /\ AllSunk(Target(n)) /\ c.word = Shooter(n)
                  /\ c.out = Append(Append(Reported(n).out, Ended(c.word)), StateMsg("GAME_OVER"))
<1>1. HostOK(c) /\ DOMAIN n = Fields
  BY ResultSteps DEF HostStep, HostOK, HostShape
<1>2. CASE c = n /\ (n.tag \in Turns /\ n.done => n.waiting)
  BY <1>2
<1>3. CASE ~(c = n /\ (n.tag \in Turns /\ n.done => n.waiting))
  <2>1. n.tag \in Turns /\ n.done /\ ~n.waiting /\ Follows(n, c)
    BY <1>3, ResultDoes
  <2>2. PICK k : k = Reported(n)
    OBVIOUS
  <2>3. /\ k.done = FALSE /\ k.tag = n.tag /\ k.p1 = n.p1 /\ k.expl = n.expl /\ k.eticks = n.eticks
        /\ k.ishit = n.ishit
    BY <1>1, <2>2 DEF Reported, Fields
  <2>4. CASE AllSunk(Target(n))
    <3>1. /\ Keeps(k, c, {"word", "tag", "prev", "clicked", "out"})
          /\ c.word = Shooter(n) /\ c.tag = "GAME_OVER"
          /\ c.out = Append(Append(k.out, Ended(c.word)), StateMsg("GAME_OVER"))
      BY <2>1, <2>2, <2>4 DEF Follows, Ended
    <3>2. c.p1 = k.p1 /\ c.expl = k.expl /\ c.eticks = k.eticks /\ c.ishit = k.ishit /\ c.done = k.done
      BY <3>1 DEF Keeps, Fields
    <3> QED BY <1>1, <2>1, <2>2, <2>3, <2>4, <3>1, <3>2 DEF Quietly
  <2>5. CASE ~AllSunk(Target(n))
    <3>1. c = k \/ Keeps(k, c, {"waiting", "post"})
      BY <2>1, <2>2, <2>5 DEF Follows
    <3>2. /\ c.p1 = k.p1 /\ c.expl = k.expl /\ c.eticks = k.eticks /\ c.ishit = k.ishit /\ c.done = k.done
          /\ c.tag = k.tag /\ c.out = k.out
      BY <3>1 DEF Keeps, Fields
    <3> QED BY <1>1, <2>1, <2>2, <2>3, <2>5, <3>2 DEF Quietly
  <2> QED BY <2>4, <2>5
<1> QED BY <1>2, <1>3

\* The wait leads away from the turn, and to a handover of full length.
LEMMA PostAttackQuiet ==
  ASSUME NEW n, HostOK(n), NEW c, c = PostAttack(n)
  PROVE  /\ Quietly(n, c) /\ c.done = n.done
         /\ c.tag = "TURN_P2" => n.tag = "TURN_P2" /\ c.out = n.out
         /\ c.tag = "HANDOVER_P2" /\ c.cticks # 0 => c.tag = n.tag /\ c.out = n.out
         /\ c.tag = "GAME_OVER" => c.tag = n.tag /\ c.out = n.out /\ c.word = n.word
         /\ c.tag \in Fighting => n.tag \in Fighting
<1>1. HostOK(c)
  BY PostAttackSteps DEF HostStep
<1>2. CASE c = n \/ Keeps(n, c, {"post"})
  <2>1. /\ c.p1 = n.p1 /\ c.expl = n.expl /\ c.eticks = n.eticks /\ c.ishit = n.ishit /\ c.done = n.done
        /\ c.tag = n.tag /\ c.out = n.out /\ c.word = n.word
    BY <1>2 DEF Keeps, Fields
  <2> QED BY <1>1, <2>1 DEF Quietly
<1>3. CASE ~(c = n \/ Keeps(n, c, {"post"}))
  <2>1. /\ n.tag \in Turns /\ c.cticks = 0 /\ c.tag \in {"HANDOVER_P1", "HANDOVER_P2"}
        /\ Keeps(n, c, {"waiting", "post", "cticks", "word", "tag", "prev", "clicked", "out"})
    BY <1>3, PostAttackDoes
  <2>2. c.p1 = n.p1 /\ c.expl = n.expl /\ c.eticks = n.eticks /\ c.ishit = n.ishit /\ c.done = n.done
    BY <2>1 DEF Keeps, Fields
  <2> QED BY <1>1, <2>1, <2>2 DEF Quietly, Turns, Fighting
<1> QED BY <1>2, <1>3

\* A handover that has only just begun does not end.
LEMMA HandoverQuiet ==
  ASSUME NEW n, HostOK(n), TicksPerSec > 1, NEW c, c = Handover(n)
  PROVE  /\ Quietly(n, c) /\ c.done = n.done
         /\ c.tag = "TURN_P2" => \/ n.tag = "TURN_P2" /\ c.out = n.out
                                 \/ /\ n.tag = "HANDOVER_P2" /\ n.cticks # 0
                                    /\ c.out = Append(n.out, StateMsg("TURN_P2"))
         /\ c.tag = "GAME_OVER" => c.tag = n.tag /\ c.out = n.out /\ c.word = n.word
         /\ c.tag \in Fighting => n.tag \in Fighting
<1>1. HostOK(c) /\ DOMAIN n = Fields /\ n.role = Host
  BY HandoverSteps DEF HostStep, HostOK, HostShape
<1>2. CASE c = n \/ Keeps(n, c, {"cticks"})
  <2>1. /\ c.p1 = n.p1 /\ c.expl = n.expl /\ c.eticks = n.eticks /\ c.ishit = n.ishit /\ c.done = n.done
        /\ c.tag = n.tag /\ c.out = n.out /\ c.word = n.word
    BY <1>2 DEF Keeps, Fields
  <2> QED BY <1>1, <2>1 DEF Quietly
<1>3. CASE ~(c = n \/ Keeps(n, c, {"cticks"}))
  <2>1. /\ n.tag \in {"HANDOVER_P1", "HANDOVER_P2"} /\ Keeps(n, c, {"cticks", "tag", "prev", "clicked", "out"})
        /\ c.tag = (IF n.tag = "HANDOVER_P1" THEN "TURN_P1" ELSE "TURN_P2")
        /\ c.out = Append(n.out, StateMsg(c.tag))
    BY <1>3, HandoverDoes
  <2>2. c.p1 = n.p1 /\ c.expl = n.expl /\ c.eticks = n.eticks /\ c.ishit = n.ishit /\ c.done = n.done
    BY <2>1 DEF Keeps, Fields
  <2>3. n.cticks # 0
    <3> SUFFICES ASSUME n.cticks = 0 PROVE FALSE
      OBVIOUS
    <3>1. n.cticks + 1 < TicksPerSec
      BY TimingAssumption
    <3>2. c = [n EXCEPT !.cticks = n.cticks + 1]
      BY <1>1, <2>1, <3>1 DEF Handover
    <3>3. Keeps(n, c, {"cticks"})
      BY <1>1, <3>2 DEF Keeps, Fields
    <3> QED BY <1>3, <3>3
  <2>4. c.tag = "TURN_P2" => n.tag = "HANDOVER_P2" /\ c.out = Append(n.out, StateMsg("TURN_P2"))
    BY <2>1
  <2>5. c.tag # "GAME_OVER" /\ n.tag \in Fighting
    BY <2>1 DEF Fighting
  <2> QED BY <1>1, <2>2, <2>3, <2>4, <2>5 DEF Quietly
<1> QED BY <1>2, <1>3

\* One frame of the explosion.
Frame(n, c) ==
  \/ ~Exploding(n) /\ c.expl = n.expl /\ c.eticks = n.eticks /\ c.done = n.done
  \/ Exploding(n) /\ ~LastFrame(n) /\ c.expl = n.expl /\ c.eticks = n.eticks + 1 /\ c.done = n.done
  \/ /\ Exploding(n) /\ LastFrame(n) /\ n.expl = "blast" /\ ~n.ishit
     /\ c.expl = "splash" /\ c.eticks = 0 /\ c.done = n.done
  \/ /\ Exploding(n) /\ LastFrame(n) /\ (n.expl = "blast" => n.ishit)
     /\ c.expl = "none" /\ c.eticks = 0 /\ c.done = TRUE

\* The animation is one frame.
LEMMA AnimateIsFrame ==
  ASSUME NEW n, DOMAIN n = Fields, NEW c, c = Animate(n)
  PROVE  Frame(n, c) /\ \A f \in Fields \ {"expl", "eticks", "done"} : c[f] = n[f]
<1>1. CASE ~Exploding(n)
  <2>1. c = n
    BY <1>1 DEF Animate
  <2> QED BY <1>1, <2>1 DEF Frame
<1>2. CASE Exploding(n) /\ ~LastFrame(n)
  <2>1. c = [n EXCEPT !.eticks = n.eticks + 1]
    BY <1>2 DEF Animate
  <2> QED BY <1>2, <2>1 DEF Frame, Fields
<1>3. CASE Exploding(n) /\ LastFrame(n) /\ n.expl = "blast" /\ ~n.ishit
  <2>1. c = [n EXCEPT !.expl = "splash", !.eticks = 0]
    BY <1>3 DEF Animate
  <2> QED BY <1>3, <2>1 DEF Frame, Fields
<1>4. CASE Exploding(n) /\ LastFrame(n) /\ ~(n.expl = "blast" /\ ~n.ishit)
  <2>1. c = [n EXCEPT !.expl = "none", !.eticks = 0, !.done = TRUE]
    BY <1>4 DEF Animate
  <2> QED BY <1>4, <2>1 DEF Frame, Fields
<1> QED BY <1>1, <1>2, <1>3, <1>4

\* A blast goes on from one frame to the next; a hit is to be read right after it.
Bursts(n, c) ==
  /\ c.expl = "blast" => n.expl = "blast" /\ ~LastFrame(n) /\ c.eticks = n.eticks + 1
  /\ c.done /\ c.ishit => n.expl = "blast" /\ LastFrame(n)

\* At most a result is on its way.
Spoken(q) == q = << >> \/ \E msg \in ToClient : msg.type = "RESULT" /\ q = <<msg>>

\* What a tick does on the client's turn, and where it begins.
TurnGoes(n, c) ==
  \/ n.tag = "TURN_P2" /\ Spoken(c.out) /\ Bursts(n, c)
  \/ n.tag = "HANDOVER_P2" /\ c.out = <<StateMsg("TURN_P2")>> /\ ~Untold(c) /\ c.expl # "blast"

\* What it does at the end of a game.
GameEnds(n, c) ==
  \/ n.tag = "GAME_OVER" /\ c.word = n.word /\ c.out = << >>
  \/ /\ n.tag \in Turns /\ n.done /\ (n.tag = "TURN_P2" => n.ishit)
     /\ c.word \in {1, 2}
     /\ \E msg \in ToClient : msg.type = "RESULT" /\ c.out = <<msg, Ended(c.word), StateMsg("GAME_OVER")>>

\* Nothing is read while an explosion runs.
LEMMA NothingRead ==
  ASSUME NEW n, HostOK(n), ~n.waiting, n.tag \notin {"COUNTDOWN", "HANDOVER_P1", "HANDOVER_P2"},
         n.tag \in Turns => ~n.done
  PROVE  Countdown(n) = n /\ Result(n) = n /\ PostAttack(n) = n /\ Handover(n) = n
<1>1. Countdown(n) = n
  BY DEF Countdown
<1>2. Result(n) = n
  BY DEF Result, InTurn, Turns
<1>3. PostAttack(n) = n
  BY DEF PostAttack
<1>4. Handover(n) = n
  BY DEF Handover
<1> QED BY <1>1, <1>2, <1>3, <1>4

\* The parts of a tick before the animation, one after the other.
Stages(n, a, b, d, e) ==
  /\ HostOK(a) /\ HostOK(b) /\ HostOK(d) /\ HostOK(e)
  /\ a = Countdown(n) /\ b = Result(a) /\ d = PostAttack(b) /\ e = Handover(d)

\* The state that the animation finds.
Drawn(n, b, e, z) ==
  \/ z = b /\ b.tag = "GAME_OVER" /\ n.tag # "GAME_OVER"
  \/ z = e /\ (b.tag # "GAME_OVER" \/ n.tag = "GAME_OVER")

\* They are what they are.
LEMMA TickStages ==
  ASSUME NEW n, HostOK(n), NEW c \in Tick(n)
  PROVE  \E a, b, d, e, z : Stages(n, a, b, d, e) /\ Drawn(n, b, e, z) /\ HostOK(z) /\ c = Animate(z)
<1>1. PICK a, b, d, e : a = Countdown(n) /\ b = Result(a) /\ d = PostAttack(b) /\ e = Handover(d)
  OBVIOUS
<1>2. HostOK(a)
  BY <1>1, CountdownSteps DEF HostStep
<1>3. HostOK(b)
  BY <1>1, <1>2, ResultSteps DEF HostStep
<1>4. HostOK(d)
  BY <1>1, <1>3, PostAttackSteps DEF HostStep
<1>5. HostOK(e)
  BY <1>1, <1>4, HandoverSteps DEF HostStep
<1>6. Stages(n, a, b, d, e)
  BY <1>1, <1>2, <1>3, <1>4, <1>5 DEF Stages
<1>7. \/ b.tag = "GAME_OVER" /\ n.tag # "GAME_OVER" /\ c = Animate(b)
      \/ (b.tag # "GAME_OVER" \/ n.tag = "GAME_OVER") /\ c = Animate(e)
  <2>1. \A x : HostOK(x) => x.single = FALSE
    BY DEF HostOK, HostShape
  <2> QED BY <1>1, <2>1, TickIs
<1>8. PICK z : Drawn(n, b, e, z) /\ c = Animate(z)
  BY <1>7 DEF Drawn
<1>9. HostOK(z)
  BY <1>3, <1>5, <1>8 DEF Drawn
<1> QED BY <1>6, <1>8, <1>9

\* They leave the fleet and the explosion alone.
LEMMA StagesQuiet ==
  ASSUME NEW n, HostOK(n), TicksPerSec > 1, NEW a, NEW b, NEW d, NEW e, Stages(n, a, b, d, e),
         NEW z, Drawn(n, b, e, z)
  PROVE  /\ z.p1 = n.p1 /\ z.expl = n.expl /\ z.eticks = n.eticks /\ z.ishit = n.ishit
         /\ z.done => n.done /\ b = a
<1>1. Quietly(n, a) /\ a.done = n.done
  BY CountdownQuiet DEF Stages
<1>2. b = a \/ (Quietly(a, b) /\ b.done = FALSE)
  BY <1>1, ResultQuiet DEF Stages
<1>3. Quietly(b, d) /\ d.done = b.done
  BY PostAttackQuiet DEF Stages
<1>4. Quietly(d, e) /\ e.done = d.done
  BY HandoverQuiet DEF Stages
<1>5. b.p1 = n.p1 /\ b.expl = n.expl /\ b.eticks = n.eticks /\ b.ishit = n.ishit
  BY <1>1, <1>2 DEF Quietly
<1>6. e.p1 = b.p1 /\ e.expl = b.expl /\ e.eticks = b.eticks /\ e.ishit = b.ishit /\ e.done = b.done
  BY <1>3, <1>4 DEF Quietly
<1>7. b.done => n.done /\ b = a
  BY <1>1, <1>2
<1> QED BY <1>5, <1>6, <1>7 DEF Drawn

\* On the client's turn a tick may tell a result; it comes there by a handover.
LEMMA StagesInTurn ==
  ASSUME NEW n, HostOK(n), Patient, TicksPerSec > 1, n.out = << >>,
         NEW a, NEW b, NEW d, NEW e, Stages(n, a, b, d, e), NEW z, Drawn(n, b, e, z), z.tag = "TURN_P2"
  PROVE  /\ z.done = FALSE
         /\ \/ n.tag = "TURN_P2" /\ Spoken(z.out)
            \/ n.tag = "HANDOVER_P2" /\ z.out = <<StateMsg("TURN_P2")>> /\ ~Untold(n)
<1>1. z = e /\ e.tag = "TURN_P2" /\ a = Countdown(n) /\ HostOK(a) /\ HostOK(b) /\ HostOK(d)
  BY DEF Drawn, Stages
<1>2. \/ d.tag = "TURN_P2" /\ e.out = d.out
      \/ d.tag = "HANDOVER_P2" /\ d.cticks # 0 /\ e.out = Append(d.out, StateMsg("TURN_P2"))
  BY <1>1, HandoverQuiet DEF Stages
<1>3. d.tag \in {"TURN_P2", "HANDOVER_P2"} /\ b.tag = d.tag /\ d.out = b.out
  BY <1>1, <1>2, PostAttackQuiet DEF Stages
<1>4. e.done = b.done
  <2>1. d.done = b.done
    BY <1>1, PostAttackQuiet DEF Stages
  <2>2. e.done = d.done
    BY <1>1, HandoverQuiet DEF Stages
  <2> QED BY <2>1, <2>2
<1>5. \/ b = a /\ (a.tag \in Turns /\ a.done => a.waiting)
      \/ /\ a.tag \in Turns /\ b.done = FALSE /\ b.tag = a.tag /\ b.out = Reported(a).out
  <2>1. b.tag # "GAME_OVER"
    BY <1>3
  <2>2. b = Result(a)
    BY DEF Stages
  <2> QED BY <1>1, <2>1, <2>2, ResultQuiet
<1>6. a.tag = d.tag /\ a = n
  <2>1. a.tag = d.tag
    BY <1>3, <1>5
  <2> QED BY <1>1, <1>3, <2>1, CountdownQuiet
<1>7. UnderWay(n) /\ n.done \in BOOLEAN /\ DOMAIN n = Fields /\ n.at \in Cells /\ Good(n.p1) /\ Good(n.p2)
  BY DEF HostOK, HostShape
<1>8. CASE b = a /\ (a.tag \in Turns /\ a.done => a.waiting)
  <2>1. b.done = FALSE /\ b.out = << >>
    <3>1. n.tag \in Turns => ~n.done
      BY <1>6, <1>7, <1>8 DEF UnderWay
    <3>2. n.tag = "HANDOVER_P2" => ~n.done
      BY <1>7 DEF UnderWay, Screen, Turns
    <3> QED BY <1>3, <1>6, <1>7, <1>8, <3>1, <3>2 DEF Turns
  <2>2. CASE d.tag = "TURN_P2"
    BY <1>1, <1>2, <1>3, <1>4, <1>6, <2>1, <2>2 DEF Spoken
  <2>3. CASE d.tag = "HANDOVER_P2"
    <3>1. e.out = <<StateMsg("TURN_P2")>>
      BY <1>2, <1>3, <2>1, <2>3
    <3>2. ~Untold(n)
      BY <1>6, <1>7, <1>8, <2>1, <2>3 DEF Untold, UnderWay, Turns
    <3> QED BY <1>1, <1>4, <1>6, <2>1, <2>3, <3>1, <3>2
  <2> QED BY <1>3, <2>2, <2>3
<1>9. CASE a.tag \in Turns /\ b.done = FALSE /\ b.tag = a.tag /\ b.out = Reported(a).out
  <2>1. n.tag = "TURN_P2" /\ e.out = b.out
    BY <1>2, <1>3, <1>6, <1>9 DEF Turns
  <2>2. PICK msg : msg = [type |-> "RESULT", cell |-> n.at, result |-> ResultAt(Target(n), n.at)]
    OBVIOUS
  <2>3. b.out = Append(<< >>, msg)
    BY <1>6, <1>7, <1>9, <2>2 DEF Reported, Fields
  <2>4. msg \in ToClient /\ msg.type = "RESULT"
    <3>1. Target(n) \in {n.p1, n.p2}
      BY DEF Target
    <3>2. ResultAt(Target(n), n.at) \in Results
      BY <1>7, <3>1 DEF ResultAt, Results
    <3> QED BY <1>7, <2>2, <3>2 DEF ToClient, Results
  <2>5. Spoken(e.out)
    BY <2>1, <2>3, <2>4 DEF Spoken
  <2> QED BY <1>1, <1>4, <1>9, <2>1, <2>5
<1> QED BY <1>5, <1>8, <1>9

\* The messages that end a game are told together.
LEMMA ThreeTold ==
  ASSUME NEW S, NEW x \in S, NEW y \in S, NEW z \in S
  PROVE  Append(Append(Append(<< >>, x), y), z) = <<x, y, z>>
<1>1. << >> \in Seq(S) /\ Len(<< >>) = 0
  OBVIOUS
<1>2. PICK p \in Seq(S) : p = Append(<< >>, x)
  BY <1>1, AppendOf
<1>3. p \in Seq(S) /\ Len(p) = 1 /\ p[1] = x
  BY <1>1, <1>2, AppendOf
<1>4. PICK q \in Seq(S) : q = Append(p, y)
  BY AppendOf
<1>5. q \in Seq(S) /\ Len(q) = 1 + 1 /\ q[1 + 1] = y /\ \A i \in 1 .. 1 : q[i] = p[i]
  <2>1. /\ q \in Seq(S) /\ Len(q) = Len(p) + 1 /\ q[Len(p) + 1] = y
        /\ \A i \in 1 .. Len(p) : q[i] = p[i]
    BY <1>4, AppendOf
  <2> QED BY <1>3, <2>1
<1>6. PICK r \in Seq(S) : r = Append(q, z)
  BY AppendOf
<1>7. r \in Seq(S) /\ Len(r) = 2 + 1 /\ r[2 + 1] = z /\ \A i \in 1 .. 2 : r[i] = q[i]
  <2>1. /\ r \in Seq(S) /\ Len(r) = Len(q) + 1 /\ r[Len(q) + 1] = z
        /\ \A i \in 1 .. Len(q) : r[i] = q[i]
    BY <1>6, AppendOf
  <2>2. Len(q) = 2
    BY <1>5
  <2> QED BY <2>1, <2>2
<1>8. PICK t : t = <<x, y, z>>
  OBVIOUS
<1>9. t \in Seq(S) /\ Len(t) = 3 /\ t[1] = x /\ t[2] = y /\ t[3] = z
  BY <1>8
<1>10. r[1] = x /\ r[2] = y /\ r[3] = z /\ Len(r) = 3
  <2>1. q[1] = x /\ q[2] = y
    BY <1>3, <1>5
  <2> QED BY <1>7, <2>1
<1>11. \A i \in 1 .. Len(r) : r[i] = t[i]
  BY <1>9, <1>10
<1>12. r = t
  BY <1>7, <1>9, <1>10, <1>11, SeqEqual
<1> QED BY <1>2, <1>4, <1>6, <1>8, <1>12

\* A tick comes to the end of a game by reading the last result, or was there already.
LEMMA StagesEnding ==
  ASSUME NEW n, HostOK(n), Patient, Unbeaten(n), TicksPerSec > 1, n.out = << >>,
         NEW a, NEW b, NEW d, NEW e, Stages(n, a, b, d, e), NEW z, Drawn(n, b, e, z), z.tag = "GAME_OVER"
  PROVE  GameEnds(n, z)
<1>1. a = Countdown(n) /\ HostOK(a) /\ HostOK(b) /\ HostOK(d)
  BY DEF Stages
<1>2. UnderWay(n) /\ n.done \in BOOLEAN /\ DOMAIN n = Fields /\ n.at \in Cells /\ Good(n.p1) /\ Good(n.p2)
  BY DEF HostOK, HostShape
<1>3. \/ b = a /\ (a.tag \in Turns /\ a.done => a.waiting)
      \/ /\ a.tag \in Turns /\ a.done
         /\ \/ b.tag = a.tag
            \/ /\ AllSunk(Target(a)) /\ b.word = Shooter(a)
               /\ b.out = Append(Append(Reported(a).out, Ended(b.word)), StateMsg("GAME_OVER"))
  <2>1. b = Result(a)
    BY DEF Stages
  <2> QED BY <1>1, <2>1, ResultQuiet
<1>4. CASE z = b /\ b.tag = "GAME_OVER" /\ n.tag # "GAME_OVER"
  <2>1. b # a
    BY <1>1, <1>4, CountdownQuiet
  <2>2. /\ a.tag \in Turns /\ a.done
        /\ AllSunk(Target(a)) /\ b.word = Shooter(a)
        /\ b.out = Append(Append(Reported(a).out, Ended(b.word)), StateMsg("GAME_OVER"))
    BY <1>3, <1>4, <2>1 DEF Turns
  <2>3. a.done = n.done
    BY <1>1, CountdownQuiet
  <2>4. n.tag # "COUNTDOWN"
    BY <1>2, <2>2, <2>3 DEF UnderWay, Screen, Turns
  <2>5. a = n
    BY <1>1, <2>4, CountdownQuiet
  <2>6. n.tag = "TURN_P2" => n.ishit
    <3> SUFFICES ASSUME n.tag = "TURN_P2" PROVE n.ishit
      OBVIOUS
    <3>1. Target(n) = n.p1 /\ Screen(n) \in Fighting
      BY DEF Target, Screen, Fighting
    <3> QED BY <2>2, <2>5, <3>1 DEF Unbeaten
  <2>7. PICK msg : msg = [type |-> "RESULT", cell |-> n.at, result |-> ResultAt(Target(n), n.at)]
    OBVIOUS
  <2>8. msg \in ToClient /\ msg.type = "RESULT"
    <3>1. Target(n) \in {n.p1, n.p2}
      BY DEF Target
    <3>2. ResultAt(Target(n), n.at) \in Results
      BY <1>2, <3>1 DEF ResultAt, Results
    <3> QED BY <1>2, <2>7, <3>2 DEF ToClient, Results
  <2>9. Reported(a).out = Append(n.out, msg)
    BY <1>2, <2>5, <2>7 DEF Reported, Fields
  <2>10. b.word \in {1, 2}
    BY <2>2 DEF Shooter
  <2>11. b.out = <<msg, Ended(b.word), StateMsg("GAME_OVER")>>
    <3>1. PICK w, s : w = Ended(b.word) /\ s = StateMsg("GAME_OVER")
      OBVIOUS
    <3>2. b.out = Append(Append(Append(<< >>, msg), w), s)
      BY <2>2, <2>9, <3>1
    <3>3. w \in ToClient /\ s \in ToClient
      BY <2>10, <3>1 DEF Ended, ToClient, StateMsg, Tags
    <3> QED BY <2>8, <3>1, <3>2, <3>3, ThreeTold
  <2> QED BY <1>4, <2>2, <2>5, <2>6, <2>8, <2>10, <2>11 DEF GameEnds
<1>5. CASE z = e /\ (b.tag # "GAME_OVER" \/ n.tag = "GAME_OVER")
  <2>1. d.tag = "GAME_OVER" /\ e.out = d.out /\ e.word = d.word
    BY <1>1, <1>5, HandoverQuiet DEF Stages
  <2>2. b.tag = "GAME_OVER" /\ d.out = b.out /\ d.word = b.word
    BY <1>1, <2>1, PostAttackQuiet DEF Stages
  <2>3. n.tag = "GAME_OVER"
    BY <1>5, <2>2
  <2>4. a = n
    BY <1>1, <2>3, CountdownQuiet
  <2>5. b = n
    BY <1>3, <2>3, <2>4 DEF Turns
  <2> QED BY <1>5, <2>1, <2>2, <2>3, <2>5 DEF GameEnds
<1> QED BY <1>4, <1>5 DEF Drawn

\* The last hit of a game is read before anything else happens to the fleet.
LEMMA StagesKeepFleet ==
  ASSUME NEW n, HostOK(n), Patient, Unbeaten(n), Screen(n) \in Fighting, AllSunk(n.p1),
         NEW a, NEW b, NEW d, NEW e, Stages(n, a, b, d, e), NEW z, Drawn(n, b, e, z),
         Screen(z) \in Fighting
  PROVE  z = n /\ n.expl = "blast"
<1>1. n.tag = "TURN_P2" /\ (n.expl = "blast" \/ n.done) /\ n.ishit /\ UnderWay(n) /\ n.waiting \in BOOLEAN
      /\ n.done \in BOOLEAN
  BY DEF Unbeaten, HostOK, HostShape
<1>2. a = n
  BY <1>1, CountdownQuiet DEF Stages
<1>3. ~n.waiting
  BY <1>1 DEF UnderWay, Exploding
<1>4. CASE n.done
  <2>1. b.tag = "GAME_OVER"
    <3>1. Target(n) = n.p1
      BY <1>1 DEF Target
    <3>2. b = Result(n) /\ n.tag \in Turns
      BY <1>1, <1>2 DEF Stages, Turns
    <3>3. ~(b = n /\ (n.tag \in Turns /\ n.done => n.waiting))
      BY <1>3, <1>4, <3>2
    <3> QED BY <3>1, <3>2, <3>3, ResultQuiet
  <2>2. z = b
    BY <1>1, <2>1 DEF Drawn
  <2> QED BY <2>1, <2>2 DEF Screen, Fighting
<1>5. CASE ~n.done
  <2>1. b = n /\ d = n /\ e = n
    BY <1>1, <1>2, <1>3, <1>5, NothingRead DEF Stages
  <2> QED BY <1>1, <1>5, <2>1 DEF Drawn
<1> QED BY <1>4, <1>5

\* What a tick does to the host's fleet, turn and end.
LEMMA TickDecides ==
  ASSUME NEW n, HostOK(n), Patient, Unbeaten(n), TicksPerSec > 1, n.out = << >>, NEW c \in Tick(n)
  PROVE  /\ HostOK(c) /\ Unbeaten(c)
         /\ c.tag = "TURN_P2" => TurnGoes(n, c)
         /\ c.tag = "GAME_OVER" => GameEnds(n, c)
<1>1. PICK a, b, d, e, z : Stages(n, a, b, d, e) /\ Drawn(n, b, e, z) /\ HostOK(z) /\ c = Animate(z)
  BY TickStages
<1>2. HostOK(c) /\ HostStep(n, c)
  BY HostTicks DEF HostStep
<1>3. DOMAIN z = Fields
  BY <1>1 DEF HostOK, HostShape
<1>4. Frame(z, c) /\ \A f \in Fields \ {"expl", "eticks", "done"} : c[f] = z[f]
  BY <1>1, <1>3, AnimateIsFrame
<1>5. /\ c.tag = z.tag /\ c.prev = z.prev /\ c.out = z.out /\ c.word = z.word /\ c.p1 = z.p1 /\ c.ishit = z.ishit
      /\ Screen(c) = Screen(z)
  BY <1>4 DEF Fields, Screen
<1>6. /\ z.p1 = n.p1 /\ z.expl = n.expl /\ z.eticks = n.eticks /\ z.ishit = n.ishit
      /\ z.done => n.done /\ b = a
  BY <1>1, StagesQuiet
<1>7. n.expl \in {"none", "blast", "splash"} /\ n.ishit \in BOOLEAN /\ (n.expl = "splash" => n.ishit = FALSE)
  BY DEF Unbeaten
<1>8. (LastFrame(z) <=> LastFrame(n)) /\ (Exploding(z) <=> Exploding(n))
  BY <1>6 DEF LastFrame, Exploding
<1>9. c.expl \in {"none", "blast", "splash"} /\ (c.expl = "splash" => c.ishit = FALSE)
  BY <1>4, <1>5, <1>6, <1>7 DEF Frame
<1>10. ASSUME Screen(c) \in Fighting, AllSunk(c.p1)
       PROVE  c.tag = "TURN_P2" /\ (c.expl = "blast" \/ c.done) /\ c.ishit
  <2>1. Screen(n) \in Fighting
    <3>1. Screen(c) \notin Lobby
      BY <1>10 DEF Fighting, Lobby
    <3>2. HostAt(c) \in Fighting
      BY <1>10, <3>1 DEF HostAt
    <3>3. HostAt(n) \in Fighting
      BY <1>2, <3>2, HostWhere DEF HostStep, Goes, Fighting
    <3> QED BY <3>3 DEF HostAt, Fighting
  <2>2. AllSunk(n.p1)
    BY <1>5, <1>6, <1>10
  <2>3. z = n /\ n.expl = "blast"
    BY <1>1, <1>5, <1>10, <2>1, <2>2, StagesKeepFleet
  <2>4. n.tag = "TURN_P2" /\ n.ishit
    BY <2>1, <2>2 DEF Unbeaten
  <2>5. c.expl = "blast" \/ c.done
    BY <1>4, <2>3, <2>4 DEF Frame, Exploding
  <2> QED BY <1>5, <2>3, <2>4, <2>5
<1>11. Unbeaten(c)
  BY <1>5, <1>6, <1>7, <1>9, <1>10 DEF Unbeaten
<1>12. ASSUME c.tag = "TURN_P2" PROVE TurnGoes(n, c)
  <2>1. z.tag = "TURN_P2"
    BY <1>5, <1>12
  <2>2. /\ z.done = FALSE
        /\ \/ n.tag = "TURN_P2" /\ Spoken(z.out)
           \/ n.tag = "HANDOVER_P2" /\ z.out = <<StateMsg("TURN_P2")>> /\ ~Untold(n)
    BY <1>1, <2>1, StagesInTurn
  <2>3. Bursts(n, c)
    BY <1>4, <1>5, <1>6, <1>7, <1>8, <2>2 DEF Bursts, Frame, Exploding
  <2>4. CASE n.tag = "TURN_P2" /\ Spoken(z.out)
    BY <1>5, <2>3, <2>4 DEF TurnGoes
  <2>5. CASE n.tag = "HANDOVER_P2" /\ z.out = <<StateMsg("TURN_P2")>> /\ ~Untold(n)
    <3>1. n.expl = "none" /\ ~Exploding(z)
      BY <1>8, <2>5 DEF Untold, Exploding
    <3>2. c.expl = "none" /\ c.done = FALSE
      BY <1>4, <1>6, <2>2, <3>1 DEF Frame
    <3> QED BY <1>5, <2>5, <3>2 DEF TurnGoes, Untold, Exploding
  <2> QED BY <2>2, <2>4, <2>5
<1>13. ASSUME c.tag = "GAME_OVER" PROVE GameEnds(n, c)
  <2>1. GameEnds(n, z)
    BY <1>1, <1>5, <1>13, StagesEnding
  <2> QED BY <1>5, <2>1 DEF GameEnds
<1> QED BY <1>2, <1>11, <1>12, <1>13

----------------------------------------------------------------------------
(* The two programs together                                               *)

\* What of the two programs decides.
Decided(h, c, hc, ch) == Shooting(h, c, hc, ch) /\ Crowned(h, c, hc)

\* What they have said themselves has no part in it.
LEMMA DecidedSpare ==
  ASSUME NEW h, NEW c, DOMAIN h = Fields, DOMAIN c = Fields, NEW hc, NEW ch, Decided(h, c, hc, ch),
         NEW n, n \in {h, Spare(h)}, NEW m, m \in {c, Spare(c)}
  PROVE  Decided(n, m, hc, ch)
<1>1. \A f \in Fields \ {"out"} : n[f] = h[f] /\ m[f] = c[f]
  BY DEF Spare, Fields
<1>2. /\ n.tag = h.tag /\ n.word = h.word /\ n.expl = h.expl /\ n.eticks = h.eticks /\ n.done = h.done
      /\ n.ishit = h.ishit /\ n.waiting = h.waiting
  BY <1>1 DEF Fields
<1>3. /\ m.tag = c.tag /\ m.prev = c.prev /\ m.word = c.word /\ m.expl = c.expl /\ m.eticks = c.eticks
      /\ m.ishit = c.ishit
  BY <1>1 DEF Fields
<1>4. (Untold(n) <=> Untold(h)) /\ (Settled(n) <=> Settled(h))
  BY <1>2 DEF Untold, Settled, Exploding
<1>5. (Blasts(m) <=> Blasts(c)) /\ Screen(m) = Screen(c) /\ (Exploding(m) <=> Exploding(c))
  BY <1>3 DEF Blasts, Screen, Exploding
<1>6. Shooting(n, m, hc, ch)
  BY <1>2, <1>3, <1>4, <1>5 DEF Decided, Shooting, InItsTurn
<1>7. Crowned(n, m, hc)
  BY <1>2, <1>3, <1>5 DEF Decided, Crowned
<1> QED BY <1>6, <1>7 DEF Decided

\* With nothing on the way the client is where the host is.
LEMMA QuietClient ==
  ASSUME NEW h, HostOK(h), NEW c, ClientOK(c), Mirror(h, Copy(c)), h.tag \in {"TURN_P1", "HANDOVER_P2"}
  PROVE  c.tag = h.tag
<1>1. HostAt(h) = h.tag
  BY DEF HostAt, Screen, Lobby
<1>2. Copy(c).at = h.tag
  BY <1>1 DEF Mirror
<1> QED BY <1>2, ClientWhere

\* Nobody has said anything.
LEMMA NobodyAsks == ~Asking(<< >>) /\ OneShot(<< >>)
<1>1. Len(<< >>) = 0
  OBVIOUS
<1> QED BY <1>1 DEF Asking, OneShot

\* A tick on both machines while the client has its turn.
LEMMA TickShooting ==
  ASSUME Patient, NEW h, HostOK(h), NEW c, ClientOK(c), Shooting(h, c, << >>, << >>), Unbeaten(h),
         Mirror(h, Copy(c)), NEW n, n.tag = "TURN_P2" => TurnGoes(h, n), Unbeaten(n),
         NEW m, Frame(c, m), m.tag = c.tag, m.prev = c.prev, m.ishit = c.ishit
  PROVE  Shooting(n, m, n.out, << >>)
<1> SUFFICES ASSUME n.tag = "TURN_P2" PROVE Shooting(n, m, n.out, << >>)
  BY DEF Shooting
<1>1. Screen(m) = Screen(c)
  BY DEF Screen
<1>2. CASE h.tag = "TURN_P2" /\ Spoken(n.out) /\ Bursts(h, n)
  <2>1. Screen(c) = "TURN_P2"
    <3>1. \A msg : << >> # <<msg>>
      OBVIOUS
    <3> QED BY <1>2, <3>1 DEF Shooting, InItsTurn
  <2>2. InItsTurn(n, m, n.out, << >>)
    BY <1>1, <1>2, <2>1 DEF InItsTurn, Spoken
  <2>3. n.expl = "blast" => Blasts(m) /\ m.eticks = n.eticks
    <3> SUFFICES ASSUME n.expl = "blast" PROVE Blasts(m) /\ m.eticks = n.eticks
      OBVIOUS
    <3>1. h.expl = "blast" /\ ~LastFrame(h) /\ n.eticks = h.eticks + 1
      BY <1>2 DEF Bursts
    <3>2. Blasts(c) /\ c.eticks = h.eticks
      BY <1>2, <3>1 DEF Shooting
    <3>3. ~LastFrame(c) /\ Exploding(c)
      BY <3>1, <3>2 DEF LastFrame, Blasts, Exploding
    <3>4. m.expl = c.expl /\ m.eticks = c.eticks + 1
      BY <3>3 DEF Frame
    <3> QED BY <3>1, <3>2, <3>4 DEF Blasts
  <2>4. n.done /\ n.ishit => m.tag = "TURN_P2" /\ m.expl = "splash" /\ m.eticks = 0
    <3> SUFFICES ASSUME n.done, n.ishit PROVE m.tag = "TURN_P2" /\ m.expl = "splash" /\ m.eticks = 0
      OBVIOUS
    <3>1. h.expl = "blast" /\ LastFrame(h)
      BY <1>2 DEF Bursts
    <3>2. Blasts(c) /\ c.eticks = h.eticks
      BY <1>2, <3>1 DEF Shooting
    <3>3. LastFrame(c) /\ Exploding(c) /\ c.expl = "blast" /\ ~c.ishit
      BY <3>1, <3>2 DEF LastFrame, Blasts, Exploding
    <3> QED BY <3>2, <3>3 DEF Frame, Blasts
  <2> QED BY <2>2, <2>3, <2>4, NobodyAsks DEF Shooting
<1>3. CASE h.tag = "HANDOVER_P2" /\ n.out = <<StateMsg("TURN_P2")>> /\ ~Untold(n) /\ n.expl # "blast"
  <2>1. m.tag = "HANDOVER_P2"
    BY <1>3, QuietClient
  <2>2. InItsTurn(n, m, n.out, << >>)
    BY <1>3, <2>1, NobodyAsks DEF InItsTurn
  <2> QED BY <1>3, <2>2, NobodyAsks DEF Shooting, Untold
<1> QED BY <1>2, <1>3 DEF TurnGoes

\* A tick on both machines at the end of a game.
LEMMA TickCrowned ==
  ASSUME SplashTicks > 1, NEW h, HostOK(h), NEW c, ClientOK(c), Shooting(h, c, << >>, << >>),
         Crowned(h, c, << >>), Mirror(h, Copy(c)), NEW n, n.tag = "GAME_OVER" => GameEnds(h, n),
         NEW m, Frame(c, m), m.tag = c.tag, m.word = c.word
  PROVE  Crowned(n, m, n.out)
<1> SUFFICES ASSUME n.tag = "GAME_OVER" PROVE Crowned(n, m, n.out)
  BY DEF Crowned
<1>1. CASE h.tag = "GAME_OVER" /\ n.word = h.word /\ n.out = << >>
  <2>1. ~Verdict(h.word, c.word, << >>)
    <3>1. \A x, y, z : << >> # <<x, y, z>> /\ << >> # <<x, y>> /\ << >> # <<x>>
      OBVIOUS
    <3> QED BY <3>1 DEF Verdict
  <2> QED BY <1>1, <2>1 DEF Crowned
<1>2. ASSUME h.tag \in Turns, h.done, h.tag = "TURN_P2" => h.ishit,
             NEW msg \in ToClient, msg.type = "RESULT", n.out = <<msg, Ended(n.word), StateMsg("GAME_OVER")>>
      PROVE  Crowned(n, m, n.out)
  <2>1. Verdict(n.word, m.word, n.out)
    BY <1>2 DEF Verdict
  <2>2. CASE h.tag = "TURN_P1"
    <3>1. m.tag = "TURN_P1"
      BY <2>2, QuietClient
    <3> QED BY <2>1, <3>1 DEF Crowned
  <2>3. CASE h.tag = "TURN_P2"
    <3>1. c.tag = "TURN_P2" /\ c.expl = "splash" /\ c.eticks = 0
      BY <1>2, <2>3 DEF Shooting
    <3>2. Exploding(c) /\ ~LastFrame(c)
      BY <3>1, TimingAssumption DEF Exploding, LastFrame
    <3>3. m.tag = "TURN_P2" /\ Exploding(m)
      BY <3>1, <3>2 DEF Frame, Exploding
    <3> QED BY <2>1, <3>3 DEF Crowned
  <2> QED BY <1>2, <2>2, <2>3 DEF Turns
<1> QED BY <1>1, <1>2 DEF GameEnds

\* Timer interrupts on both machines.
LEMMA BothTickOn ==
  ASSUME Patient, TicksPerSec > 1, SplashTicks > 1, DuelInv, WinInv, TickTogether PROVE WinInv'
<1> DEFINE h == con[Host]
           c == con[Client]
<1>1. /\ HostOK(h) /\ ClientOK(c) /\ h.out = << >> /\ c.out = << >>
      /\ h.over \in BOOLEAN /\ c.over \in BOOLEAN /\ DOMAIN h = Fields /\ DOMAIN c = Fields
      /\ InOrder(h, c, net[Client], net[Host], gone)
  BY DuelSays, ClientFields DEF InOrder, Wires, HostOK, HostShape
<1>2. DOMAIN con = Roles /\ DOMAIN net = Roles /\ Host \in Roles /\ Client \in Roles /\ Host # Client
  BY DEF DuelInv, Roles, Host, Client
<1>3. PICK n \in Tick(h), m \in Tick(c) :
        /\ con' = [r \in Roles |-> IF ~Running(r) THEN con[r] ELSE Spare(IF r = Host THEN n ELSE m)]
        /\ net' = [net EXCEPT ![Client] = IF Running(Host) THEN Posted(Client, n.out) ELSE @,
                              ![Host]   = IF Running(Client) THEN Posted(Host, m.out) ELSE @]
        /\ gone' = gone
  BY DEF TickTogether
<1>4. Unbeaten(h)
  BY DEF WinInv, Deciding
<1>5. con'[Host] = (IF Running(Host) THEN Spare(n) ELSE h) /\ con'[Client] = (IF Running(Client) THEN Spare(m) ELSE c)
  BY <1>2, <1>3
<1>6. CASE ~Running(Host)
  <2>1. h.over = TRUE /\ con'[Host] = h
    BY <1>1, <1>5, <1>6 DEF Running
  <2> QED BY <1>4, <2>1 DEF WinInv, Deciding
<1>7. CASE Running(Host)
  <2>1. /\ HostOK(n) /\ Unbeaten(n)
        /\ n.tag = "TURN_P2" => TurnGoes(h, n)
        /\ n.tag = "GAME_OVER" => GameEnds(h, n)
    BY <1>1, <1>4, TickDecides
  <2>2. DOMAIN n = Fields
    BY <2>1 DEF HostOK, HostShape
  <2>3. PICK e : e = Spare(n) /\ e = con'[Host]
    BY <1>5, <1>7
  <2>4. Unbeaten(e)
    BY <2>1, <2>2, <2>3, UnbeatenSpare
  <2>5. CASE ~Running(Client)
    <3>1. con'[Client].over = TRUE
      BY <1>1, <1>5, <2>5 DEF Running
    <3> QED BY <2>3, <2>4, <3>1 DEF WinInv, Deciding
  <2>6. CASE Running(Client)
    <3>1. net[Host] = << >> /\ net[Client] = << >> /\ h.over = FALSE /\ c.over = FALSE
          /\ Host \notin gone /\ Client \notin gone
      BY <1>1, <1>7, <2>6, DuelSays DEF TickTogether, Running, Roles
    <3>2. Shooting(h, c, << >>, << >>) /\ Crowned(h, c, << >>)
      BY <3>1 DEF WinInv, Deciding
    <3>3. Mirror(h, Copy(c))
      <4>1. PICK l : Ends(h, c, << >>, l)
        BY <1>1, <3>1 DEF InOrder, Linked
      <4>2. << >> \in Seq(ToClient) /\ Path(<< >>, Copy(c), l) /\ Mirror(h, l)
        BY <4>1 DEF Ends
      <4>3. l = Copy(c)
        BY <4>2, PathRank
      <4> QED BY <4>2, <4>3
    <3>4. m = Animate(c) /\ m.out = << >> /\ ClientOK(m)
      BY <1>1, ClientTicks DEF ClientStep
    <3>5. Frame(c, m) /\ \A f \in Fields \ {"expl", "eticks", "done"} : m[f] = c[f]
      BY <1>1, <3>4, AnimateIsFrame
    <3>6. m.tag = c.tag /\ m.prev = c.prev /\ m.ishit = c.ishit /\ m.word = c.word /\ DOMAIN m = Fields
      BY <3>4, <3>5, ClientFields DEF Fields
    <3> HIDE DEF h, c
    <3>7. Shooting(n, m, n.out, << >>)
      BY <1>1, <1>4, <2>1, <3>2, <3>3, <3>5, <3>6, TickShooting
    <3>8. Crowned(n, m, n.out)
      BY <1>1, <2>1, <3>2, <3>3, <3>5, <3>6, TickCrowned
    <3>9. PICK k : k = Spare(m) /\ k = con'[Client]
      BY <1>5, <2>6
    <3>10. Decided(e, k, n.out, << >>)
      BY <2>2, <2>3, <3>6, <3>7, <3>8, <3>9, DecidedSpare DEF Decided
    <3>11. net'[Client] = n.out /\ net'[Host] = << >>
      <4>1. net'[Client] = Posted(Client, n.out) /\ net'[Host] = Posted(Host, m.out)
        BY <1>2, <1>3, <1>7, <2>6
      <4>2. n.out \in Seq(ToClient)
        BY <2>1 DEF HostOK, HostShape
      <4>3. << >> \o n.out = n.out
        BY <4>2, ConcatEmptySeq
      <4>4. << >> \o << >> = << >>
        OBVIOUS
      <4> QED BY <3>1, <3>4, <4>1, <4>3, <4>4 DEF Posted
    <3> QED BY <2>3, <2>4, <3>9, <3>10, <3>11 DEF WinInv, Deciding, Decided
  <2> QED BY <2>5, <2>6
<1> QED BY <1>6, <1>7

----------------------------------------------------------------------------
(* The client's player                                                     *)

\* A shot of the client.
Shoots(c, n) ==
  /\ c.tag = "TURN_P2" /\ ~Exploding(c) /\ ~ShotOpen
  /\ Blasts(n) /\ n.eticks = 0 /\ Screen(n) = "TURN_P2"
  /\ \E msg \in ToHost : msg.type = "ATTACK" /\ n.out = <<msg>>

\* What the player of the client does, as far as it decides anything.
Plays(c, n) ==
  \/ n.over = TRUE
  \/ c.tag \in Lobby /\ n.tag \in Lobby \ {"GAME_OVER"}
  \/ Screen(c) = "PLACE_SHIPS_P2"
  \/ /\ Screen(c) = "TURN_P2" /\ (c.tag = "TURN_P2" => ~Exploding(c))
     /\ Screen(n) = "TURN_P2" /\ n.out = << >>
  \/ Shoots(c, n)

\* A pause that begins or ends.
LEMMA PausePlays ==
  ASSUME NEW c, c.out = << >>, DOMAIN c = Fields, NEW n, NEW s, n = Transition(c, s),
         \/ s = "PAUSED" /\ c.tag \in {"PLACE_SHIPS_P2", "TURN_P2"} /\ (c.tag = "TURN_P2" => ~Exploding(c))
         \/ c.tag = "PAUSED" /\ s = c.prev /\ s \in {"PLACE_SHIPS_P2", "TURN_P2"}
  PROVE  Plays(c, n)
<1>1. n.tag = s /\ n.prev = c.tag /\ n.out = << >>
  BY DEF Transition, Fields
<1>2. CASE s = "PAUSED"
  <2>1. Screen(n) = c.tag /\ Screen(c) = c.tag /\ c.tag \in {"PLACE_SHIPS_P2", "TURN_P2"}
    BY <1>1, <1>2 DEF Screen
  <2> QED BY <1>1, <1>2, <2>1 DEF Plays
<1>3. CASE s # "PAUSED"
  <2>1. Screen(n) = s /\ Screen(c) = s /\ c.tag = "PAUSED" /\ s \in {"PLACE_SHIPS_P2", "TURN_P2"}
    BY <1>1, <1>3 DEF Screen
  <2> QED BY <1>1, <2>1 DEF Plays
<1> QED BY <1>2, <1>3

\* The steps of the client's player.
LEMMA ClientPlayerPlays ==
  ASSUME Patient, DuelInv, Player(Client)
  PROVE  \E n : Become(Client, n) /\ DOMAIN n = Fields /\ Plays(con[Client], n) /\ n.out \in Seq(ToHost)
<1> DEFINE c == con[Client]
<1>1. ClientOK(c) /\ c.role = Client /\ DOMAIN c = Fields /\ c.out = << >>
      /\ (c.tag = "PAUSED" => c.prev \in {"PLACE_SHIPS_P2", "TURN_P2"})
  BY DuelSays, ClientFields DEF InOrder, Wires
<1>2. \A n : ClientStep(c, n) => DOMAIN n = Fields /\ n.out \in Seq(ToHost)
  BY ClientFields DEF ClientStep
<1>3. CASE Menu(Client)
  <2>1. PICK option \in 1 .. 3 : Become(Client, MenuChoose(c, option))
    BY <1>3 DEF Menu
  <2>2. c.tag = "MAIN_MENU"
    BY <1>3 DEF Menu
  <2>3. PICK n : n = MenuChoose(c, option)
    OBVIOUS
  <2>4. ClientStep(c, n)
    BY <1>1, <2>2, <2>3, ClientMenu
  <2>5. n.over = TRUE \/ n.tag \in Lobby \ {"GAME_OVER"}
    <3>1. CASE option = 1
      <4>1. n = StartMulti(c)
        BY <2>3, <3>1 DEF MenuChoose
      <4>2. n.tag = "WAITING_CONNECT"
        BY <1>1, <4>1 DEF StartMulti, NewGame, CalmRenderer, ClearBoards, Transition, Fields
      <4> QED BY <4>2 DEF Lobby
    <3>2. CASE option = 2
      <4>1. n = Transition(c, "INSTRUCTIONS")
        BY <2>3, <3>2 DEF MenuChoose
      <4>2. n.tag = "INSTRUCTIONS"
        BY <1>1, <4>1 DEF Transition, Fields
      <4> QED BY <4>2 DEF Lobby
    <3>3. CASE option = 3
      <4>1. n = Quit(c)
        BY <2>3, <3>3 DEF MenuChoose
      <4>2. n.over = TRUE
        BY <1>1, <4>1 DEF Quit, Send, Fields
      <4> QED BY <4>2
    <3>4. option = 1 \/ option = 2 \/ option = 3
      OBVIOUS
    <3> HIDE DEF c
    <3> QED BY <3>1, <3>2, <3>3, <3>4
  <2>6. Plays(c, n)
    BY <2>2, <2>5 DEF Plays, Lobby
  <2> QED BY <1>2, <2>1, <2>3, <2>4, <2>6
<1>4. CASE LeaveInstructions(Client)
  <2>1. PICK n : n = Transition(c, "MAIN_MENU")
    OBVIOUS
  <2>2. ClientStep(c, n) /\ Become(Client, n) /\ c.tag = "INSTRUCTIONS"
    BY <1>1, <1>4, <2>1, ClientReads DEF LeaveInstructions
  <2>3. n.tag = "MAIN_MENU"
    BY <1>1, <2>1 DEF Transition, Fields
  <2>4. Plays(c, n)
    BY <2>2, <2>3 DEF Plays, Lobby
  <2> QED BY <1>2, <2>2, <2>4
<1>5. CASE Place(Client)
  <2>1. PICK cells \in Footprints(ShipSizes[c.idx + 1]) : Become(Client, PutShip(c, cells))
    BY <1>5 DEF Place
  <2>2. c.tag = "PLACE_SHIPS_P2"
    BY <1>1, <1>5 DEF Place, PlacesByKey, PlacesByMouse, Host, Client
  <2>3. PICK n : n = PutShip(c, cells)
    OBVIOUS
  <2>4. n = c \/ \E ship : Placed(c, n, ship)
    BY <1>1, <2>2, <2>3, ClientPlaces
  <2>5. ClientOK(n)
    BY <1>1, <2>4 DEF Placed
  <2>6. Plays(c, n)
    BY <2>2 DEF Plays, Screen
  <2> QED BY <2>1, <2>3, <2>5, <2>6, ClientFields
<1>6. CASE Fire(Client)
  <2>1. PICK x \in Cells : Become(Client, FireAt(c, x))
    BY <1>6 DEF Fire
  <2>2. PICK n : n = FireAt(c, x)
    OBVIOUS
  <2>3. ClientStep(c, n)
    BY <1>1, <2>2, ClientFires
  <2>4. c.tag = "TURN_P2" /\ ~Exploding(c) /\ ~ShotOpen
    BY <1>1, <1>6 DEF Fire, CanFire, OwnsTurn, Host, Client, Patient
  <2>5. Screen(c) = "TURN_P2"
    BY <2>4 DEF Screen
  <2>6. CASE n = c
    <3>1. Plays(c, n)
      BY <1>1, <2>4, <2>5, <2>6 DEF Plays
    <3> QED BY <1>2, <2>1, <2>2, <2>3, <3>1
  <2>7. CASE n # c
    <3>1. PICK msg, k : msg = [type |-> "ATTACK", cell |-> x] /\ k = Explode(c, x, FALSE)
      OBVIOUS
    <3>2. n = Send(k, msg)
      BY <1>1, <2>2, <2>7, <3>1 DEF FireAt, Host, Client
    <3>3. /\ DOMAIN k = Fields /\ k.tag = c.tag /\ k.prev = c.prev /\ k.expl = "blast" /\ k.ishit = FALSE
          /\ k.eticks = 0 /\ k.out = << >>
      BY <1>1, <3>1 DEF Explode, Fields
    <3>4. /\ n.tag = c.tag /\ n.prev = c.prev /\ n.expl = "blast" /\ n.ishit = FALSE
          /\ n.eticks = 0 /\ n.out = Append(k.out, msg)
      BY <3>2, <3>3 DEF Send, Fields
    <3>5. msg \in ToHost /\ msg.type = "ATTACK" /\ n.out = <<msg>>
      BY <3>1, <3>3, <3>4 DEF ToHost
    <3>6. Screen(n) = "TURN_P2" /\ Blasts(n)
      BY <2>4, <3>4 DEF Screen, Blasts
    <3>7. Plays(c, n)
      BY <2>4, <3>4, <3>5, <3>6 DEF Plays, Shoots
    <3> QED BY <1>2, <2>1, <2>2, <2>3, <3>7
  <2> QED BY <2>6, <2>7
<1>7. CASE Pause(Client)
  <2>1. PICK n : n = Transition(c, "PAUSED")
    OBVIOUS
  <2>2. ClientStep(c, n) /\ Become(Client, n) /\ (PlacesByKey(c) \/ CanFire(c))
    BY <1>1, <1>7, <2>1, ClientPauses DEF Pause
  <2>3. c.tag \in {"PLACE_SHIPS_P2", "TURN_P2"} /\ (c.tag = "TURN_P2" => ~Exploding(c))
    BY <1>1, <2>2 DEF PlacesByKey, CanFire, OwnsTurn, Host, Client
  <2>4. Plays(c, n)
    BY <1>1, <2>1, <2>3, PausePlays
  <2> QED BY <1>2, <2>2, <2>4
<1>8. CASE PauseEnter(Client)
  <2>1. PICK option \in 0 .. 1 : Become(Client, PauseChoose(c, option))
    BY <1>8 DEF PauseEnter
  <2>2. PICK n : n = PauseChoose(c, option)
    OBVIOUS
  <2>3. c.tag = "PAUSED" /\ ClientStep(c, n)
    BY <1>1, <1>8, <2>2, ClientResumes DEF PauseEnter
  <2>4. Plays(c, n)
    <3>1. CASE option = 0
      <4>1. n = Transition(c, c.prev)
        BY <2>2, <3>1 DEF PauseChoose
      <4> QED BY <1>1, <2>3, <4>1, PausePlays
    <3>2. CASE option # 0
      <4>1. n = Quit(c)
        BY <2>2, <3>2 DEF PauseChoose
      <4>2. n.over = TRUE
        BY <1>1, <4>1 DEF Quit, Send, Fields
      <4> QED BY <4>2 DEF Plays
    <3> QED BY <3>1, <3>2
  <2> QED BY <1>2, <2>1, <2>2, <2>3, <2>4
<1>9. CASE PauseArrow(Client)
  <2>1. PICK n : n = Arrow(c, "down")
    OBVIOUS
  <2>2. ClientStep(c, n) /\ Become(Client, n) /\ c.tag = "PAUSED"
    BY <1>1, <1>9, <2>1, ClientArrows DEF PauseArrow
  <2>3. n.tag = c.tag /\ n.prev = c.prev /\ n.out = << >>
    BY <1>1, <2>1 DEF Arrow, Fields
  <2>4. Screen(n) = Screen(c) /\ Screen(c) \in {"PLACE_SHIPS_P2", "TURN_P2"}
    BY <1>1, <2>2, <2>3 DEF Screen
  <2>5. Plays(c, n)
    BY <2>2, <2>3, <2>4 DEF Plays
  <2> QED BY <1>2, <2>2, <2>5
<1>10. CASE GameOverEnter(Client)
  <2>1. PICK n : n = Rematch(c)
    OBVIOUS
  <2>2. c.tag = "GAME_OVER" /\ Become(Client, n)
    BY <1>10, <2>1 DEF GameOverEnter
  <2>3. ClientStep(c, n)
    BY <1>1, <2>1, <2>2, ClientRematch
  <2>4. n.tag = "MAIN_MENU"
    BY <1>1, <2>1 DEF Rematch, CalmRenderer, ClearBoards, Transition, Send, Fields
  <2>5. Plays(c, n)
    BY <2>2, <2>4 DEF Plays, Lobby
  <2> QED BY <1>2, <2>2, <2>3, <2>5
<1>11. CASE GameOverEsc(Client)
  <2>1. PICK n : n = [c EXCEPT !.over = TRUE]
    OBVIOUS
  <2>2. Become(Client, n)
    BY <1>11, <2>1 DEF GameOverEsc
  <2>3. DOMAIN n = Fields /\ n.over = TRUE /\ n.out = << >>
    BY <1>1, <2>1 DEF Fields
  <2>4. << >> \in Seq(ToHost)
    OBVIOUS
  <2> QED BY <2>2, <2>3, <2>4 DEF Plays
<1> QED BY <1>3, <1>4, <1>5, <1>6, <1>7, <1>8, <1>9, <1>10, <1>11 DEF Player

\* One shot among messages that are none.
LEMMA FirstAsked ==
  ASSUME NEW q \in Seq(ToHost), ~Asking(q), NEW msg \in ToHost
  PROVE  OneShot(q \o <<msg>>)
<1>1. PICK w \in Seq(ToHost) : w = <<msg>> /\ Len(w) = 1
  <2>1. <<msg>> \in Seq(ToHost) /\ Len(<<msg>>) = 1
    OBVIOUS
  <2> QED BY <2>1
<1>2. /\ Len(q \o w) = Len(q) + Len(w)
      /\ \A j \in 1 .. Len(q) + Len(w) : (q \o w)[j] = IF j <= Len(q) THEN q[j] ELSE w[j - Len(q)]
  BY ConcatProperties
<1>3. /\ Len(q) \in Nat /\ Len(q \o w) = Len(q) + 1
      /\ \A j \in 1 .. Len(q) + 1 : (q \o w)[j] = IF j <= Len(q) THEN q[j] ELSE w[j - Len(q)]
  BY <1>1, <1>2
<1>4. \A j \in 1 .. Len(q) : q[j].type # "ATTACK"
  BY DEF Asking
<1>5. ASSUME NEW i \in 1 .. Len(q) + 1, (q \o w)[i].type = "ATTACK" PROVE i = Len(q) + 1
  <2>1. ~(i <= Len(q))
    BY <1>3, <1>4, <1>5
  <2> QED BY <1>3, <1>5, <2>1
<1>6. OneShot(q \o w)
  BY <1>3, <1>5 DEF OneShot
<1> QED BY <1>1, <1>6

\* What the client's player does leaves the decision as it is.
LEMMA PlaysOn ==
  ASSUME NEW h, h = con[Host], NEW c, NEW hc, NEW ch \in Seq(ToHost), ch = net[Host], Decided(h, c, hc, ch),
         NEW n, Plays(c, n), n.over = FALSE, n.out \in Seq(ToHost), NEW p, p = ch \o n.out
  PROVE  Decided(h, n, hc, p)
<1>1. CASE c.tag \in Lobby /\ n.tag \in Lobby \ {"GAME_OVER"}
  <2>1. Screen(c) # "TURN_P2" /\ c.tag # "HANDOVER_P2"
    BY <1>1 DEF Screen, Lobby
  <2>2. h.tag # "TURN_P2"
    BY <2>1 DEF Decided, Shooting, InItsTurn
  <2> QED BY <1>1, <2>2 DEF Decided, Shooting, Crowned
<1>2. CASE Screen(c) = "PLACE_SHIPS_P2"
  <2>1. c.tag \in {"PAUSED", "PLACE_SHIPS_P2"}
    BY <1>2 DEF Screen
  <2>2. h.tag # "TURN_P2"
    BY <1>2, <2>1 DEF Decided, Shooting, InItsTurn
  <2>3. h.tag # "GAME_OVER"
    BY <2>1 DEF Decided, Crowned, Lobby
  <2> QED BY <2>2, <2>3 DEF Decided, Shooting, Crowned
<1>3. CASE /\ Screen(c) = "TURN_P2" /\ (c.tag = "TURN_P2" => ~Exploding(c))
           /\ Screen(n) = "TURN_P2" /\ n.out = << >>
  <2>1. c.tag \in {"TURN_P2", "PAUSED"} /\ ~Blasts(c)
    BY <1>3 DEF Screen, Blasts, Exploding
  <2>2. p = ch
    BY <1>3, ConcatEmptySeq
  <2>3. h.tag # "GAME_OVER"
    BY <1>3, <2>1 DEF Decided, Crowned, Lobby
  <2>4. c.tag = "TURN_P2" => c.expl # "splash"
    BY <1>3 DEF Exploding
  <2>5. Shooting(h, n, hc, p)
    BY <1>3, <2>1, <2>2, <2>4 DEF Decided, Shooting, InItsTurn
  <2> QED BY <2>3, <2>5 DEF Decided, Crowned
<1>4. CASE Shoots(c, n)
  <2>1. Settled(h) /\ ~Asking(ch) /\ c.tag = "TURN_P2" /\ ~Exploding(c)
    <3>1. DOMAIN ch = 1 .. Len(ch)
      OBVIOUS
    <3>2. Settled(h) /\ \A i \in DOMAIN ch : ch[i].type # "ATTACK"
      BY <1>4 DEF Shoots, ShotOpen
    <3> QED BY <1>4, <3>1, <3>2 DEF Shoots, Asking
  <2>2. h.tag # "GAME_OVER"
    BY <2>1 DEF Decided, Crowned, Lobby
  <2>3. OneShot(p)
    BY <1>4, <2>1, FirstAsked DEF Shoots
  <2>4. Blasts(n) /\ n.eticks = 0 /\ Screen(n) = "TURN_P2"
    BY <1>4 DEF Shoots
  <2>5. h.expl # "blast" /\ ~h.done
    BY <2>1 DEF Settled, Exploding
  <2>6. h.tag = "TURN_P2" => InItsTurn(h, n, hc, p)
    BY <2>1, <2>4 DEF Decided, Shooting, InItsTurn
  <2>7. Shooting(h, n, hc, p)
    BY <2>1, <2>3, <2>4, <2>5, <2>6 DEF Shooting
  <2> QED BY <2>2, <2>7 DEF Decided, Crowned
<1> QED BY <1>1, <1>2, <1>3, <1>4 DEF Plays

\* A step of the client that decides nothing leaves the winner alone.
LEMMA ClientDidOn ==
  ASSUME DuelInv, WinInv, Running(Client), NEW n, Become(Client, n), DOMAIN n = Fields, Plays(con[Client], n),
         n.out \in Seq(ToHost)
  PROVE  WinInv'
<1> DEFINE h == con[Host]
           c == con[Client]
<1>2. /\ Unbeaten(h) /\ DOMAIN h = Fields /\ net[Host] \in Seq(ToHost) /\ h.over \in BOOLEAN /\ c.over = FALSE
      /\ (h.over = FALSE => Host \notin gone)
  <2>1. c.over \in BOOLEAN
    BY DuelSays, ClientFields
  <2> QED BY <2>1, DuelSays DEF WinInv, Deciding, DuelInv, InOrder, Wires, HostOK, HostShape, Running
<1>3. PICK e : e = Spare(n)
  OBVIOUS
<1>4. /\ con'[Client] = e /\ con'[Host] = h /\ net'[Client] = net[Client] /\ gone' = gone
      /\ net'[Host] = Sent(Host, gone, net[Host], n.out)
  BY <1>3, AfterClient
<1>5. e.over = n.over
  BY <1>3 DEF Spare, Fields
<1>6. ASSUME h.over = FALSE, n.over = FALSE PROVE Decided(h, e, net[Client], net'[Host])
  <2>1. PICK p : p = net[Host] \o n.out /\ p = net'[Host]
    BY <1>2, <1>4, <1>6 DEF Sent
  <2>2. Decided(h, c, net[Client], net[Host])
    BY <1>2, <1>6 DEF WinInv, Deciding, Decided
  <2>3. Decided(h, n, net[Client], p)
    BY <1>2, <1>6, <2>1, <2>2, PlaysOn
  <2> QED BY <1>2, <1>3, <2>1, <2>3, DecidedSpare
<1>7. Deciding(h, e, net[Client], net'[Host])
  BY <1>2, <1>5, <1>6 DEF Deciding, Decided
<1> QED BY <1>4, <1>7 DEF WinInv

\* The client's player decides nothing.
LEMMA ClientPlaysOn == ASSUME Patient, DuelInv, WinInv, Player(Client) PROVE WinInv'
<1>1. PICK n : Become(Client, n) /\ DOMAIN n = Fields /\ Plays(con[Client], n) /\ n.out \in Seq(ToHost)
  BY ClientPlayerPlays
<1>2. Running(Client)
  BY DEF Player, Menu, LeaveInstructions, Place, Fire, Pause, PauseEnter, PauseArrow, GameOverEnter, GameOverEsc
<1> QED BY <1>1, <1>2, ClientDidOn

\* Nor does the client that says hello.
LEMMA SaidOn == ASSUME DuelInv, WinInv, SayHello PROVE WinInv'
<1> DEFINE c == con[Client]
<1>1. PICK n : n = Send(c, [type |-> "HELLO"])
  OBVIOUS
<1>2. Become(Client, n) /\ Running(Client) /\ c.tag = "WAITING_CONNECT" /\ ClientOK(c)
  BY <1>1, DuelSays DEF SayHello
<1>3. ClientOK(n) /\ n.tag = c.tag
  BY <1>1, <1>2, ClientGreets DEF ClientStep
<1>4. DOMAIN n = Fields /\ n.out \in Seq(ToHost)
  BY <1>3, ClientFields
<1>5. Plays(c, n)
  BY <1>2, <1>3 DEF Plays, Lobby
<1> QED BY <1>2, <1>4, <1>5, ClientDidOn

\* A program leaves.
LEMMA LeavesOn == ASSUME DuelInv, WinInv, NEW r \in Roles, Leave(r) PROVE WinInv'
<1>1. con' = con /\ con[r].over = TRUE /\ (r = Host \/ r = Client)
  <2>1. con[Host].over \in BOOLEAN /\ con[Client].over \in BOOLEAN
    BY DuelSays, ClientFields DEF HostOK, HostShape
  <2> QED BY <2>1 DEF Leave, Roles
<1>2. Unbeaten(con[Host])
  BY DEF WinInv, Deciding
<1>3. Deciding(con[Host], con[Client], net'[Client], net'[Host])
  BY <1>1, <1>2 DEF Deciding
<1> QED BY <1>1, <1>3 DEF WinInv

----------------------------------------------------------------------------
(* A message to the host                                                   *)

\* One message less to read changes nothing.
LEMMA ReadsOn ==
  ASSUME NEW h, NEW c, NEW hc, NEW ch \in Seq(ToHost), ch # << >>, Decided(h, c, hc, ch), NEW p, p = Tail(ch)
  PROVE  Decided(h, c, hc, p)
<1>1. /\ Len(ch) \in Nat \ {0} /\ Len(p) = Len(ch) - 1
      /\ \A i \in 1 .. Len(ch) - 1 : p[i] = ch[i + 1]
  BY TailOf
<1>2. \A i \in 1 .. Len(p) : i + 1 \in 1 .. Len(ch) /\ p[i] = ch[i + 1]
  BY <1>1
<1>3. Asking(p) => Asking(ch)
  BY <1>2 DEF Asking
<1>4. OneShot(ch) => OneShot(p)
  <2> SUFFICES ASSUME OneShot(ch), NEW i \in 1 .. Len(p), NEW j \in 1 .. Len(p),
                      p[i].type = "ATTACK", p[j].type = "ATTACK"
               PROVE  i = j
    BY DEF OneShot
  <2>1. i + 1 \in 1 .. Len(ch) /\ j + 1 \in 1 .. Len(ch)
        /\ ch[i + 1].type = "ATTACK" /\ ch[j + 1].type = "ATTACK"
    BY <1>2
  <2>2. i + 1 = j + 1
    BY <2>1 DEF OneShot
  <2> QED BY <1>1, <2>2
<1>5. InItsTurn(h, c, hc, ch) => InItsTurn(h, c, hc, p)
  BY <1>3 DEF InItsTurn
<1> QED BY <1>3, <1>4, <1>5 DEF Decided, Shooting

\* A message that finds the host the same and unanswered.
LEMMA HearsIdly ==
  ASSUME NEW h, NEW c, NEW hc \in Seq(ToClient), NEW ch \in Seq(ToHost), ch # << >>, Deciding(h, c, hc, ch),
         h.out = << >>, NEW g, Client \in g => hc = << >>, NEW n, n = h, NEW q, q = Sent(Client, g, hc, n.out)
  PROVE  Deciding(n, c, q, Tail(ch))
<1>1. q = hc
  BY ConcatEmptySeq DEF Sent
<1>2. Unbeaten(h) /\ (h.over = FALSE /\ c.over = FALSE => Decided(h, c, hc, ch))
  BY DEF Deciding, Decided
<1>3. h.over = FALSE /\ c.over = FALSE => Decided(h, c, hc, Tail(ch))
  BY <1>2, ReadsOn
<1> QED BY <1>1, <1>2, <1>3 DEF Deciding, Decided

\* The first hello of a game reaches a host without one.
LEMMA HelloOn ==
  ASSUME NEW h, HostOK(h), ~h.connected, Unbeaten(h), NEW c, c.tag = "WAITING_CONNECT",
         NEW n, n = Hello(h), NEW q, NEW p
  PROVE  Deciding(n, c, q, p)
<1>1. DOMAIN h = Fields /\ HostAt(h) = "lobby" /\ (h.tag = "PAUSED" => h.prev \in {"PLACE_SHIPS_P1", "TURN_P1"})
  BY DEF HostOK, HostShape, HostScreens
<1>2. h.tag \in Lobby
  <2>1. Screen(h) \in Lobby
    <3>1. h.tag \in Tags /\ h.prev \in Tags
      BY DEF HostOK, Ranges
    <3>2. Screen(h) # "lobby"
      BY <3>1 DEF Screen, Tags
    <3> QED BY <1>1, <3>2 DEF HostAt
  <2> QED BY <1>1, <2>1 DEF Screen, Lobby
<1>3. (n.tag = h.tag \/ n.tag = "PLACE_SHIPS_P1") /\ n.expl = h.expl /\ n.ishit = h.ishit
  <2>1. CASE h.tag = "WAITING_CONNECT"
    BY <1>1, <2>1, HelloDoes DEF Keeps, Fields
  <2>2. CASE h.tag # "WAITING_CONNECT"
    BY <1>1, <2>2, HelloDoes DEF Keeps, Fields
  <2> QED BY <2>1, <2>2
<1>4. Screen(n) \notin Fighting /\ n.tag # "TURN_P2"
  BY <1>2, <1>3 DEF Screen, Lobby, Fighting
<1>5. Unbeaten(n)
  BY <1>3, <1>4, UnbeatenAtPeace
<1>6. c.tag \in Lobby \ {"GAME_OVER"}
  BY DEF Lobby
<1> QED BY <1>4, <1>5, <1>6 DEF Deciding, Shooting, Crowned

\* The client's fleet, and the word that it is complete.
LEMMA FleetOn ==
  ASSUME NEW h, HostOK(h), h.tag = "PLACE_SHIPS_WAITING", h.out = << >>, Unbeaten(h), NEW c, NEW msg,
         msg.type \in {"SHIP", "DONE"}, NEW n, n = HostReceives(h, msg), NEW q, NEW p
  PROVE  Deciding(n, c, q, p)
<1>1. DOMAIN h = Fields /\ Good(h.p1) /\ ShotOn(h.p1) = {} /\ Len(h.p1.ships) = NumShips
  BY DEF HostOK, HostShape, HostBoards
<1>2. CASE msg.type = "SHIP"
  <2>1. n = [h EXCEPT !.p2 = PlaceShip(@, msg.cells, msg.size)]
    BY <1>2 DEF HostReceives
  <2>2. n.tag = h.tag /\ n.expl = h.expl /\ n.ishit = h.ishit
    BY <1>1, <2>1 DEF Fields
  <2>3. Screen(n) \notin Fighting
    BY <2>2 DEF Screen, Fighting
  <2>4. Unbeaten(n)
    BY <2>2, <2>3, UnbeatenAtPeace
  <2> QED BY <2>2, <2>4 DEF Deciding, Shooting, Crowned
<1>3. CASE msg.type = "DONE"
  <2>1. PICK k : k = [h EXCEPT !.secs = CountdownStart, !.cticks = 0]
    OBVIOUS
  <2>2. n.tag = "COUNTDOWN" /\ n.p1 = h.p1 /\ n.expl = h.expl /\ n.ishit = h.ishit
    BY <1>1, <1>3 DEF HostReceives, DonePlacing, Send, Transition, Fields
  <2>3. ~AllSunk(n.p1)
    BY <1>1, <2>2, Afloat
  <2>4. Unbeaten(n)
    BY <2>2, <2>3 DEF Unbeaten
  <2> QED BY <2>2, <2>4 DEF Deciding, Shooting, Crowned
<1> QED BY <1>2, <1>3

\* A shot of the client is resolved.
LEMMA ShotLands ==
  ASSUME NEW h, HostOK(h), h.tag = "TURN_P2", Settled(h), h.out = << >>, Unbeaten(h), NEW x \in Cells,
         ~AlreadyAttacked(h.p1, x), NEW n, n = Resolve(h, x), NEW c, NEW hc \in Seq(ToClient),
         NEW ch \in Seq(ToHost), Asking(ch), h.over = FALSE /\ c.over = FALSE => Decided(h, c, hc, ch),
         NEW p, ~Asking(p), OneShot(p), NEW g, Client \in g => hc = << >>, NEW q, q = Sent(Client, g, hc, n.out)
  PROVE  Deciding(n, c, q, p)
<1>1. DOMAIN h = Fields /\ Good(h.p1)
  BY DEF HostOK, HostShape
<1>2. Resolved(h, x, n)
  BY <1>1, ResolveDoes
<1>3. /\ n.expl = "blast" /\ n.eticks = 0 /\ n.done = FALSE /\ n.p1 = Attack(h.p1, x)
      /\ n.tag = h.tag /\ n.prev = h.prev /\ n.out = h.out /\ n.over = h.over
  BY <1>2 DEF Resolved, Keeps, Fields
<1>4. n.ishit \in BOOLEAN /\ (n.p1.grid[x] \in {"hit", "sunk"} => n.ishit = TRUE)
  <2>1. PICK b, k : b = Attack(h.p1, x) /\ k = [h EXCEPT !.p1 = b]
    OBVIOUS
  <2>2. PICK hit : hit = (b.grid[x] \in {"hit", "sunk"})
    OBVIOUS
  <2>3. n = Explode(k, x, hit)
    BY <2>1, <2>2 DEF Resolve, Target, SetTarget
  <2>4. DOMAIN k = Fields
    BY <1>1, <2>1
  <2>5. n.ishit = hit
    BY <2>3, <2>4 DEF Explode, Fields
  <2>6. n.p1 = b
    BY <1>3, <2>1
  <2>7. hit \in BOOLEAN
    BY <2>2
  <2>8. ASSUME b.grid[x] \in {"hit", "sunk"} PROVE hit = TRUE
    BY <2>2, <2>8
  <2> QED BY <2>5, <2>6, <2>7, <2>8
<1>5. Unbeaten(n)
  <2>1. Screen(h) = "TURN_P2" /\ h.expl # "blast" /\ ~h.done
    BY DEF Screen, Settled, Exploding
  <2>2. ~AllSunk(h.p1)
    BY <2>1 DEF Unbeaten, Fighting
  <2>3. AllSunk(n.p1) => n.p1.grid[x] \in {"hit", "sunk"}
    BY <1>1, <1>3, <2>2, LossIsAHit
  <2>4. n.ishit \in BOOLEAN /\ (AllSunk(n.p1) => n.ishit = TRUE)
    BY <1>4, <2>3
  <2> QED BY <1>3, <2>4 DEF Unbeaten
<1>6. ASSUME n.over = FALSE, c.over = FALSE PROVE Decided(n, c, q, p)
  <2>1. q = hc
    BY <1>3, ConcatEmptySeq DEF Sent
  <2>2. Blasts(c) /\ c.eticks = 0 /\ InItsTurn(h, c, hc, ch)
    BY <1>3, <1>6 DEF Decided, Shooting
  <2>3. InItsTurn(n, c, hc, p)
    BY <2>2 DEF InItsTurn
  <2> QED BY <1>3, <2>1, <2>2, <2>3 DEF Decided, Shooting, Crowned
<1> QED BY <1>5, <1>6 DEF Deciding, Decided

\* A message to the host decides nothing.
LEMMA HostHearsOn ==
  ASSUME Patient, NEW h, NEW c, NEW hc, NEW ch, NEW g, InOrder(h, c, hc, ch, g), Deciding(h, c, hc, ch),
         ch # << >>, NEW n, n = HostReceives(h, Head(ch)), NEW q, q = Sent(Client, g, hc, n.out)
  PROVE  Deciding(n, c, q, Tail(ch))
<1>1. /\ HostOK(h) /\ Asked(h, c, ch) /\ ch \in Seq(ToHost) /\ hc \in Seq(ToClient) /\ h.out = << >>
      /\ (Client \in g => hc = << >>) /\ DOMAIN h = Fields /\ Unbeaten(h)
  BY DEF InOrder, Wires, HostOK, HostShape, Deciding
<1>2. PICK msg \in ToHost : msg = Head(ch) /\ msg = ch[1] /\ 1 \in 1 .. Len(ch)
  BY <1>1, TailOf
<1>3. n = HostReceives(h, msg)
  BY <1>2
<1>4. PICK p : p = Tail(ch)
  OBVIOUS
<1>5. /\ msg.type = "HELLO" => HostAt(h) \in {"lobby", "PLACE_SHIPS_P1", "PLACE_SHIPS_WAITING"}
      /\ msg.type = "HELLO" /\ HostAt(h) = "lobby" => c.tag = "WAITING_CONNECT"
      /\ msg.type \in {"SHIP", "DONE"} => HostAt(h) = "PLACE_SHIPS_WAITING"
      /\ msg.type = "ATTACK" => Settled(h) /\ \A i \in 1 .. Len(p) : p[i].type # "ATTACK"
  BY <1>1, <1>2, <1>4, AskedNext
<1>6. CASE n = h
  BY <1>1, <1>6, HearsIdly
<1>7. CASE msg.type = "HELLO" /\ n # h
  <2>1. n = Hello(h)
    BY <1>3, <1>7 DEF HostReceives
  <2>2. ~h.connected
    BY <1>7, <2>1 DEF Hello
  <2>3. HostAt(h) = "lobby"
    BY <1>1, <2>2 DEF HostOK, HostScreens
  <2> QED BY <1>1, <1>5, <1>7, <2>1, <2>2, <2>3, HelloOn
<1>8. CASE msg.type \in {"SHIP", "DONE"}
  <2>1. h.tag = "PLACE_SHIPS_WAITING"
    BY <1>1, <1>5, <1>8, HostWhere
  <2> QED BY <1>1, <1>3, <1>8, <2>1, FleetOn
<1>9. CASE msg.type = "QUIT"
  <2>1. n = [h EXCEPT !.over = TRUE]
    BY <1>3, <1>9 DEF HostReceives
  <2>2. /\ n.over = TRUE /\ n.tag = h.tag /\ n.prev = h.prev /\ n.p1 = h.p1 /\ n.expl = h.expl
        /\ n.done = h.done /\ n.ishit = h.ishit
    BY <1>1, <2>1 DEF Fields
  <2>3. Unbeaten(n)
    BY <1>1, <2>2 DEF Unbeaten, Screen
  <2> QED BY <2>2, <2>3 DEF Deciding
<1>10. CASE msg.type = "STATE"
  BY <1>3, <1>6, <1>10 DEF HostReceives
<1>11. CASE msg.type = "ATTACK" /\ n # h
  <2>1. n = AttackAsked(h, msg.cell) /\ msg.cell \in Cells
    BY <1>3, <1>11 DEF HostReceives, ToHost
  <2>2. h.tag = "TURN_P2" /\ ~AlreadyAttacked(h.p1, msg.cell) /\ n = Resolve(h, msg.cell)
    BY <1>11, <2>1 DEF AttackAsked
  <2>3. Asking(ch) /\ ~Asking(p) /\ OneShot(p) /\ Settled(h)
    BY <1>2, <1>5, <1>11 DEF Asking, OneShot
  <2>4. h.over = FALSE /\ c.over = FALSE => Decided(h, c, hc, ch)
    BY DEF Deciding, Decided
  <2>5. Deciding(n, c, q, p)
    BY <1>1, <2>1, <2>2, <2>3, <2>4, ShotLands
  <2> QED BY <1>4, <2>5
<1>12. msg.type \in {"HELLO", "DONE", "QUIT", "STATE", "SHIP", "ATTACK"}
  BY DEF ToHost
<1> QED BY <1>6, <1>7, <1>8, <1>9, <1>10, <1>11, <1>12

----------------------------------------------------------------------------
(* A message to the client                                                 *)

\* The result of a shot.
LEMMA ResultHeard ==
  ASSUME NEW c, DOMAIN c = Fields, NEW msg, msg.type = "RESULT", NEW n, n = ClientReceives(c, msg)
  PROVE  /\ n.tag = c.tag /\ n.prev = c.prev /\ n.word = c.word
         /\ c.tag # "TURN_P1" => n.expl = c.expl /\ n.eticks = c.eticks /\ n.ishit = c.ishit
<1>1. n = ReceiveResult(c, msg.cell, msg.result)
  BY DEF ClientReceives
<1>2. PICK k : k = SetTarget(c, MirrorAttack(Target(c), msg.cell, msg.result))
  OBVIOUS
<1>3. /\ DOMAIN k = Fields /\ k.tag = c.tag /\ k.prev = c.prev /\ k.word = c.word
      /\ k.expl = c.expl /\ k.eticks = c.eticks /\ k.ishit = c.ishit
  BY <1>2 DEF SetTarget, Fields
<1>4. CASE c.tag = "TURN_P1"
  <2>1. n = Explode(k, msg.cell, msg.result # "miss")
    BY <1>1, <1>2, <1>4 DEF ReceiveResult
  <2>2. n.tag = k.tag /\ n.prev = k.prev /\ n.word = k.word
    BY <1>3, <2>1 DEF Explode, Fields
  <2> QED BY <1>3, <1>4, <2>2
<1>5. CASE c.tag # "TURN_P1"
  <2>1. n = k
    BY <1>1, <1>2, <1>5 DEF ReceiveResult
  <2> QED BY <1>3, <2>1
<1> QED BY <1>4, <1>5

\* In the client's turn.
LEMMA HeardInTurn ==
  ASSUME NEW h, h.tag = "TURN_P2", NEW c, DOMAIN c = Fields, NEW hc, hc # << >>, NEW ch, Shooting(h, c, hc, ch),
         NEW n, n = ClientReceives(c, Head(hc))
  PROVE  Shooting(h, n, Tail(hc), ch)
<1>1. InItsTurn(h, c, hc, ch)
  BY DEF Shooting
<1>2. ASSUME Screen(c) = "TURN_P2", NEW msg \in ToClient, msg.type = "RESULT", hc = <<msg>>
      PROVE  Shooting(h, n, Tail(hc), ch)
  <2>1. Head(hc) = msg /\ Tail(hc) = << >>
    BY <1>2
  <2>2. c.tag # "TURN_P1"
    BY <1>2 DEF Screen
  <2>3. /\ n.tag = c.tag /\ n.prev = c.prev
        /\ n.expl = c.expl /\ n.eticks = c.eticks /\ n.ishit = c.ishit
    BY <1>2, <2>1, <2>2, ResultHeard
  <2>4. Screen(n) = "TURN_P2" /\ (Blasts(n) <=> Blasts(c))
    BY <1>2, <2>3 DEF Screen, Blasts
  <2>5. InItsTurn(h, n, Tail(hc), ch)
    BY <2>1, <2>4 DEF InItsTurn
  <2> QED BY <2>3, <2>4, <2>5 DEF Shooting
<1>3. CASE c.tag = "HANDOVER_P2" /\ hc = <<StateMsg("TURN_P2")>> /\ ~Untold(h) /\ ~Asking(ch)
  <2>1. Head(hc) = StateMsg("TURN_P2") /\ Tail(hc) = << >>
    BY <1>3
  <2>2. n = Transition(c, "TURN_P2")
    BY <1>3, <2>1 DEF ClientReceives, Follow, StateMsg
  <2>3. n.tag = "TURN_P2"
    BY <2>2 DEF Transition, Fields
  <2>4. InItsTurn(h, n, Tail(hc), ch)
    BY <2>1, <2>3 DEF InItsTurn, Screen
  <2>5. h.expl # "blast" /\ ~h.done
    BY <1>3 DEF Untold, Exploding
  <2> QED BY <1>3, <2>4, <2>5 DEF Shooting
<1> QED BY <1>1, <1>2, <1>3 DEF InItsTurn

\* While the end of a game is on its way.
LEMMA HeardVerdict ==
  ASSUME NEW h, h.tag = "GAME_OVER", NEW c, DOMAIN c = Fields, NEW hc,
         c.tag = "TURN_P1" \/ (c.tag = "TURN_P2" /\ Exploding(c)), Verdict(h.word, c.word, hc),
         NEW n, n = ClientReceives(c, Head(hc))
  PROVE  Crowned(h, n, Tail(hc))
<1> PICK w, s : w = Ended(h.word) /\ s = StateMsg("GAME_OVER")
  OBVIOUS
<1>1. ASSUME NEW msg \in ToClient, msg.type = "RESULT", hc = <<msg, w, s>>
      PROVE  Crowned(h, n, Tail(hc))
  <2>1. Head(hc) = msg /\ Tail(hc) = <<w, s>>
    BY <1>1
  <2>2. n.tag = c.tag /\ n.word = c.word /\ (c.tag # "TURN_P1" => n.expl = c.expl)
    BY <1>1, <2>1, ResultHeard
  <2>3. n.tag = "TURN_P1" \/ (n.tag = "TURN_P2" /\ Exploding(n))
    BY <2>2 DEF Exploding
  <2>4. Verdict(h.word, n.word, Tail(hc))
    BY <2>1 DEF Verdict
  <2> QED BY <2>3, <2>4 DEF Crowned
<1>2. CASE hc = <<w, s>>
  <2>1. Head(hc) = w /\ Tail(hc) = <<s>>
    BY <1>2
  <2>2. n = [c EXCEPT !.word = h.word]
    BY <2>1 DEF ClientReceives, Ended
  <2>3. n.tag = c.tag /\ n.word = h.word /\ n.expl = c.expl
    BY <2>2 DEF Fields
  <2>4. n.tag = "TURN_P1" \/ (n.tag = "TURN_P2" /\ Exploding(n))
    BY <2>3 DEF Exploding
  <2>5. Verdict(h.word, n.word, Tail(hc))
    BY <2>1, <2>3 DEF Verdict
  <2> QED BY <2>4, <2>5 DEF Crowned
<1>3. CASE hc = <<s>> /\ c.word = h.word
  <2>1. Head(hc) = s
    BY <1>3
  <2>2. n = Transition(c, "GAME_OVER")
    BY <2>1 DEF ClientReceives, Follow, StateMsg
  <2>3. n.tag = "GAME_OVER" /\ n.word = h.word
    BY <1>3, <2>2 DEF Transition, Fields
  <2> QED BY <2>3 DEF Crowned
<1> QED BY <1>1, <1>2, <1>3 DEF Verdict

\* In the lobby a message changes no winner.
LEMMA HeardInLobby ==
  ASSUME NEW c, ClientOK(c), c.tag \in Lobby, NEW msg \in ToClient, NEW m, Hop(Copy(c), msg, m),
         m.at \in {"lobby", "left"}, NEW n, n = ClientReceives(c, msg), n.over = FALSE
  PROVE  n.tag \in Lobby \ {"GAME_OVER"} \/ (n.tag = c.tag /\ n.word = c.word)
<1>1. DOMAIN c = Fields /\ Copy(c).at = "lobby"
  <2>1. Screen(c) \in Lobby
    BY DEF Screen, Lobby
  <2> QED BY <2>1, ClientFields DEF Copy, ClientAt, Idle, Copied
<1>2. \/ msg.type = "HELLO_ACK"
      \/ msg.type = "STATE" /\ Leads(Copy(c), msg.state, m)
  BY <1>1 DEF Hop, Turns
<1>3. CASE msg.type = "HELLO_ACK"
  <2>1. n = [c EXCEPT !.connected = TRUE]
    BY <1>3 DEF ClientReceives
  <2> QED BY <1>1, <2>1 DEF Fields
<1>4. CASE msg.type = "STATE" /\ Leads(Copy(c), msg.state, m)
  <2>1. msg.state = "EXIT" \/ msg.state = "MAIN_MENU"
    <3>1. \A s : Copy(c).at \in Gate(s) => s = "PLACE_SHIPS_P1"
      BY <1>1 DEF Gate
    <3> QED BY <1>1, <1>4, <3>1 DEF Leads, Turns, Copied
  <2>2. n = Follow(c, msg.state)
    BY <1>4 DEF ClientReceives
  <2>3. CASE msg.state = "EXIT"
    <3>1. n.over = TRUE
      BY <1>1, <2>2, <2>3 DEF Follow, Fields
    <3> QED BY <3>1
  <2>4. CASE msg.state = "MAIN_MENU"
    <3>1. CASE c.tag = "WAITING_CONNECT"
      BY <2>2, <2>4, <3>1 DEF Follow
    <3>2. CASE c.tag # "WAITING_CONNECT"
      <4>1. PICK k : k = IF c.tag = "GAME_OVER" THEN CalmRenderer(ClearBoards(c)) ELSE c
        OBVIOUS
      <4>2. n = Transition(k, "MAIN_MENU")
        BY <2>2, <2>4, <3>2, <4>1 DEF Follow
      <4>3. DOMAIN k = Fields
        BY <1>1, <4>1 DEF CalmRenderer, ClearBoards
      <4>4. n.tag = "MAIN_MENU"
        BY <4>2, <4>3 DEF Transition, Fields
      <4> QED BY <4>4 DEF Lobby
    <3> QED BY <3>1, <3>2
  <2> QED BY <2>1, <2>3, <2>4
<1> QED BY <1>2, <1>3, <1>4

\* At the end of a game.
LEMMA HeardAtEnd ==
  ASSUME NEW h, HostOK(h), h.tag = "GAME_OVER", NEW c, ClientOK(c), NEW hc \in Seq(ToClient), hc # << >>,
         Crowned(h, c, hc), NEW l, Ends(h, c, hc, l), NEW n, n = ClientReceives(c, Head(hc)), n.over = FALSE
  PROVE  Crowned(h, n, Tail(hc))
<1>1. DOMAIN c = Fields
  BY ClientFields
<1>2. CASE c.tag \in Lobby
  <2>1. PICK msg \in ToClient : msg = Head(hc)
    BY TailOf
  <2>2. PICK m : Hop(Copy(c), msg, m) /\ Rank(m.at) <= Rank(l.at)
    BY <2>1, HearsNext
  <2>3. m.at = "lobby"
    <3>1. Screen(c) \in Lobby /\ Screen(h) \in Lobby
      BY <1>2 DEF Screen, Lobby
    <3>2. Copy(c).at = "lobby" /\ HostAt(h) = "lobby"
      BY <3>1 DEF Copy, ClientAt, Idle, Copied, HostAt
    <3>3. l.at \in {"lobby", "left"} /\ Rank(l.at) <= 2
      BY <3>2 DEF Ends, Mirror, Rank
    <3>4. l.at = "lobby"
      BY <3>3 DEF Rank, Fighting
    <3>5. Rank(m.at) \in 0 .. 5 /\ (Rank(m.at) = 0 => m.at = "lobby") /\ Rank(l.at) = 0
      BY <3>4, RankSays DEF Rank
    <3> QED BY <2>2, <3>5
  <2>4. n.tag \in Lobby \ {"GAME_OVER"} \/ (n.tag = c.tag /\ n.word = c.word)
    BY <1>2, <2>1, <2>2, <2>3, HeardInLobby
  <2>5. \/ c.tag = "GAME_OVER" /\ c.word = h.word
        \/ c.tag \in Lobby \ {"GAME_OVER"}
    BY <1>2 DEF Crowned, Lobby
  <2> QED BY <2>4, <2>5 DEF Crowned
<1>3. CASE c.tag \notin Lobby
  <2>1. (c.tag = "TURN_P1" \/ (c.tag = "TURN_P2" /\ Exploding(c))) /\ Verdict(h.word, c.word, hc)
    BY <1>3 DEF Crowned, Lobby
  <2> QED BY <1>1, <2>1, HeardVerdict
<1> QED BY <1>2, <1>3

\* A message to the client leaves the winner alone.
LEMMA ClientHearsOn ==
  ASSUME NEW h, NEW c, NEW hc, NEW ch, NEW g, InOrder(h, c, hc, ch, g), Deciding(h, c, hc, ch), Client \notin g,
         hc # << >>, c.over = FALSE, NEW n, n = ClientReceives(c, Head(hc)), NEW p, p = Sent(Host, g, ch, n.out)
  PROVE  Deciding(h, n, Tail(hc), p)
<1>1. /\ HostOK(h) /\ ClientOK(c) /\ hc \in Seq(ToClient) /\ ch \in Seq(ToHost) /\ c.out = << >>
      /\ (Host \in g => ch = << >>) /\ DOMAIN c = Fields /\ Unbeaten(h)
  BY ClientFields DEF InOrder, Wires, Deciding
<1>2. PICK l : Ends(h, c, hc, l)
  BY DEF InOrder, Linked
<1>3. n.out = << >>
  BY <1>1, <1>2, HearsNext DEF Arrives
<1>4. p = ch
  BY <1>1, <1>3, ConcatEmptySeq DEF Sent
<1>5. ASSUME h.over = FALSE, n.over = FALSE PROVE Decided(h, n, Tail(hc), ch)
  <2>1. Shooting(h, c, hc, ch) /\ Crowned(h, c, hc)
    BY <1>5 DEF Deciding
  <2>2. CASE h.tag = "TURN_P2"
    BY <1>1, <2>1, <2>2, HeardInTurn DEF Decided, Crowned
  <2>3. CASE h.tag = "GAME_OVER"
    BY <1>1, <1>2, <1>5, <2>1, <2>3, HeardAtEnd DEF Decided, Shooting
  <2> QED BY <2>2, <2>3 DEF Decided, Shooting, Crowned
<1> QED BY <1>1, <1>4, <1>5 DEF Deciding, Decided

\* A message is delivered.
LEMMA DeliveredOn == ASSUME Patient, DuelInv, WinInv, NEW r \in Roles, Deliver(r) PROVE WinInv'
<1>1. /\ InOrder(con[Host], con[Client], net[Client], net[Host], gone)
      /\ con[Host].role = Host /\ con[Client].role = Client /\ net[r] # << >>
      /\ con[Host].over \in BOOLEAN /\ con[Client].over \in BOOLEAN /\ Running(r)
      /\ DOMAIN con[Host] = Fields
  BY DuelSays, ClientFields DEF Deliver, HostOK, HostShape
<1>2. DOMAIN con = Roles /\ DOMAIN net = Roles /\ Host \in Roles /\ Client \in Roles /\ Host # Client
  BY DEF DuelInv, Roles, Host, Client
<1>3. PICK n : n = Receive(con[r], Head(net[r]))
  OBVIOUS
<1>4. /\ con' = [con EXCEPT ![r] = Spare(n)] /\ gone' = gone
      /\ net' = [net EXCEPT ![r] = Tail(@), ![Peer(r)] = Posted(Peer(r), n.out)]
  BY <1>3 DEF Deliver
<1>5. CASE r = Host
  <2>1. n = HostReceives(con[Host], Head(net[Host])) /\ Host \notin gone /\ net[Host] # << >>
    BY <1>1, <1>3, <1>5, DuelSays DEF Receive
  <2>2. PICK q : q = Sent(Client, gone, net[Client], n.out)
    OBVIOUS
  <2>3. DOMAIN n = Fields
    <3>1. PICK e : e = Spare(n)
      OBVIOUS
    <3>2. InOrder(e, con[Client], q, Tail(net[Host]), gone)
      BY <1>1, <2>1, <2>2, <3>1, HostHears
    <3>3. DOMAIN e = Fields
      BY <3>2 DEF InOrder, HostOK, HostShape
    <3> QED BY <3>1, <3>3 DEF Spare
  <2>4. Deciding(n, con[Client], q, Tail(net[Host]))
    BY <1>1, <2>1, <2>2, HostHearsOn DEF WinInv
  <2>5. Deciding(Spare(n), con[Client], q, Tail(net[Host]))
    <3>1. PICK e : e = Spare(n)
      OBVIOUS
    <3>2. Unbeaten(e) /\ e.over = n.over
      BY <2>3, <2>4, <3>1, UnbeatenSpare DEF Deciding
    <3>3. DOMAIN con[Client] = Fields
      BY DuelSays, ClientFields
    <3>4. ASSUME n.over = FALSE, con[Client].over = FALSE PROVE Decided(e, con[Client], q, Tail(net[Host]))
      <4>1. Decided(n, con[Client], q, Tail(net[Host]))
        BY <2>4, <3>4 DEF Deciding, Decided
      <4> QED BY <2>3, <3>1, <3>3, <4>1, DecidedSpare
    <3> QED BY <3>1, <3>2, <3>4 DEF Deciding, Decided
  <2>6. Peer(r) = Client
    BY <1>5 DEF Peer
  <2>7. /\ con'[Host] = Spare(n) /\ con'[Client] = con[Client]
        /\ net'[Host] = Tail(net[Host]) /\ net'[Client] = Posted(Client, n.out)
    BY <1>2, <1>4, <1>5, <2>6
  <2>8. net'[Client] = q
    BY <2>2, <2>7 DEF Posted, Sent
  <2> QED BY <2>5, <2>7, <2>8 DEF WinInv
<1>6. CASE r = Client
  <2>1. /\ n = ClientReceives(con[Client], Head(net[Client])) /\ net[Client] # << >>
        /\ con[Client].over = FALSE /\ Client \notin gone
    BY <1>1, <1>2, <1>3, <1>6, DuelSays DEF Receive, Running
  <2>2. PICK p : p = Sent(Host, gone, net[Host], n.out)
    OBVIOUS
  <2>3. Deciding(con[Host], n, Tail(net[Client]), p)
    BY <1>1, <2>1, <2>2, ClientHearsOn DEF WinInv
  <2>4. DOMAIN n = Fields
    <3>1. PICK l : Ends(con[Host], con[Client], net[Client], l)
      BY <1>1, <2>1 DEF InOrder, Linked
    <3>2. HostOK(con[Host]) /\ ClientOK(con[Client]) /\ net[Client] \in Seq(ToClient)
      BY <1>1 DEF InOrder, Wires
    <3>3. ClientOK(n)
      BY <2>1, <3>1, <3>2, HearsNext DEF Arrives
    <3> QED BY <3>3, ClientFields
  <2>5. Deciding(con[Host], Spare(n), Tail(net[Client]), p)
    <3>1. PICK e : e = Spare(n)
      OBVIOUS
    <3>2. e.over = n.over
      BY <2>4, <3>1 DEF Spare, Fields
    <3>3. ASSUME con[Host].over = FALSE, n.over = FALSE PROVE Decided(con[Host], e, Tail(net[Client]), p)
      <4>1. Decided(con[Host], n, Tail(net[Client]), p)
        BY <2>3, <3>3 DEF Deciding, Decided
      <4> QED BY <1>1, <2>4, <3>1, <4>1, DecidedSpare
    <3> QED BY <2>3, <3>1, <3>2, <3>3 DEF Deciding, Decided
  <2>6. Peer(r) = Host
    BY <1>2, <1>6 DEF Peer
  <2>7. /\ con'[Client] = Spare(n) /\ con'[Host] = con[Host]
        /\ net'[Client] = Tail(net[Client]) /\ net'[Host] = Posted(Host, n.out)
    BY <1>2, <1>4, <1>6, <2>6
  <2>8. net'[Host] = p
    BY <2>2, <2>7 DEF Posted, Sent
  <2> QED BY <2>5, <2>7, <2>8 DEF WinInv
<1> QED BY <1>5, <1>6 DEF Roles

\* Every step leaves the winner as it is, or makes one.
LEMMA WinnersGoOn ==
  ASSUME Timely, Patient, TicksPerSec > 1, SplashTicks > 1, DuelInv, WinInv, [Next]_vars
  PROVE  WinInv'
<1>1. CASE Next
  <2>1. ASSUME NEW r \in Roles, Player(r) PROVE WinInv'
    <3>1. r = Host \/ r = Client
      BY DEF Roles
    <3> QED BY <2>1, <3>1, HostPlaysOn, ClientPlaysOn
  <2>2. ASSUME NEW r \in Roles, Machine(r) PROVE WinInv'
    <3>1. ~TickAlone(r)
      BY DEF TickAlone
    <3> QED BY <2>2, <3>1, DeliveredOn, LeavesOn DEF Machine
  <2>3. CASE SayHello
    BY <2>3, SaidOn
  <2>4. CASE TickTogether
    BY <2>4, BothTickOn
  <2> QED BY <1>1, <2>1, <2>2, <2>3, <2>4 DEF Next
<1>2. CASE UNCHANGED vars
  BY <1>2 DEF vars, WinInv
<1> QED BY <1>1, <1>2

\* Before a game nobody has won.
LEMMA NobodyHasWon == ASSUME Init PROVE WinInv
<1>1. PICK h : h = Fresh(Host)
  OBVIOUS
<1>2. con[Host] = h
  BY <1>1 DEF Init, Roles, Host, Client
<1>3. h.expl = "none" /\ h.ishit = FALSE /\ h.tag = "MAIN_MENU"
  BY <1>1 DEF Fresh
<1>4. Unbeaten(h)
  BY <1>3, UnbeatenAtRest DEF Screen, Fighting
<1> QED BY <1>2, <1>3, <1>4 DEF WinInv, Deciding, Shooting, Crowned

\* Both screens name the same winner, if both clocks tick together, messages arrive
\* within a tick, nobody fires before the last result is read, and neither the
\* handover nor the splash of a miss is over within one tick.
THEOREM DuelSameWinner ==
  ASSUME Timely, Hasty = {}, TicksPerSec > 1, SplashTicks > 1 PROVE Spec => []SameWinner
<1>1. ASSUME DuelInv, WinInv PROVE SameWinner
  <2> SUFFICES ASSUME Quiet, HostView.tag = "GAME_OVER", ClientView.tag = "GAME_OVER"
               PROVE  HostView.word = ClientView.word
    BY DEF SameWinner
  <2>1. con[Host].over \in BOOLEAN /\ con[Client].over \in BOOLEAN
    BY <1>1, DuelSays, ClientFields DEF HostOK, HostShape
  <2>2. Running(Host) /\ Running(Client)
    BY DEF Quiet, Roles
  <2>3. con[Host].over = FALSE /\ con[Client].over = FALSE
    BY <2>1, <2>2 DEF Running
  <2>4. Crowned(con[Host], con[Client], net[Client])
    BY <1>1, <2>3 DEF WinInv, Deciding
  <2> QED BY <2>4 DEF Crowned, HostView, ClientView
<1>2. Patient
  BY DEF Patient
<1>3. Init => WinInv
  BY NobodyHasWon
<1>4. DuelInv /\ WinInv /\ [Next]_vars => WinInv'
  BY <1>2, WinnersGoOn
<1> QED BY <1>1, <1>3, <1>4, DuelStaysInOrder, PTL DEF Spec
=============================================================================
