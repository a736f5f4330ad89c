---------------------------- MODULE Duel_proofs ----------------------------
(***************************************************************************)
(* Two programs and a cable, for every sea, every fleet and every timing:   *)
(* the messages under way lead the client to where the host is, and finish  *)
(* the host's copy of the client's fleet.                                   *)
(***************************************************************************)
EXTENDS Duel, Board_proofs

\* What an instance of the program keeps.
Fields == {"role", "tag", "prev", "over", "single", "connected", "ready", "word", "idx",
           "p1", "p2", "secs", "cticks", "botTimer", "bot", "waiting", "post", "expl",
           "eticks", "done", "at", "ishit", "clicked", "out"}

Turns == {"TURN_P1", "TURN_P2"}
Lobby == {"MAIN_MENU", "INSTRUCTIONS", "WAITING_CONNECT", "GAME_OVER"}

\* Nobody fires before the last result is read.
Patient == Hasty = {}

\* The messages on the cable, from client to host and from host to client.
ToHost ==
  [type : {"HELLO", "DONE", "QUIT"}]
    \cup [type : {"STATE"}, state : {"MAIN_MENU", "EXIT"}]
    \cup [type : {"SHIP"}, cells : SUBSET Cells, size : Nat \ {0}]
    \cup [type : {"ATTACK"}, cell : Cells]

ToClient ==
  [type : {"HELLO_ACK"}]
    \cup [type : {"STATE"}, state : Tags \cup {"EXIT"}]
    \cup [type : {"SHIP"}, cells : SUBSET Cells, size : Nat \ {0}]
    \cup [type : {"RESULT"}, cell : Cells, result : {"hit", "miss", "sunk"}]
    \cup [type : {"SECONDS"}, secs : 0 .. CountdownStart]
    \cup [type : {"WINNER"}, winner : {1, 2}]

----------------------------------------------------------------------------
(* Where the two programs are                                              *)

\* The host's part of the game, and the client's; while the host waits for it the
\* client places its own fleet, then it is shown the host's.
HostAt(n) == IF Screen(n) \in Lobby THEN "lobby" ELSE Screen(n)

ClientAt(n) ==
  IF Screen(n) \in Lobby THEN "lobby"
  ELSE IF Screen(n) \notin {"PLACE_SHIPS_P2", "PLACE_SHIPS_WAITING"} THEN Screen(n)
  ELSE IF n.p1.ships = << >> THEN "PLACE_SHIPS_WAITING" ELSE "SHOWING"

\* A game goes through its parts in this order, the last being the lobby after it.
Rank(s) ==
  IF s = "lobby" THEN 0 ELSE IF s = "PLACE_SHIPS_P1" THEN 1
  ELSE IF s = "PLACE_SHIPS_WAITING" THEN 2 ELSE IF s = "SHOWING" THEN 3
  ELSE IF s \in Fighting THEN 4 ELSE 5

\* What matters of a client for the messages to come: its part of the game and its
\* boards, which are nobody's business in the lobby.
Copied(at, b1, b2) == [at |-> at, b1 |-> b1, b2 |-> b2]
Idle(at) == Copied(at, EmptyBoard, EmptyBoard)

Copy(n) == IF ClientAt(n) = "lobby" THEN Idle("lobby") ELSE Copied(ClientAt(n), n.p1, n.p2)

----------------------------------------------------------------------------
(* What the messages on their way to the client will do                    *)

\* The screen a client is on when it is told to go to another one.
Gate(s) ==
  IF s = "PLACE_SHIPS_P1" THEN {"lobby"} ELSE IF s = "COUNTDOWN" THEN {"SHOWING"}
  ELSE IF s = "TURN_P1" THEN {"COUNTDOWN", "HANDOVER_P1"} ELSE IF s = "TURN_P2" THEN {"HANDOVER_P2"}
  ELSE IF s = "HANDOVER_P1" THEN {"TURN_P2"} ELSE IF s = "HANDOVER_P2" THEN {"TURN_P1"} ELSE {}

Leads(k, s, l) ==
  \/ s = "EXIT" /\ l = k
  \/ s = "MAIN_MENU" /\ k.at \in {"lobby", "left"} /\ l = k
  \/ s = "PLACE_SHIPS_P2" /\ k.at = "PLACE_SHIPS_P1" /\ l = Copied("PLACE_SHIPS_WAITING", k.b1, k.b2)
  \/ s = "GAME_OVER" /\ k.at \in Turns /\ l = Idle("left")
  \/ k.at \in Gate(s) /\ l = Copied(s, k.b1, k.b2)

\* A message that a client in state k is ready for takes it to state l.
Hop(k, msg, l) ==
  \/ msg.type = "HELLO_ACK" /\ k.at = "lobby" /\ l = k
  \/ msg.type = "STATE" /\ Leads(k, msg.state, l)
  \/ /\ msg.type = "SHIP" /\ k.at \in {"PLACE_SHIPS_WAITING", "SHOWING"}
     /\ Len(k.b2.ships) = NumShips /\ Len(k.b1.ships) < NumShips
     /\ l = Copied("SHOWING", PlaceShip(k.b1, msg.cells, msg.size), k.b2)
  \/ msg.type = "SECONDS" /\ k.at = "COUNTDOWN" /\ l = k
  \/ /\ msg.type = "RESULT" /\ k.at = "TURN_P1"
     /\ l = Copied(k.at, k.b1, MirrorAttack(k.b2, msg.cell, msg.result))
  \/ /\ msg.type = "RESULT" /\ k.at = "TURN_P2"
     /\ l = Copied(k.at, MirrorAttack(k.b1, msg.cell, msg.result), k.b2)
  \/ msg.type = "WINNER" /\ k.at \in Turns /\ l = k

\* The messages of q, one after the other, take a client from k to l, and not past
\* the end of one game.
Along(t, q) ==
  /\ \A i \in 1 .. Len(q) : Hop(t[i], q[i], t[i + 1])
  /\ \A i, j \in 1 .. Len(q) + 1 : i <= j => Rank(t[i].at) <= Rank(t[j].at)

Path(q, k, l) == \E t : t[1] = k /\ t[Len(q) + 1] = l /\ Along(t, q)

----------------------------------------------------------------------------
(* What the client will know of the host                                   *)

\* A copy shows what the board shows.
Agree(c, b) ==
  /\ BoardType(c)
  /\ c.grid = b.grid /\ c.sunk = b.sunk
  /\ Len(c.ships) = Len(b.ships)
  /\ \A i \in Ids(b) : c.ships[i].cells = b.ships[i].cells /\ c.ships[i].sunk = b.ships[i].sunk

\* It shows what the board showed before the shot on x.
Behind(c, b, x) ==
  \E old : /\ Good(old) /\ Len(old.ships) = NumShips /\ ~AlreadyAttacked(old, x)
           /\ b = Attack(old, x) /\ Agree(c, old)

\* A shot is on the host's board that the client has not been told of.
Untold(n) == Exploding(n) \/ n.done

Told(n, k) ==
  /\ ~Untold(n) => Agree(k.b1, n.p1) /\ Agree(k.b2, n.p2)
  /\ Untold(n) /\ Screen(n) = "TURN_P1" => Agree(k.b1, n.p1) /\ Behind(k.b2, n.p2, n.at)
  /\ Untold(n) /\ Screen(n) = "TURN_P2" => Behind(k.b1, n.p1, n.at) /\ Agree(k.b2, n.p2)

\* A client in state k, with nothing more to come, is where the host n is.
Mirror(n, k) ==
  /\ HostAt(n) = "lobby" <=> k.at \in {"lobby", "left"}
  /\ HostAt(n) # "lobby" => k.at = HostAt(n)
  /\ k.at \in {"lobby", "PLACE_SHIPS_P1"} => k.b1 = EmptyBoard /\ k.b2 = EmptyBoard
  /\ k.at = "PLACE_SHIPS_WAITING" => k.b1 = EmptyBoard
  /\ Patient /\ k.at \in Fighting => Told(n, k)

----------------------------------------------------------------------------
(* The two programs by themselves                                          *)

Ranges(n) ==
  /\ n.tag \in Tags /\ n.prev \in Tags
  /\ n.word \in 0 .. 3 /\ n.secs \in 0 .. CountdownStart
  /\ n.cticks \in 0 .. TicksPerSec - 1 /\ n.post \in 0 .. PostAttackTicks - 1

\* One of three things can be under way, and only on the screen of a turn; an
\* animation's end can also be seen through a pause.
UnderWay(n) ==
  /\ Exploding(n) => n.tag \in Turns /\ ~n.waiting /\ ~n.done
  /\ n.waiting => ~n.done
  /\ n.done => Screen(n) \in Turns

Blank(n) == n.p1 = EmptyBoard /\ n.p2 = EmptyBoard

HostShape(n) ==
  /\ DOMAIN n = Fields /\ n.role = Host /\ n.single = FALSE
  /\ n.waiting \in BOOLEAN /\ n.done \in BOOLEAN /\ n.over \in BOOLEAN
  /\ n.at \in Cells /\ Good(n.p1) /\ Good(n.p2)
  /\ n.out \in Seq(ToClient)

HostScreens(n) ==
  /\ n.tag # "PLACE_SHIPS_P2"
  /\ n.tag = "PAUSED" => n.prev \in {"PLACE_SHIPS_P1", "TURN_P1"}
  /\ n.tag = "COUNTDOWN" => n.secs > 0
  /\ n.waiting => n.tag \in Turns
  /\ HostAt(n) # "lobby" => n.connected

HostBoards(n) ==
  /\ n.tag = "WAITING_CONNECT" => Blank(n) /\ n.idx = 0
  /\ Screen(n) = "PLACE_SHIPS_P1" => n.idx = Len(n.p1.ships) /\ n.idx < NumShips /\ n.p2 = EmptyBoard
  /\ n.tag = "PLACE_SHIPS_WAITING" =>
       Len(n.p1.ships) = NumShips /\ ShotOn(n.p1) = {} /\ ShotOn(n.p2) = {}
  /\ Screen(n) \in Fighting => Len(n.p1.ships) = NumShips /\ Len(n.p2.ships) = NumShips

HostOK(n) ==
  /\ HostShape(n) /\ Ranges(n) /\ HostScreens(n) /\ HostBoards(n)
  /\ Patient => UnderWay(n)

ClientShape(n) ==
  /\ DOMAIN n = Fields /\ n.role = Client /\ n.single = FALSE /\ n.waiting = FALSE
  /\ n.over \in BOOLEAN /\ n.out \in Seq(ToHost)
  /\ BoardType(n.p1) /\ BoardType(n.p2)

ClientScreens(n) ==
  /\ n.tag = "PAUSED" => n.prev \in {"PLACE_SHIPS_P2", "TURN_P2"}
  /\ n.tag \in {"WAITING_CONNECT", "PLACE_SHIPS_P1"} => Blank(n)
  /\ Screen(n) = "PLACE_SHIPS_P2" =>
       n.idx = Len(n.p2.ships) /\ n.idx < NumShips /\ n.p1 = EmptyBoard
  /\ n.tag = "PLACE_SHIPS_WAITING" => Len(n.p2.ships) = NumShips
  /\ ClientAt(n) = "PLACE_SHIPS_WAITING" => n.p1 = EmptyBoard /\ Good(n.p2) /\ ShotOn(n.p2) = {}

ClientOK(n) == ClientShape(n) /\ Ranges(n) /\ ClientScreens(n)

----------------------------------------------------------------------------
(* Paths                                                                   *)

\* Nothing on its way changes nothing.
LEMMA PathEmpty == ASSUME NEW k PROVE Path(<< >>, k, k)
<1>1. Along([i \in {1} |-> k], << >>)
  BY DEF Along, Rank
<1> QED BY <1>1 DEF Path

\* One message.
LEMMA PathOne ==
  ASSUME NEW k, NEW msg, NEW l, Hop(k, msg, l), Rank(k.at) <= Rank(l.at)
  PROVE  Path(<<msg>>, k, l)
<1> DEFINE t == [i \in {1, 2} |-> IF i = 1 THEN k ELSE l]
<1>1. Len(<<msg>>) = 1 /\ <<msg>>[1] = msg /\ t[1] = k /\ t[2] = l
  OBVIOUS
<1>2. \A i \in 1 .. 1 : i = 1
  OBVIOUS
<1>3. \A i \in 1 .. 2 : i = 1 \/ i = 2
  OBVIOUS
<1>4. Along(t, <<msg>>)
  <2> HIDE DEF t
  <2>1. \A i \in 1 .. 1 : Hop(t[i], <<msg>>[i], t[i + 1])
    BY <1>1, <1>2
  <2>2. Rank(k.at) \in Int /\ Rank(l.at) \in Int
    BY DEF Rank
  <2>3. \A i, j \in 1 .. 2 : i <= j => Rank(t[i].at) <= Rank(t[j].at)
    BY <1>1, <1>3, <2>2
  <2> QED BY <1>1, <2>1, <2>3 DEF Along
<1> QED BY <1>1, <1>4 DEF Path

\* One after the other.
LEMMA PathJoin ==
  ASSUME NEW S, NEW p \in Seq(S), NEW q \in Seq(S), NEW k, NEW l, NEW m,
         Path(p, k, l), Path(q, l, m)
  PROVE  Path(p \o q, k, m)
<1>1. PICK t : t[1] = k /\ t[Len(p) + 1] = l /\ Along(t, p)
  BY DEF Path
<1>2. PICK u : u[1] = l /\ u[Len(q) + 1] = m /\ Along(u, q)
  BY DEF Path
<1> DEFINE a == Len(p)
           b == Len(q)
           v == [i \in 1 .. a + b + 1 |-> IF i <= a THEN t[i] ELSE u[i - a]]
<1>3. a \in Nat /\ b \in Nat /\ Len(p \o q) = a + b
  OBVIOUS
<1>4. \A i \in 1 .. a : (p \o q)[i] = p[i]
  OBVIOUS
<1>5. \A i \in 1 .. b : (p \o q)[a + i] = q[i]
  OBVIOUS
<1>6. \A i \in 1 .. a + 1 : v[i] = t[i]
  <2>1. CASE TRUE
    <3> SUFFICES ASSUME NEW i \in 1 .. a + 1 PROVE v[i] = t[i]
      OBVIOUS
    <3>1. CASE i <= a
      BY <1>3, <3>1
    <3>2. CASE i = a + 1
      BY <1>1, <1>2, <1>3, <3>2
    <3> QED BY <1>3, <3>1, <3>2
  <2> QED BY <2>1
<1>7. \A i \in 1 .. b + 1 : v[a + i] = u[i]
  BY <1>3
<1> HIDE DEF a, b, v
<1>8. \A i \in 1 .. a + b : Hop(v[i], (p \o q)[i], v[i + 1])
  <2> SUFFICES ASSUME NEW i \in 1 .. a + b PROVE Hop(v[i], (p \o q)[i], v[i + 1])
    OBVIOUS
  <2>1. CASE i <= a
    <3>1. i \in 1 .. a /\ i \in 1 .. a + 1 /\ i + 1 \in 1 .. a + 1
      BY <1>3, <2>1
    <3> QED BY <1>1, <1>4, <1>6, <3>1 DEF Along, a
  <2>2. CASE i > a
    <3>1. PICK j : j = i - a
      OBVIOUS
    <3>2. j \in 1 .. b /\ j \in 1 .. b + 1 /\ j + 1 \in 1 .. b + 1 /\ a + j = i /\ a + (j + 1) = i + 1
      BY <1>3, <2>2, <3>1
    <3>3. Hop(u[j], q[j], u[j + 1])
      BY <1>2, <3>2 DEF Along, b
    <3>4. v[a + j] = u[j] /\ v[a + (j + 1)] = u[j + 1] /\ (p \o q)[a + j] = q[j]
      BY <1>5, <1>7, <3>2
    <3> QED BY <3>2, <3>3, <3>4
  <2> QED BY <1>3, <2>1, <2>2
<1>9. \A i, j \in 1 .. a + b + 1 : i <= j => Rank(v[i].at) <= Rank(v[j].at)
  <2> SUFFICES ASSUME NEW i \in 1 .. a + b + 1, NEW j \in 1 .. a + b + 1, i <= j
               PROVE  Rank(v[i].at) <= Rank(v[j].at)
    OBVIOUS
  <2>r. \A s : Rank(s) \in Int
    BY DEF Rank
  <2>1. CASE j <= a + 1
    <3>1. i \in 1 .. a + 1 /\ j \in 1 .. a + 1
      BY <1>3, <2>1
    <3> QED BY <1>1, <1>6, <3>1 DEF Along, a
  <2>2. CASE i > a
    <3>1. PICK x, y : x = i - a /\ y = j - a
      OBVIOUS
    <3>2. x \in 1 .. b + 1 /\ y \in 1 .. b + 1 /\ x <= y /\ a + x = i /\ a + y = j
      BY <1>3, <2>2, <3>1
    <3>3. Rank(u[x].at) <= Rank(u[y].at)
      BY <1>2, <3>2 DEF Along, b
    <3> QED BY <1>7, <3>2, <3>3
  <2>3. CASE i <= a /\ j > a + 1
    <3>1. PICK y : y = j - a
      OBVIOUS
    <3>2. i \in 1 .. a + 1 /\ a + 1 \in 1 .. a + 1 /\ i <= a + 1
      BY <1>3, <2>3
    <3>3. 1 \in 1 .. b + 1 /\ y \in 1 .. b + 1 /\ 1 <= y /\ a + y = j
      BY <1>3, <2>3, <3>1
    <3>4. Rank(t[i].at) <= Rank(t[a + 1].at) /\ t[a + 1] = l
      BY <1>1, <3>2 DEF Along, a
    <3>5. Rank(u[1].at) <= Rank(u[y].at) /\ u[1] = l
      BY <1>2, <3>3 DEF Along, b
    <3>6. v[i] = t[i]
      BY <1>6, <3>2
    <3>7. v[j] = u[y]
      BY <1>7, <3>3
    <3> QED BY <2>r, <3>4, <3>5, <3>6, <3>7
  <2> QED BY <1>3, <2>1, <2>2, <2>3
<1>10. Along(v, p \o q)
  BY <1>3, <1>8, <1>9 DEF Along
<1>11. v[1] = k
  <2>1. 1 \in 1 .. a + 1
    BY <1>3
  <2> QED BY <1>1, <1>6, <2>1
<1>12. v[Len(p \o q) + 1] = m
  <2>1. b + 1 \in 1 .. b + 1 /\ a + (b + 1) = Len(p \o q) + 1
    BY <1>3
  <2> QED BY <1>2, <1>7, <2>1 DEF b
<1> QED BY <1>10, <1>11, <1>12 DEF Path

\* The first message, and the rest.
LEMMA PathHead ==
  ASSUME NEW S, NEW q \in Seq(S), q # << >>, NEW k, NEW l, Path(q, k, l)
  PROVE  \E m : /\ Hop(k, Head(q), m) /\ Path(Tail(q), m, l)
                /\ Rank(k.at) <= Rank(m.at) /\ Rank(m.at) <= Rank(l.at)
<1>1. PICK t : t[1] = k /\ t[Len(q) + 1] = l /\ Along(t, q)
  BY DEF Path
<1> DEFINE a == Len(q)
           u == [i \in 1 .. a |-> t[i + 1]]
<1>2. a \in Nat \ {0} /\ Len(Tail(q)) = a - 1 /\ Head(q) = q[1]
  OBVIOUS
<1>3. \A i \in 1 .. a - 1 : Tail(q)[i] = q[i + 1]
  OBVIOUS
<1>4. \A i \in 1 .. a : u[i] = t[i + 1]
  OBVIOUS
<1> HIDE DEF a, u
<1>5. Along(u, Tail(q))
  <2>1. \A i \in 1 .. a - 1 : Hop(u[i], Tail(q)[i], u[i + 1])
    <3> SUFFICES ASSUME NEW i \in 1 .. a - 1 PROVE Hop(u[i], Tail(q)[i], u[i + 1])
      OBVIOUS
    <3>1. i \in 1 .. a /\ i + 1 \in 1 .. a
      BY <1>2
    <3>2. Hop(t[i + 1], q[i + 1], t[(i + 1) + 1])
      BY <1>1, <3>1 DEF Along, a
    <3> QED BY <1>3, <1>4, <3>1, <3>2
  <2>2. \A i, j \in 1 .. a : i <= j => Rank(u[i].at) <= Rank(u[j].at)
    <3> SUFFICES ASSUME NEW i \in 1 .. a, NEW j \in 1 .. a, i <= j PROVE Rank(u[i].at) <= Rank(u[j].at)
      OBVIOUS
    <3>1. i + 1 \in 1 .. a + 1 /\ j + 1 \in 1 .. a + 1 /\ i + 1 <= j + 1
      BY <1>2
    <3> QED BY <1>1, <1>4, <3>1 DEF Along, a
  <2>3. (a - 1) + 1 = a
    BY <1>2
  <2> QED BY <1>2, <2>1, <2>2, <2>3 DEF Along
<1>6. u[1] = t[2] /\ u[a] = l
  BY <1>1, <1>2, <1>4 DEF a
<1>7. Hop(k, Head(q), t[2])
  <2>1. 1 \in 1 .. a
    BY <1>2
  <2>2. Hop(t[1], q[1], t[1 + 1])
    BY <1>1, <2>1 DEF Along, a
  <2> QED BY <1>1, <1>2, <2>2
<1>8. Rank(k.at) <= Rank(t[2].at) /\ Rank(t[2].at) <= Rank(l.at)
  <2>1. 1 \in 1 .. a + 1 /\ 2 \in 1 .. a + 1 /\ a + 1 \in 1 .. a + 1 /\ 1 <= 2 /\ 2 <= a + 1
    BY <1>2
  <2> QED BY <1>1, <2>1 DEF Along, a
<1>9. Path(Tail(q), t[2], l)
  <2>1. (a - 1) + 1 = a
    BY <1>2
  <2> QED BY <1>2, <1>5, <1>6, <2>1 DEF Path
<1> QED BY <1>7, <1>8, <1>9

\* The messages never take a client back.
LEMMA PathRank ==
  ASSUME NEW S, NEW q \in Seq(S), NEW k, NEW l, Path(q, k, l)
  PROVE  Rank(k.at) <= Rank(l.at) /\ (q = << >> => l = k)
<1>1. PICK t : t[1] = k /\ t[Len(q) + 1] = l /\ Along(t, q)
  BY DEF Path
<1>2. 1 \in 1 .. Len(q) + 1 /\ Len(q) + 1 \in 1 .. Len(q) + 1 /\ 1 <= Len(q) + 1
  OBVIOUS
<1> QED BY <1>1, <1>2 DEF Along

\* Where a client is for its rank.
LEMMA RankSays ==
  \A s : /\ Rank(s) \in 0 .. 5
         /\ Rank(s) = 0 => s = "lobby"
         /\ Rank(s) = 1 => s = "PLACE_SHIPS_P1"
         /\ Rank(s) = 2 => s = "PLACE_SHIPS_WAITING"
         /\ Rank(s) = 3 => s = "SHOWING"
         /\ Rank(s) = 4 => s \in Fighting
         /\ s \in Fighting => Rank(s) = 4
         /\ s = "left" => Rank(s) = 5
  BY DEF Rank, Fighting

\* What is said after the end of a game does nothing in the lobby either.
LEMMA PathLeft ==
  ASSUME NEW S, NEW q \in Seq(S), NEW k, NEW l, Path(q, k, l), k.at = "left", l.at = "left"
  PROVE  Path(q, Idle("lobby"), Idle("lobby"))
<1>1. PICK t : t[1] = k /\ t[Len(q) + 1] = l /\ Along(t, q)
  BY DEF Path
<1> DEFINE a == Len(q)
           z == Idle("lobby")
           u == [i \in 1 .. a + 1 |-> z]
<1>2. a \in Nat
  OBVIOUS
<1>3. ASSUME NEW i \in 1 .. a + 1 PROVE Rank(t[i].at) = 5 /\ u[i] = z
  <2>1. 1 \in 1 .. a + 1 /\ 1 <= i
    OBVIOUS
  <2>2. Rank(t[1].at) <= Rank(t[i].at)
    BY <1>1, <1>2, <2>1 DEF Along
  <2> QED BY <1>1, <2>2, RankSays
<1>4. z.at = "lobby"
  BY DEF Idle, Copied
<1> HIDE DEF u, z
<1>5. ASSUME NEW i \in 1 .. a PROVE Hop(u[i], q[i], u[i + 1])
  <2>1. i \in 1 .. a + 1 /\ i + 1 \in 1 .. a + 1
    BY <1>2
  <2>2. t[i].at \notin {"lobby", "PLACE_SHIPS_P1", "PLACE_SHIPS_WAITING", "SHOWING"} \cup Fighting
    BY <1>3, <2>1, RankSays DEF Rank
  <2>3. Hop(t[i], q[i], t[i + 1])
    BY <1>1 DEF Along
  <2>4. q[i].type = "STATE" /\ Leads(t[i], q[i].state, t[i + 1])
    BY <2>2, <2>3 DEF Hop, Fighting, Turns
  <2>5. q[i].state \in {"EXIT", "MAIN_MENU"}
    BY <2>2, <2>4 DEF Leads, Gate, Fighting, Turns
  <2>6. Hop(z, q[i], z)
    BY <1>4, <2>4, <2>5 DEF Hop, Leads
  <2> QED BY <1>3, <2>1, <2>6
<1>6. \A i, j \in 1 .. a + 1 : i <= j => Rank(u[i].at) <= Rank(u[j].at)
  BY <1>3, RankSays
<1>7. u[1] = z /\ u[a + 1] = z
  BY <1>2, <1>3
<1> QED BY <1>5, <1>6, <1>7 DEF Path, Along, z

----------------------------------------------------------------------------
(* The client's copies of the boards                                       *)

\* The results a host reports.
Results == {"hit", "miss", "sunk"}

\* A reported result leaves a board, with the ships it had.
LEMMA MirrorKeeps ==
  ASSUME NEW b, BoardType(b), NEW x \in Cells, NEW result \in Results,
         NEW c, c = MirrorAttack(b, x, result)
  PROVE  BoardType(c) /\ Len(c.ships) = Len(b.ships)
<1>0. /\ DOMAIN b = {"grid", "ships", "sunk"} /\ b.grid \in [Cells -> CellStates]
      /\ b.ships \in Seq(Ship) /\ Len(b.ships) \in Nat /\ Len(b.ships) <= NumShips /\ b.sunk \in Nat
  BY RecordFields DEF BoardType
<1>1. CASE result # "sunk"
  <2>1. c = [b EXCEPT !.grid[x] = result]
    BY <1>1 DEF MirrorAttack
  <2>2. c.ships = b.ships /\ c.sunk = b.sunk /\ c.grid = [b.grid EXCEPT ![x] = result]
        /\ DOMAIN c = {"grid", "ships", "sunk"}
    BY <1>0, <2>1
  <2>3. c.grid \in [Cells -> CellStates]
    BY <1>0, <2>2 DEF CellStates, Results
  <2> QED BY <1>0, <2>2, <2>3 DEF BoardType
<1>2. CASE result = "sunk" /\ Struck(b, x) = {}
  <2>1. c = [b EXCEPT !.grid[x] = "sunk", !.sunk = @ + 1]
    BY <1>2 DEF MirrorAttack
  <2>2. c.ships = b.ships /\ c.sunk = b.sunk + 1 /\ c.grid = [b.grid EXCEPT ![x] = "sunk"]
        /\ DOMAIN c = {"grid", "ships", "sunk"}
    BY <1>0, <2>1
  <2>3. c.grid \in [Cells -> CellStates]
    BY <1>0, <2>2 DEF CellStates
  <2> QED BY <1>0, <2>2, <2>3 DEF BoardType
<1>3. CASE result = "sunk" /\ Struck(b, x) # {}
  <2>1. PICK i : i = First(Struck(b, x))
    OBVIOUS
  <2>2. i \in Ids(b)
    <3>1. Struck(b, x) \in SUBSET Ids(b)
      BY RecordFields DEF Struck
    <3>2. Struck(b, x) \in SUBSET Nat
      BY <3>1 DEF Ids
    <3>3. \E n \in Struck(b, x) : \A j \in Struck(b, x) : n <= j
      BY <1>3, <3>2, LeastNumber
    <3> QED BY <2>1, <3>1, <3>3 DEF First
  <2> DEFINE s == Sink(b, x, i)
             painted == [y \in Cells |-> IF y \in b.ships[i].cells THEN "sunk" ELSE b.grid[y]]
             flagged == [b.ships EXCEPT ![i].sunk = TRUE]
  <2>3. c = [s EXCEPT !.ships[i].hits = b.ships[i].size]
    BY <1>3, <2>1 DEF MirrorAttack
  <2>4. s.grid = painted /\ s.ships = flagged /\ s.sunk = b.sunk + 1 /\ DOMAIN s = {"grid", "ships", "sunk"}
    BY <1>0 DEF Sink
  <2> HIDE DEF s
  <2>5. c.grid = painted /\ c.ships = [flagged EXCEPT ![i].hits = b.ships[i].size]
        /\ c.sunk = b.sunk + 1 /\ DOMAIN c = {"grid", "ships", "sunk"}
    BY <2>3, <2>4
  <2>6. painted \in [Cells -> CellStates]
    BY <1>0 DEF CellStates
  <2>7. flagged \in Seq(Ship) /\ Len(flagged) = Len(b.ships)
    <3>1. b.ships[i] \in Ship
      BY <2>2, RecordFields
    <3>2. PICK t \in Ship : t = [b.ships[i] EXCEPT !.sunk = TRUE]
      BY <3>1, ShipUpdate DEF Ship
    <3>3. flagged = [b.ships EXCEPT ![i] = t]
      BY <3>2
    <3> HIDE DEF flagged
    <3> QED BY <1>0, <2>2, <3>3, ExceptSeq DEF Ids
  <2> HIDE DEF flagged, painted
  <2>8. c.ships \in Seq(Ship) /\ Len(c.ships) = Len(b.ships)
    <3>1. flagged[i] \in Ship /\ b.ships[i].size \in Nat
      BY <2>2, <2>7, RecordFields, ElementOfSeq DEF Ids
    <3>2. PICK t \in Ship : t = [flagged[i] EXCEPT !.hits = b.ships[i].size]
      BY <3>1, ShipUpdate DEF Ship
    <3>3. c.ships = [flagged EXCEPT ![i] = t]
      BY <2>5, <3>2
    <3> QED BY <1>0, <2>2, <2>7, <3>3, ExceptSeq DEF Ids
  <2> QED BY <1>0, <2>5, <2>6, <2>8 DEF BoardType
<1> QED BY <1>1, <1>2, <1>3

\* A placement leaves a board with one ship more.
LEMMA PlacingTypes ==
  ASSUME NEW b, BoardType(b), Len(b.ships) < NumShips, NEW cells \in SUBSET Cells,
         NEW size \in Nat \ {0}, NEW c, c = PlaceShip(b, cells, size)
  PROVE  BoardType(c) /\ Len(c.ships) = Len(b.ships) + 1
<1>0. /\ DOMAIN b = {"grid", "ships", "sunk"} /\ b.grid \in [Cells -> CellStates]
      /\ b.ships \in Seq(Ship) /\ Len(b.ships) \in Nat /\ b.sunk \in Nat /\ NumShips \in Nat
  BY RecordFields, NumShipsType DEF BoardType
<1> DEFINE s == [cells |-> cells, size |-> size, hits |-> 0, sunk |-> FALSE]
           g == [x \in Cells |-> IF x \in cells THEN "ship" ELSE b.grid[x]]
<1>1. c.grid = g /\ c.ships = Append(b.ships, s) /\ c.sunk = b.sunk /\ DOMAIN c = {"grid", "ships", "sunk"}
  BY <1>0 DEF PlaceShip
<1>2. s \in Ship /\ g \in [Cells -> CellStates]
  BY <1>0 DEF Ship, CellStates
<1> HIDE DEF s, g
<1> QED BY <1>0, <1>1, <1>2 DEF BoardType

\* A copy that shows what a board showed before a shot shows, once told the result,
\* what the board shows now.
LEMMA ToldCatchesUp ==
  ASSUME NEW c, NEW b, NEW x \in Cells, Behind(c, b, x),
         NEW d, d = MirrorAttack(c, x, ResultAt(b, x))
  PROVE  Agree(d, b) /\ ResultAt(b, x) \in Results
<1>1. PICK old : /\ Good(old) /\ Len(old.ships) = NumShips /\ ~AlreadyAttacked(old, x)
                 /\ b = Attack(old, x) /\ Agree(c, old)
  BY DEF Behind
<1>2. /\ BoardType(c) /\ BoardType(old) /\ c.grid = old.grid /\ c.sunk = old.sunk
      /\ Len(c.ships) = Len(old.ships) /\ Ids(c) = Ids(old)
      /\ \A i \in Ids(old) : c.ships[i].cells = old.ships[i].cells /\ c.ships[i].sunk = old.ships[i].sunk
  BY <1>1 DEF Agree, Good, Ids
<1>0. /\ DOMAIN c = {"grid", "ships", "sunk"} /\ c.grid \in [Cells -> CellStates]
      /\ c.ships \in Seq(Ship) /\ DOMAIN c.ships = Ids(c) /\ DOMAIN old.ships = Ids(old)
  BY <1>2, RecordFields DEF BoardType
<1>3. CASE old.grid[x] # "ship"
  <2>1. /\ b.grid \in [Cells -> CellStates]
        /\ \A y \in Cells : b.grid[y] = IF y = x THEN "miss" ELSE old.grid[y]
        /\ b.ships = old.ships /\ b.sunk = old.sunk
    BY <1>1, <1>2, <1>3, MissEffect
  <2>2. ResultAt(b, x) = "miss"
    BY <2>1 DEF ResultAt
  <2>3. d = [c EXCEPT !.grid[x] = "miss"]
    BY <2>2 DEF MirrorAttack
  <2>4. d.grid = [c.grid EXCEPT ![x] = "miss"] /\ d.ships = c.ships /\ d.sunk = c.sunk
    BY <1>0, <2>3
  <2>5. d.grid \in [Cells -> CellStates]
    BY <1>0, <2>4 DEF CellStates
  <2>6. d.grid = b.grid
    <3>1. \A y \in Cells : d.grid[y] = b.grid[y]
      BY <1>0, <1>2, <2>1, <2>4
    <3> QED BY <2>1, <2>5, <3>1
  <2>7. BoardType(d)
    BY <1>2, <2>2, MirrorKeeps DEF Results
  <2> QED BY <1>2, <2>1, <2>2, <2>4, <2>6, <2>7 DEF Agree, Ids, Results
<1>4. CASE old.grid[x] = "ship"
  <2>1. PICK k \in Ids(old) : x \in old.ships[k].cells /\ ~old.ships[k].sunk /\ Struck(old, x) = {k}
    BY <1>1, <1>4, ShipStruck
  <2> DEFINE s    == old.ships[k]
             last == s.hits + 1 >= s.size
  <2>2. /\ DOMAIN b = {"grid", "ships", "sunk"}
        /\ b.ships \in Seq(Ship) /\ Len(b.ships) = Len(old.ships)
        /\ \A i \in Ids(old) :
             /\ b.ships[i].cells = old.ships[i].cells
             /\ b.ships[i].sunk <=> IF i = k THEN last ELSE old.ships[i].sunk
        /\ b.sunk = IF last THEN old.sunk + 1 ELSE old.sunk
        /\ b.grid \in [Cells -> CellStates]
        /\ \A y \in Cells : b.grid[y] = IF last /\ y \in s.cells THEN "sunk"
                                        ELSE IF y = x THEN "hit" ELSE old.grid[y]
    BY <1>1, <1>2, <1>4, <2>1, StrikeEffect
  <2>3. Struck(c, x) = {k}
    BY <1>0, <1>2, <2>1 DEF Struck
  <2>4. First({k}) = k
    <3>1. k <= k
      BY DEF Ids
    <3> QED BY <3>1 DEF First
  <2>5. Ids(b) = Ids(old) /\ DOMAIN b.ships = Ids(b)
    BY <2>2 DEF Ids
  <2>6. \A i \in Ids(old) : b.ships[i].sunk \in BOOLEAN /\ old.ships[i].sunk \in BOOLEAN
    <3>1. \A i \in Ids(old) : old.ships[i].sunk \in BOOLEAN
      BY <1>2, RecordFields
    <3>2. \A i \in Ids(old) : b.ships[i] \in Ship
      BY <2>2, ElementOfSeq DEF Ids
    <3> QED BY <3>1, <3>2 DEF Ship
  <2> HIDE DEF last
  <2>7. CASE ~last
    <3>1. ResultAt(b, x) = "hit"
      BY <2>2, <2>7 DEF ResultAt
    <3>2. d = [c EXCEPT !.grid[x] = "hit"]
      BY <3>1 DEF MirrorAttack
    <3>3. d.grid = [c.grid EXCEPT ![x] = "hit"] /\ d.ships = c.ships /\ d.sunk = c.sunk
      BY <1>0, <3>2
    <3>4. d.grid \in [Cells -> CellStates]
      BY <1>0, <3>3 DEF CellStates
    <3>5. \A y \in Cells : d.grid[y] = b.grid[y]
      BY <1>0, <1>2, <2>2, <2>7, <3>3
    <3>6. d.grid = b.grid
      BY <2>2, <3>4, <3>5
    <3>7. BoardType(d)
      BY <1>2, <3>1, MirrorKeeps DEF Results
    <3>8. \A i \in Ids(b) : d.ships[i].cells = b.ships[i].cells /\ d.ships[i].sunk = b.ships[i].sunk
      BY <1>2, <2>1, <2>2, <2>5, <2>6, <2>7, <3>3
    <3> QED BY <1>2, <2>2, <2>7, <3>1, <3>3, <3>6, <3>7, <3>8 DEF Agree, Results
  <2>8. CASE last
    <3>1. ResultAt(b, x) = "sunk"
      BY <2>1, <2>2, <2>8 DEF ResultAt
    <3> DEFINE sank == Sink(c, x, k)
               flagged == [c.ships EXCEPT ![k].sunk = TRUE]
               painted == [y \in Cells |-> IF y \in c.ships[k].cells THEN "sunk" ELSE c.grid[y]]
    <3>2. d = [sank EXCEPT !.ships[k].hits = c.ships[k].size]
      BY <2>3, <2>4, <3>1 DEF MirrorAttack
    <3>3. sank.grid = painted /\ sank.ships = flagged /\ sank.sunk = c.sunk + 1 /\ DOMAIN sank = {"grid", "ships", "sunk"}
      BY <1>0 DEF Sink
    <3> HIDE DEF sank
    <3>4. d.grid = painted /\ d.ships = [flagged EXCEPT ![k].hits = c.ships[k].size] /\ d.sunk = c.sunk + 1
      BY <3>2, <3>3
    <3>5. \A i \in Ids(c) : /\ flagged[i].cells = c.ships[i].cells
                            /\ flagged[i].sunk = IF i = k THEN TRUE ELSE c.ships[i].sunk
      <4>1. k \in 1 .. Len(c.ships) /\ c.ships \in Seq(Ship)
        BY <1>0, <1>2 DEF Ids
      <4>2. \A i \in Ids(c) : flagged[i] = IF i = k THEN [c.ships[k] EXCEPT !.sunk = TRUE] ELSE c.ships[i]
        BY <1>0, <1>2
      <4>3. DOMAIN c.ships[k] = {"cells", "size", "hits", "sunk"}
        BY <1>2, RecordFields DEF Ship
      <4> HIDE DEF flagged
      <4> QED BY <4>2, <4>3
    <3>6. DOMAIN flagged = Ids(c) /\ \A i \in Ids(c) : DOMAIN flagged[i] = {"cells", "size", "hits", "sunk"}
      <4>1. \A i \in Ids(c) : DOMAIN c.ships[i] = {"cells", "size", "hits", "sunk"}
        BY <1>2, RecordFields DEF Ship
      <4> QED BY <1>0, <4>1
    <3> HIDE DEF flagged
    <3>7. \A i \in Ids(c) : d.ships[i].cells = flagged[i].cells /\ d.ships[i].sunk = flagged[i].sunk
      BY <3>4, <3>6
    <3>8. \A i \in Ids(b) : d.ships[i].cells = b.ships[i].cells /\ d.ships[i].sunk = b.ships[i].sunk
      <4> SUFFICES ASSUME NEW i \in Ids(old)
                   PROVE  d.ships[i].cells = b.ships[i].cells /\ d.ships[i].sunk = b.ships[i].sunk
        BY <2>5
      <4>1. d.ships[i].cells = b.ships[i].cells
        <5>1. d.ships[i].cells = flagged[i].cells /\ flagged[i].cells = c.ships[i].cells
          BY <1>2, <3>5, <3>7
        <5>2. c.ships[i].cells = old.ships[i].cells /\ b.ships[i].cells = old.ships[i].cells
          BY <1>2, <2>2
        <5> QED BY <5>1, <5>2
      <4>2. d.ships[i].sunk = IF i = k THEN TRUE ELSE old.ships[i].sunk
        BY <1>2, <3>5, <3>7
      <4>3. CASE i = k
        BY <2>2, <2>6, <2>8, <4>1, <4>2, <4>3
      <4>4. CASE i # k
        BY <2>2, <2>6, <2>8, <4>1, <4>2, <4>4
      <4> QED BY <4>3, <4>4
    <3>9. d.grid = b.grid
      <4>1. c.ships[k].cells = s.cells
        BY <1>2
      <4>2. \A y \in Cells : painted[y] = b.grid[y]
        BY <1>2, <2>1, <2>2, <2>8, <4>1
      <4> QED BY <2>2, <3>4, <4>2
    <3>10. BoardType(d) /\ Len(d.ships) = Len(c.ships)
      BY <1>2, <3>1, MirrorKeeps DEF Results
    <3> QED BY <1>2, <2>2, <2>8, <3>1, <3>4, <3>8, <3>9, <3>10 DEF Agree, Results
  <2> QED BY <2>7, <2>8
<1> QED BY <1>3, <1>4

\* A board shows what it shows.
LEMMA AgreesItself == \A b : BoardType(b) => Agree(b, b)
  BY DEF Agree

\* Before the shot is told the copy is behind.
LEMMA ShotLeavesBehind ==
  ASSUME NEW c, NEW b, Good(b), Len(b.ships) = NumShips, Agree(c, b), NEW x \in Cells,
         ~AlreadyAttacked(b, x)
  PROVE  Behind(c, Attack(b, x), x)
  BY DEF Behind

----------------------------------------------------------------------------
(* The host's fleet, shown to the client                                   *)

\* A copy with the first j ships of p.
Shown(p, j) ==
  [grid  |-> [x \in Cells |-> IF \E i \in 1 .. j : x \in p.ships[i].cells THEN "ship" ELSE "empty"],
   ships |-> [i \in 1 .. j |-> [cells |-> p.ships[i].cells, size |-> p.ships[i].size,
                                hits |-> 0, sunk |-> FALSE]],
   sunk  |-> 0]

\* A sequence given by its elements grows by the next one.
LEMMA AppendEach ==
  ASSUME NEW S, NEW f, NEW j \in Nat, \A i \in 1 .. j + 1 : f[i] \in S
  PROVE  Append([i \in 1 .. j |-> f[i]], f[j + 1]) = [i \in 1 .. j + 1 |-> f[i]]
<1> DEFINE s == [i \in 1 .. j |-> f[i]]
           r == [i \in 1 .. j + 1 |-> f[i]]
<1>1. s \in Seq(S) /\ Len(s) = j /\ f[j + 1] \in S
  OBVIOUS
<1>2. r \in Seq(S) /\ Len(r) = j + 1
  OBVIOUS
<1>3. \A i \in 1 .. j : s[i] = r[i]
  OBVIOUS
<1>4. r[j + 1] = f[j + 1]
  OBVIOUS
<1> HIDE DEF s, r
<1>5. Append(s, f[j + 1]) \in Seq(S) /\ Len(Append(s, f[j + 1])) = j + 1
  BY <1>1
<1>6. \A i \in 1 .. j + 1 : Append(s, f[j + 1])[i] = r[i]
  BY <1>1, <1>3, <1>4
<1> QED BY <1>2, <1>5, <1>6, SeqEqual

\* A board with a new grid and new ships.
LEMMA BoardChanged ==
  ASSUME NEW b, NEW grid, NEW ships, NEW sunk, b = [grid |-> grid, ships |-> ships, sunk |-> sunk],
         NEW g, NEW s, NEW c, c = [b EXCEPT !.grid = g, !.ships = s]
  PROVE  c = [grid |-> g, ships |-> s, sunk |-> sunk]
<1>1. DOMAIN c = {"grid", "ships", "sunk"} /\ c.grid = g /\ c.ships = s /\ c.sunk = sunk
  OBVIOUS
<1> QED BY <1>1

\* One ship more.
LEMMA ShownNext ==
  ASSUME NEW p, NEW j \in Nat
  PROVE  Shown(p, j + 1) = PlaceShip(Shown(p, j), p.ships[j + 1].cells, p.ships[j + 1].size)
<1> DEFINE a == Shown(p, j)
           b == Shown(p, j + 1)
           s == [i \in 1 .. j |-> [cells |-> p.ships[i].cells, size |-> p.ships[i].size,
                                   hits |-> 0, sunk |-> FALSE]]
           r == [i \in 1 .. j + 1 |-> [cells |-> p.ships[i].cells, size |-> p.ships[i].size,
                                   hits |-> 0, sunk |-> FALSE]]
           e == [cells |-> p.ships[j + 1].cells, size |-> p.ships[j + 1].size, hits |-> 0, sunk |-> FALSE]
           g == [x \in Cells |-> IF x \in p.ships[j + 1].cells THEN "ship" ELSE a.grid[x]]
           h == [x \in Cells |-> IF \E i \in 1 .. j + 1 : x \in p.ships[i].cells THEN "ship" ELSE "empty"]
<1>1. Append(s, e) = r
  <2> DEFINE S == {r[i] : i \in 1 .. j + 1}
  <2>1. s = [i \in 1 .. j |-> r[i]] /\ e = r[j + 1]
    OBVIOUS
  <2>2. r = [i \in 1 .. j + 1 |-> r[i]]
    OBVIOUS
  <2>3. \A i \in 1 .. j + 1 : r[i] \in S
    OBVIOUS
  <2> HIDE DEF s, e, r, S
  <2>4. Append([i \in 1 .. j |-> r[i]], r[j + 1]) = [i \in 1 .. j + 1 |-> r[i]]
    BY <2>3, AppendEach
  <2> QED BY <2>1, <2>2, <2>4
<1>2. g = h
  <2>1. \A x \in Cells : a.grid[x] = IF \E i \in 1 .. j : x \in p.ships[i].cells THEN "ship" ELSE "empty"
    BY DEF Shown
  <2>2. \A i \in 1 .. j + 1 : i \in 1 .. j \/ i = j + 1
    OBVIOUS
  <2>4. 1 .. j \subseteq 1 .. j + 1 /\ j + 1 \in 1 .. j + 1
    OBVIOUS
  <2>3. \A x \in Cells : (\E i \in 1 .. j + 1 : x \in p.ships[i].cells) <=>
                          (x \in p.ships[j + 1].cells \/ \E i \in 1 .. j : x \in p.ships[i].cells)
    BY <2>2, <2>4
  <2> HIDE DEF a
  <2>5. \A x \in Cells : g[x] = h[x]
    BY <2>1, <2>3
  <2> QED BY <2>5
<1>3. a = [grid |-> a.grid, ships |-> s, sunk |-> 0]
  BY DEF Shown
<1>4. b = [grid |-> h, ships |-> r, sunk |-> 0]
  BY DEF Shown
<1>5. PlaceShip(a, p.ships[j + 1].cells, p.ships[j + 1].size) = [a EXCEPT !.grid = g, !.ships = Append(a.ships, e)]
  BY DEF PlaceShip
<1>6. a.ships = s
  BY DEF Shown
<1> HIDE DEF s, r, e, g, h
<1>7. [a EXCEPT !.grid = g, !.ships = Append(a.ships, e)] = [grid |-> g, ships |-> Append(s, e), sunk |-> 0]
  <2>1. PICK w, t : w = a.grid /\ t = Append(s, e)
    OBVIOUS
  <2>2. PICK c : c = [a EXCEPT !.grid = g, !.ships = Append(a.ships, e)]
    OBVIOUS
  <2>3. a = [grid |-> w, ships |-> s, sunk |-> 0]
    BY <1>3, <2>1
  <2> HIDE DEF a
  <2>4. c = [a EXCEPT !.grid = g, !.ships = t]
    BY <1>6, <2>1, <2>2
  <2>5. c = [grid |-> g, ships |-> t, sunk |-> 0]
    BY <2>3, <2>4, BoardChanged
  <2> QED BY <2>1, <2>2, <2>5
<1> QED BY <1>1, <1>2, <1>4, <1>5, <1>7

\* None, and all.
LEMMA ShownEnds ==
  ASSUME NEW p, Good(p), ShotOn(p) = {}
  PROVE  Shown(p, 0) = EmptyBoard /\ Agree(Shown(p, Len(p.ships)), p)
<1>1. Shown(p, 0) = EmptyBoard
  <2>1. 1 .. 0 = {}
    OBVIOUS
  <2>2. [i \in 1 .. 0 |-> [cells |-> p.ships[i].cells, size |-> p.ships[i].size,
                           hits |-> 0, sunk |-> FALSE]] = << >>
    OBVIOUS
  <2> QED BY <2>1, <2>2 DEF Shown, EmptyBoard
<1> DEFINE j == Len(p.ships)
           c == Shown(p, j)
<1>2. /\ BoardType(p) /\ j \in Nat /\ j <= NumShips /\ Ids(p) = 1 .. j /\ DOMAIN p.ships = 1 .. j
      /\ p.grid \in [Cells -> CellStates]
  BY RecordFields DEF Good, BoardType, Ids
<1>3. /\ c.grid = [x \in Cells |-> IF \E i \in 1 .. j : x \in p.ships[i].cells THEN "ship" ELSE "empty"]
      /\ c.ships = [i \in 1 .. j |-> [cells |-> p.ships[i].cells, size |-> p.ships[i].size,
                                      hits |-> 0, sunk |-> FALSE]]
      /\ c.sunk = 0 /\ DOMAIN c = {"grid", "ships", "sunk"}
  BY DEF Shown
<1> HIDE DEF c
<1>4. \A i \in 1 .. j : /\ p.ships[i].cells \in SUBSET Cells /\ p.ships[i].size \in Nat \ {0}
                        /\ p.ships[i].cells # {} /\ p.ships[i].sunk \in BOOLEAN
  <2>1. \A i \in 1 .. j : p.ships[i].cells \in SUBSET Cells /\ p.ships[i].size \in Nat \ {0}
                          /\ p.ships[i].sunk \in BOOLEAN
    BY <1>2, RecordFields
  <2>2. \A i \in 1 .. j : Cardinality(p.ships[i].cells) = p.ships[i].size
    BY <1>2 DEF Good, Whole
  <2>3. Cardinality({}) = 0
    BY FS_EmptySet
  <2> QED BY <2>1, <2>2, <2>3
<1>5. \A i \in 1 .. j : p.ships[i].sunk = FALSE
  BY <1>2, <1>4 DEF Good, CountsFit
<1>6. p.sunk = 0
  <2>1. {i \in DOMAIN p.ships : p.ships[i].sunk} = {}
    BY <1>2, <1>5
  <2> QED BY <2>1, FS_EmptySet DEF Good, CountsFit
<1>7. \A x \in Cells : p.grid[x] = c.grid[x]
  <2>1. \A x \in Cells : p.grid[x] = IF ShipsAt(p, x) = {} THEN "empty" ELSE "ship"
    BY DEF Good, GridFits, Shows
  <2>2. \A x \in Cells : ShipsAt(p, x) = {} <=> ~\E i \in 1 .. j : x \in p.ships[i].cells
    BY <1>2 DEF ShipsAt
  <2> QED BY <1>3, <2>1, <2>2
<1>8. c.grid \in [Cells -> CellStates]
  BY <1>3 DEF CellStates
<1>9. c.ships \in Seq(Ship) /\ Len(c.ships) = j
  <2>1. \A i \in 1 .. j : [cells |-> p.ships[i].cells, size |-> p.ships[i].size, hits |-> 0, sunk |-> FALSE] \in Ship
    BY <1>4 DEF Ship
  <2> DEFINE r == [i \in 1 .. j |-> [cells |-> p.ships[i].cells, size |-> p.ships[i].size,
                                    hits |-> 0, sunk |-> FALSE]]
  <2>2. \A i \in 1 .. j : r[i] \in Ship
    BY <2>1
  <2>3. r = [i \in 1 .. j |-> r[i]]
    OBVIOUS
  <2> HIDE DEF r
  <2>4. r \in Seq(Ship) /\ Len(r) = j
    BY <1>2, <2>2, <2>3
  <2> QED BY <1>3, <2>4 DEF r
<1>10. BoardType(c)
  BY <1>2, <1>3, <1>8, <1>9 DEF BoardType
<1>11. c.grid = p.grid
  BY <1>2, <1>7, <1>8
<1>12. \A i \in Ids(p) : c.ships[i].cells = p.ships[i].cells /\ c.ships[i].sunk = p.ships[i].sunk
  <2>1. \A i \in 1 .. j : c.ships[i].cells = p.ships[i].cells /\ c.ships[i].sunk = FALSE
    BY <1>3
  <2> QED BY <1>2, <1>5, <2>1
<1> QED BY <1>1, <1>3, <1>6, <1>9, <1>10, <1>11, <1>12 DEF Agree, c

\* The messages that show a fleet.
FleetMessages(p) ==
  [i \in DOMAIN p.ships |-> [type |-> "SHIP", cells |-> p.ships[i].cells, size |-> p.ships[i].size]]

\* They take a waiting client from nothing to the whole fleet.
LEMMA FleetPath ==
  ASSUME NEW p, Good(p), ShotOn(p) = {}, Len(p.ships) = NumShips, NEW b, Len(b.ships) = NumShips
  PROVE  /\ FleetMessages(p) \in Seq(ToClient)
         /\ Path(FleetMessages(p), Copied("PLACE_SHIPS_WAITING", EmptyBoard, b),
                 Copied("SHOWING", Shown(p, NumShips), b))
         /\ \A i \in 1 .. NumShips : FleetMessages(p)[i].type = "SHIP"
<1> DEFINE q == FleetMessages(p)
           t == [i \in 1 .. NumShips + 1 |-> Copied(IF i = 1 THEN "PLACE_SHIPS_WAITING" ELSE "SHOWING",
                                                    Shown(p, i - 1), b)]
<1>1. NumShips \in Nat \ {0} /\ DOMAIN p.ships = 1 .. NumShips /\ Ids(p) = 1 .. NumShips /\ BoardType(p)
  BY NumShipsType, RecordFields DEF Good, Ids
<1>2. \A i \in 1 .. NumShips : p.ships[i].cells \in SUBSET Cells /\ p.ships[i].size \in Nat \ {0}
  BY <1>1, RecordFields
<1>3. q \in Seq(ToClient) /\ Len(q) = NumShips
      /\ \A i \in 1 .. NumShips : q[i] = [type |-> "SHIP", cells |-> p.ships[i].cells, size |-> p.ships[i].size]
  <2>1. \A i \in 1 .. NumShips :
          [type |-> "SHIP", cells |-> p.ships[i].cells, size |-> p.ships[i].size] \in ToClient
    BY <1>2 DEF ToClient
  <2> QED BY <1>1, <2>1 DEF FleetMessages
<1>4. \A i \in 1 .. NumShips + 1 : /\ t[i].at = IF i = 1 THEN "PLACE_SHIPS_WAITING" ELSE "SHOWING"
                                   /\ t[i].b1 = Shown(p, i - 1) /\ t[i].b2 = b
                                   /\ t[i] = Copied(t[i].at, t[i].b1, t[i].b2)
  BY DEF Copied
<1>5. t[1] = Copied("PLACE_SHIPS_WAITING", EmptyBoard, b)
  <2>1. Shown(p, 1 - 1) = EmptyBoard
    BY ShownEnds
  <2>2. t[1] = Copied("PLACE_SHIPS_WAITING", Shown(p, 1 - 1), b)
    BY <1>1
  <2> HIDE DEF t
  <2> QED BY <2>1, <2>2
<1>6. t[NumShips + 1] = Copied("SHOWING", Shown(p, NumShips), b)
  <2>1. NumShips + 1 \in 1 .. NumShips + 1 /\ NumShips + 1 # 1 /\ (NumShips + 1) - 1 = NumShips
    BY <1>1
  <2>2. t[NumShips + 1] = Copied("SHOWING", Shown(p, (NumShips + 1) - 1), b)
    BY <2>1
  <2> HIDE DEF t
  <2> QED BY <2>1, <2>2
<1> HIDE DEF t, q
<1>7. ASSUME NEW i \in 1 .. NumShips PROVE Hop(t[i], q[i], t[i + 1])
  <2>1. i \in 1 .. NumShips + 1 /\ i + 1 \in 1 .. NumShips + 1 /\ i + 1 # 1 /\ i - 1 \in Nat
        /\ (i - 1) + 1 = i /\ (i + 1) - 1 = i /\ i - 1 < NumShips
    BY <1>1
  <2>2. t[i + 1] = Copied("SHOWING", Shown(p, i), b)
    BY <1>4, <2>1
  <2>3. Shown(p, i) = PlaceShip(Shown(p, i - 1), p.ships[i].cells, p.ships[i].size)
    BY <2>1, ShownNext
  <2>4. Len(Shown(p, i - 1).ships) = i - 1
    BY <2>1 DEF Shown
  <2>5. t[i].at \in {"PLACE_SHIPS_WAITING", "SHOWING"} /\ t[i].b1 = Shown(p, i - 1) /\ t[i].b2 = b
    BY <1>4, <2>1
  <2> QED BY <1>3, <2>1, <2>2, <2>3, <2>4, <2>5 DEF Hop
<1>8. \A i, j \in 1 .. NumShips + 1 : i <= j => Rank(t[i].at) <= Rank(t[j].at)
  BY <1>4 DEF Rank
<1>9. Along(t, q)
  BY <1>3, <1>7, <1>8 DEF Along
<1> QED BY <1>3, <1>5, <1>6, <1>9 DEF Path, q

----------------------------------------------------------------------------
(* What a handler of the host tells the client                             *)

\* All fields but those of S are kept.
Keeps(n, c, S) == DOMAIN c = Fields /\ \A f \in Fields \ S : c[f] = n[f]

\* Two states of the host of which a client should know the same.
Alike(n, c) ==
  /\ HostAt(c) = HostAt(n)
  /\ HostAt(n) \in Fighting =>
       c.p1 = n.p1 /\ c.p2 = n.p2 /\ c.at = n.at /\ (Untold(c) <=> Untold(n))

\* From a state k that mirrors the host before, the messages of q lead to one that
\* mirrors the host after; a client in the lobby stays there, and one that has not been
\* shown the host's fleet is not told of the fight.
Reaches(n, c, q) ==
  \A k : Mirror(n, k) =>
    \E l : /\ Path(q, k, l) /\ Mirror(c, l)
           /\ k.at = "lobby" => l.at = "lobby"
           /\ Rank(k.at) <= 2 => Rank(l.at) <= 2

NoExit(q) == \A i \in 1 .. Len(q) : q[i] # StateMsg("EXIT")

Tells(n, c) == \E q \in Seq(ToClient) : c.out = n.out \o q /\ NoExit(q) /\ Reaches(n, c, q)

\* The host goes through the parts of a game in their order.
Goes(n, c) ==
  /\ HostAt(n) = "lobby" => HostAt(c) = "lobby"
  /\ HostAt(n) = "PLACE_SHIPS_P1" => HostAt(c) \in {"PLACE_SHIPS_P1", "PLACE_SHIPS_WAITING"} /\ c.p2 = n.p2
  /\ HostAt(n) = "PLACE_SHIPS_WAITING" => HostAt(c) = HostAt(n) /\ c.p2 = n.p2
  /\ HostAt(n) \in Fighting => HostAt(c) \in Fighting \cup {"lobby"}

\* Nobody's shot comes under way.
Rests(n, c) == Settled(n) => Settled(c)

HostStep(n, c) == HostOK(c) /\ Tells(n, c) /\ Goes(n, c)

\* A client that is up to date with the one state is so with the other.
LEMMA AlikeMirrors ==
  \A n, c, k : Alike(n, c) /\ Mirror(n, k) => Mirror(c, k)
<1> SUFFICES ASSUME NEW n, NEW c, NEW k, Alike(n, c), Mirror(n, k) PROVE Mirror(c, k)
  OBVIOUS
<1>1. ASSUME Patient, k.at \in Fighting PROVE Told(c, k)
  <2>1. HostAt(n) = k.at /\ k.at # "lobby" /\ HostAt(c) = k.at /\ Told(n, k)
    BY <1>1 DEF Mirror, Alike, Fighting
  <2>2. Screen(n) = k.at /\ Screen(c) = k.at
    BY <2>1 DEF HostAt
  <2>3. c.p1 = n.p1 /\ c.p2 = n.p2 /\ c.at = n.at /\ (Untold(c) <=> Untold(n))
    BY <1>1, <2>1 DEF Alike
  <2> QED BY <2>1, <2>2, <2>3 DEF Told
<1> QED BY <1>1 DEF Mirror, Alike

\* Nothing needs to be said.
LEMMA SaysNothing ==
  ASSUME NEW n, n.out \in Seq(ToClient), NEW c, c.out = n.out, Alike(n, c)
  PROVE  Tells(n, c)
<1>1. << >> \in Seq(ToClient) /\ c.out = n.out \o << >> /\ NoExit(<< >>)
  BY DEF NoExit
<1>2. Reaches(n, c, << >>)
  BY AlikeMirrors, PathEmpty DEF Reaches
<1> QED BY <1>1, <1>2 DEF Tells

\* One message is enough.
LEMMA SaysOne ==
  ASSUME NEW n, n.out \in Seq(ToClient), NEW msg \in ToClient, msg # StateMsg("EXIT"),
         NEW c, c.out = Append(n.out, msg),
         \A k : Mirror(n, k) =>
           \E l : /\ Hop(k, msg, l) /\ Mirror(c, l) /\ Rank(k.at) <= Rank(l.at)
                  /\ k.at = "lobby" => l.at = "lobby"
                  /\ Rank(k.at) <= 2 => Rank(l.at) <= 2
  PROVE  Tells(n, c)
<1>1. <<msg>> \in Seq(ToClient) /\ c.out = n.out \o <<msg>> /\ NoExit(<<msg>>)
  BY DEF NoExit
<1>2. Reaches(n, c, <<msg>>)
  BY PathOne DEF Reaches
<1> QED BY <1>1, <1>2 DEF Tells

\* Two handlers one after the other.
LEMMA TellsBoth ==
  ASSUME NEW n, n.out \in Seq(ToClient), NEW e, Tells(n, e), NEW c, Tells(e, c) PROVE Tells(n, c)
<1>1. PICK p \in Seq(ToClient) : e.out = n.out \o p /\ NoExit(p) /\ Reaches(n, e, p)
  BY DEF Tells
<1>2. PICK q \in Seq(ToClient) : c.out = e.out \o q /\ NoExit(q) /\ Reaches(e, c, q)
  BY DEF Tells
<1>3. p \o q \in Seq(ToClient) /\ c.out = n.out \o (p \o q)
  <2>1. PICK o \in Seq(ToClient) : o = n.out
    OBVIOUS
  <2>2. (o \o p) \o q = o \o (p \o q)
    BY ConcatAssociative
  <2> QED BY <1>1, <1>2, <2>1, <2>2
<1>4. NoExit(p \o q)
  <2> SUFFICES ASSUME NEW i \in 1 .. Len(p \o q) PROVE (p \o q)[i] # StateMsg("EXIT")
    BY DEF NoExit
  <2>1. CASE i <= Len(p)
    BY <1>1, <2>1 DEF NoExit
  <2>2. CASE i > Len(p)
    <3>1. (p \o q)[i] = q[i - Len(p)] /\ i - Len(p) \in 1 .. Len(q)
      BY <2>2
    <3> QED BY <1>2, <3>1 DEF NoExit
  <2> QED BY <2>1, <2>2
<1>5. Reaches(n, c, p \o q)
  <2> SUFFICES ASSUME NEW k, Mirror(n, k)
               PROVE  \E m : /\ Path(p \o q, k, m) /\ Mirror(c, m)
                             /\ k.at = "lobby" => m.at = "lobby"
                             /\ Rank(k.at) <= 2 => Rank(m.at) <= 2
    BY DEF Reaches
  <2>1. PICK l : Path(p, k, l) /\ Mirror(e, l) /\ (k.at = "lobby" => l.at = "lobby")
                 /\ (Rank(k.at) <= 2 => Rank(l.at) <= 2)
    BY <1>1 DEF Reaches
  <2>2. PICK m : Path(q, l, m) /\ Mirror(c, m) /\ (l.at = "lobby" => m.at = "lobby")
                 /\ (Rank(l.at) <= 2 => Rank(m.at) <= 2)
    BY <1>2, <2>1 DEF Reaches
  <2>3. Path(p \o q, k, m)
    BY <2>1, <2>2, PathJoin
  <2> QED BY <2>1, <2>2, <2>3
<1> QED BY <1>3, <1>4, <1>5 DEF Tells

\* Two steps of the host make one.
LEMMA StepsBoth ==
  ASSUME NEW n, HostOK(n), NEW e, HostStep(n, e), NEW c, HostStep(e, c) PROVE HostStep(n, c)
<1>1. Tells(n, c)
  BY TellsBoth DEF HostStep, HostOK, HostShape
<1>2. Goes(n, c)
  BY DEF HostStep, Goes, Fighting
<1> QED BY <1>1, <1>2 DEF HostStep

\* To stand still is a step.
LEMMA StandsStill == ASSUME NEW n, HostOK(n) PROVE HostStep(n, n)
<1>1. Tells(n, n)
  BY SaysNothing DEF Alike, HostOK, HostShape
<1> QED BY <1>1 DEF HostStep, Goes

\* A client on the screen of a fight is told of another one.
LEMMA FightGoesOn ==
  ASSUME NEW n, HostOK(n), HostAt(n) \in Fighting, Patient => ~Untold(n),
         NEW next \in Fighting, HostAt(n) \in Gate(next),
         NEW c, c.out = Append(n.out, StateMsg(next)), HostAt(c) = next,
         c.p1 = n.p1, c.p2 = n.p2, Patient => ~Untold(c)
  PROVE  Tells(n, c) /\ Goes(n, c)
<1>1. StateMsg(next) \in ToClient /\ StateMsg(next) # StateMsg("EXIT")
  BY DEF StateMsg, ToClient, Fighting, Tags
<1>2. ASSUME NEW k, Mirror(n, k)
      PROVE  \E l : /\ Hop(k, StateMsg(next), l) /\ Mirror(c, l) /\ Rank(k.at) <= Rank(l.at)
                    /\ k.at = "lobby" => l.at = "lobby"
                    /\ Rank(k.at) <= 2 => Rank(l.at) <= 2
  <2>1. k.at = HostAt(n) /\ k.at \in Fighting
    BY <1>2 DEF Mirror, Fighting
  <2>2. PICK l : l = Copied(next, k.b1, k.b2)
    OBVIOUS
  <2>3. l.at = next /\ l.b1 = k.b1 /\ l.b2 = k.b2
    BY <2>2 DEF Copied
  <2>4. Hop(k, StateMsg(next), l)
    BY <2>1, <2>2 DEF Hop, Leads, StateMsg
  <2>5. Rank(k.at) = 4 /\ Rank(l.at) = 4
    BY <2>1, <2>3, RankSays
  <2>6. Mirror(c, l)
    <3>1. Patient => Told(n, k)
      BY <1>2, <2>1 DEF Mirror
    <3>2. Patient => Told(c, l)
      BY <2>3, <3>1 DEF Told
    <3> QED BY <2>3, <3>2 DEF Mirror, Fighting
  <2>7. k.at # "lobby"
    BY <2>1 DEF Fighting
  <2> QED BY <2>4, <2>5, <2>6, <2>7
<1>3. Tells(n, c)
  BY <1>1, <1>2, SaysOne DEF HostOK, HostShape
<1> QED BY <1>3 DEF Goes, Fighting

----------------------------------------------------------------------------
(* The host's timer                                                        *)

\* What the timer counts, and what nobody reads of a host.
Clocks == {"cticks", "secs", "post", "word", "eticks", "clicked", "out"}

\* Counting, and sending, leave the host in order.
LEMMA ClockKeeps ==
  ASSUME NEW n, HostOK(n), NEW c, Keeps(n, c, Clocks), Ranges(c), c.out \in Seq(ToClient),
         c.tag = "COUNTDOWN" => c.secs > 0
  PROVE  HostOK(c)
<1>1. \A f \in Fields \ Clocks : c[f] = n[f]
  BY DEF Keeps
<1>2. /\ c.role = n.role /\ c.single = n.single /\ c.waiting = n.waiting /\ c.done = n.done
      /\ c.over = n.over /\ c.at = n.at /\ c.p1 = n.p1 /\ c.p2 = n.p2 /\ c.tag = n.tag
      /\ c.prev = n.prev /\ c.connected = n.connected /\ c.idx = n.idx /\ c.expl = n.expl
  BY <1>1 DEF Fields, Clocks
<1>3. Screen(c) = Screen(n) /\ HostAt(c) = HostAt(n) /\ (Exploding(c) <=> Exploding(n))
  BY <1>2 DEF Screen, HostAt, Exploding
<1>4. HostShape(c)
  BY <1>2 DEF HostOK, HostShape, Keeps
<1>5. HostScreens(c)
  BY <1>2, <1>3 DEF HostOK, HostScreens
<1>6. HostBoards(c)
  BY <1>2, <1>3 DEF HostOK, HostBoards, Blank
<1>7. Patient => UnderWay(c)
  BY <1>2, <1>3 DEF HostOK, UnderWay
<1> QED BY <1>4, <1>5, <1>6, <1>7 DEF HostOK

\* A host that counts does not move.
LEMMA ClockStill ==
  ASSUME NEW n, NEW c, Keeps(n, c, Clocks)
  PROVE  Alike(n, c) /\ Goes(n, c) /\ Rests(n, c) /\ Screen(c) = Screen(n)
<1>1. \A f \in Fields \ Clocks : c[f] = n[f]
  BY DEF Keeps
<1>2. /\ c.waiting = n.waiting /\ c.done = n.done /\ c.at = n.at /\ c.p1 = n.p1 /\ c.p2 = n.p2
      /\ c.tag = n.tag /\ c.prev = n.prev /\ c.expl = n.expl
  BY <1>1 DEF Fields, Clocks
<1>3. Screen(c) = Screen(n) /\ HostAt(c) = HostAt(n) /\ (Exploding(c) <=> Exploding(n))
  BY <1>2 DEF Screen, HostAt, Exploding
<1> QED BY <1>2, <1>3 DEF Alike, Goes, Rests, Settled, Untold

\* What game_handle_timer does in the countdown.
LEMMA CountdownDoes ==
  ASSUME NEW n, HostOK(n), NEW c, c = Countdown(n)
  PROVE  \/ c = n
         \/ /\ n.tag = "COUNTDOWN" /\ Keeps(n, c, {"cticks"}) /\ c.cticks \in 0 .. TicksPerSec - 1
         \/ /\ n.tag = "COUNTDOWN" /\ Keeps(n, c, {"cticks", "secs", "out"})
            /\ c.cticks = 0 /\ c.secs = n.secs - 1 /\ c.secs > 0
            /\ c.out = Append(n.out, [type |-> "SECONDS", secs |-> c.secs])
         \/ /\ n.tag = "COUNTDOWN" /\ Keeps(n, c, {"cticks", "secs", "word", "tag", "prev", "clicked", "out"})
            /\ c.cticks = 0 /\ c.secs = n.secs - 1 /\ c.secs = 0 /\ c.word = 1
            /\ c.tag = "TURN_P1" /\ c.prev = "COUNTDOWN" /\ c.out = Append(n.out, StateMsg("TURN_P1"))
<1>1. /\ DOMAIN n = Fields /\ n.role = Host /\ n.single = FALSE /\ n.secs \in 0 .. CountdownStart
      /\ n.cticks \in 0 .. TicksPerSec - 1
      /\ TicksPerSec \in Nat \ {0} /\ CountdownStart \in Nat \ {0}
      /\ n.tag = "COUNTDOWN" => n.secs > 0
  BY TimingAssumption DEF HostOK, HostShape, Ranges, HostScreens
<1>2. CASE n.tag # "COUNTDOWN"
  BY <1>2 DEF Countdown
<1>3. CASE n.tag = "COUNTDOWN"
  <2> DEFINE ticked == [n EXCEPT !.cticks = n.cticks + 1]
             second == [n EXCEPT !.cticks = 0, !.secs = n.secs - 1]
             begun  == [second EXCEPT !.word = 1]
  <2>1. c = IF n.cticks + 1 < TicksPerSec THEN ticked
            ELSE IF second.secs <= 0 THEN Push(begun, "TURN_P1")
            ELSE Send(second, [type |-> "SECONDS", secs |-> second.secs])
    BY <1>1, <1>3 DEF Countdown, Fields
  <2>2. CASE n.cticks + 1 < TicksPerSec
    <3>1. c = ticked
      BY <2>1, <2>2
    <3> QED BY <1>1, <1>3, <2>2, <3>1 DEF Keeps, Fields
  <2>3. CASE ~(n.cticks + 1 < TicksPerSec) /\ second.secs <= 0
    <3>1. c = Send(Transition(begun, "TURN_P1"), StateMsg("TURN_P1"))
      BY <1>1, <2>1, <2>3 DEF Push, Fields
    <3>2. second.secs = n.secs - 1
      BY <1>1 DEF Fields
    <3>3. /\ DOMAIN c = Fields /\ \A f \in Fields \ {"cticks", "secs", "word", "tag", "prev", "clicked", "out"} : c[f] = n[f]
          /\ c.cticks = 0 /\ c.secs = n.secs - 1 /\ c.word = 1
          /\ c.tag = "TURN_P1" /\ c.prev = "COUNTDOWN" /\ c.out = Append(n.out, StateMsg("TURN_P1"))
      BY <1>1, <1>3, <3>1 DEF Send, Transition, Fields
    <3>4. c.secs = 0
      BY <1>1, <1>3, <2>3, <3>2, <3>3
    <3> QED BY <1>3, <3>3, <3>4 DEF Keeps
  <2>4. CASE ~(n.cticks + 1 < TicksPerSec) /\ ~(second.secs <= 0)
    <3>1. c = Send(second, [type |-> "SECONDS", secs |-> second.secs])
      BY <2>1, <2>4
    <3>2. second.secs = n.secs - 1
      BY <1>1 DEF Fields
    <3>3. /\ DOMAIN c = Fields /\ \A f \in Fields \ {"cticks", "secs", "out"} : c[f] = n[f]
          /\ c.cticks = 0 /\ c.secs = n.secs - 1 
          /\ c.out = Append(n.out, [type |-> "SECONDS", secs |-> second.secs])
      BY <1>1, <1>3, <3>1 DEF Send, Fields
    <3>4. c.secs > 0 /\ c.secs = second.secs
      BY <1>1, <1>3, <2>4, <3>2, <3>3
    <3> QED BY <1>3, <3>3, <3>4 DEF Keeps
  <2> QED BY <2>2, <2>3, <2>4
<1> QED BY <1>2, <1>3

\* The countdown.
LEMMA CountdownSteps ==
  ASSUME NEW n, HostOK(n), NEW c, c = Countdown(n) PROVE HostStep(n, c) /\ Rests(n, c)
<1>1. /\ DOMAIN n = Fields /\ n.secs \in 0 .. CountdownStart /\ n.out \in Seq(ToClient)
      /\ n.cticks \in 0 .. TicksPerSec - 1 /\ Ranges(n) /\ HostShape(n)
      /\ TicksPerSec \in Nat \ {0} /\ CountdownStart \in Nat \ {0}
      /\ n.tag = "COUNTDOWN" => n.secs > 0
  BY TimingAssumption DEF HostOK, HostShape, Ranges, HostScreens
<1>2. CASE c = n
  BY <1>2, StandsStill DEF Rests
<1>3. CASE n.tag = "COUNTDOWN" /\ Keeps(n, c, {"cticks"}) /\ c.cticks \in 0 .. TicksPerSec - 1
  <2>1. Keeps(n, c, Clocks) /\ c.out = n.out
    BY <1>3 DEF Keeps, Clocks, Fields
  <2>2. Ranges(c) /\ c.secs = n.secs
    BY <1>1, <1>3 DEF Keeps, Ranges, Fields
  <2>3. HostOK(c)
    BY <1>1, <1>3, <2>1, <2>2, ClockKeeps
  <2>4. Tells(n, c)
    BY <1>1, <2>1, ClockStill, SaysNothing
  <2> QED BY <2>1, <2>3, <2>4, ClockStill DEF HostStep
<1>4. CASE /\ n.tag = "COUNTDOWN" /\ Keeps(n, c, {"cticks", "secs", "out"})
           /\ c.cticks = 0 /\ c.secs = n.secs - 1 /\ c.secs > 0
           /\ c.out = Append(n.out, [type |-> "SECONDS", secs |-> c.secs])
  <2>1. Keeps(n, c, Clocks)
    BY <1>4 DEF Keeps, Clocks, Fields
  <2>0. c.secs \in 0 .. CountdownStart
    BY <1>1, <1>4
  <2>2. Ranges(c)
    BY <1>1, <1>4, <2>0 DEF Keeps, Ranges, Fields
  <2> DEFINE msg == [type |-> "SECONDS", secs |-> c.secs]
  <2>3. msg \in ToClient /\ msg # StateMsg("EXIT") /\ msg.type = "SECONDS"
    BY <2>0 DEF ToClient, StateMsg
  <2> HIDE DEF msg
  <2>4. c.out \in Seq(ToClient) /\ c.out = Append(n.out, msg)
    BY <1>1, <1>4, <2>3 DEF msg
  <2>5. HostOK(c)
    BY <1>4, <2>1, <2>2, <2>4, ClockKeeps
  <2>6. ASSUME NEW k, Mirror(n, k)
        PROVE  Hop(k, msg, k) /\ Mirror(c, k) /\ Rank(k.at) <= Rank(k.at)
    <3>1. k.at = "COUNTDOWN"
      BY <1>4, <2>6 DEF Mirror, HostAt, Screen, Lobby
    <3> QED BY <2>1, <2>3, <2>6, <3>1, AlikeMirrors, ClockStill, RankSays DEF Hop
  <2>7. Tells(n, c)
    BY <1>1, <2>3, <2>4, <2>6, SaysOne
  <2> QED BY <2>1, <2>5, <2>7, ClockStill DEF HostStep
<1>5. CASE /\ n.tag = "COUNTDOWN" /\ Keeps(n, c, {"cticks", "secs", "word", "tag", "prev", "clicked", "out"})
           /\ c.cticks = 0 /\ c.secs = n.secs - 1 /\ c.secs = 0 /\ c.word = 1
           /\ c.tag = "TURN_P1" /\ c.prev = "COUNTDOWN" /\ c.out = Append(n.out, StateMsg("TURN_P1"))
  <2>1. /\ c.role = n.role /\ c.single = n.single /\ c.waiting = n.waiting /\ c.done = n.done
        /\ c.over = n.over /\ c.at = n.at /\ c.p1 = n.p1 /\ c.p2 = n.p2 /\ c.post = n.post
        /\ c.connected = n.connected /\ c.idx = n.idx /\ c.expl = n.expl /\ DOMAIN c = Fields
    BY <1>5 DEF Keeps, Fields
  <2>2. Screen(c) = "TURN_P1" /\ HostAt(c) = "TURN_P1" /\ Screen(n) = "COUNTDOWN" /\ HostAt(n) = "COUNTDOWN"
    BY <1>5 DEF Screen, HostAt, Lobby
  <2>3. Patient => ~Untold(n) /\ ~Untold(c)
    BY <1>5, <2>1, <2>2 DEF HostOK, UnderWay, Untold, Turns, Exploding
  <2>4. HostOK(c)
    <3>0. StateMsg("TURN_P1") \in ToClient
      BY DEF StateMsg, ToClient, Tags
    <3>1. HostShape(c)
      BY <1>1, <1>5, <2>1, <3>0 DEF HostShape
    <3>2. Ranges(c)
      BY <1>1, <1>5, <2>1 DEF Ranges, Tags
    <3>3. HostScreens(c)
      BY <1>5, <2>1, <2>2 DEF HostOK, HostScreens, Turns
    <3>4. HostBoards(c)
      BY <1>5, <2>1, <2>2 DEF HostOK, HostBoards, Fighting
    <3>5. Patient => UnderWay(c)
      BY <1>5, <2>1, <2>2, <2>3 DEF HostOK, UnderWay, Untold, Turns, Exploding
    <3> QED BY <3>1, <3>2, <3>3, <3>4, <3>5 DEF HostOK
  <2>5. Tells(n, c) /\ Goes(n, c)
    BY <1>5, <2>1, <2>2, <2>3, FightGoesOn DEF Fighting, Gate
  <2>6. Rests(n, c)
    BY <2>1 DEF Rests, Settled, Exploding
  <2> QED BY <2>4, <2>5, <2>6 DEF HostStep
<1> QED BY <1>2, <1>3, <1>4, <1>5, CountdownDoes

\* A host that goes from one screen of a fight to another, with nothing under way.
LEMMA FightInOrder ==
  ASSUME NEW n, HostOK(n), Screen(n) \in Fighting,
         NEW c, Keeps(n, c, Clocks \cup {"tag", "prev", "waiting"}), Ranges(c), c.out \in Seq(ToClient),
         c.tag \in Fighting \ {"COUNTDOWN"}, c.waiting = FALSE, Patient => ~Untold(c)
  PROVE  HostOK(c) /\ HostAt(c) = c.tag
<1>1. \A f \in Fields \ (Clocks \cup {"tag", "prev", "waiting"}) : c[f] = n[f]
  BY DEF Keeps
<1>2. /\ c.role = n.role /\ c.single = n.single /\ c.done = n.done
      /\ c.over = n.over /\ c.at = n.at /\ c.p1 = n.p1 /\ c.p2 = n.p2
      /\ c.connected = n.connected /\ c.idx = n.idx /\ c.expl = n.expl
  BY <1>1 DEF Fields, Clocks
<1>3. Screen(c) = c.tag /\ HostAt(c) = c.tag /\ HostAt(n) = Screen(n) /\ HostAt(n) # "lobby"
  BY DEF Screen, HostAt, Fighting, Lobby
<1>4. HostShape(c)
  BY <1>2 DEF HostOK, HostShape, Keeps
<1>5. HostScreens(c)
  BY <1>2, <1>3 DEF HostOK, HostScreens, Fighting
<1>6. HostBoards(c)
  BY <1>2, <1>3 DEF HostOK, HostBoards, Fighting
<1>7. Patient => UnderWay(c)
  BY DEF UnderWay, Untold
<1> QED BY <1>3, <1>4, <1>5, <1>6, <1>7 DEF HostOK

\* The wait goes on, or ends with the turn it belongs to.
LEMMA PostAttackDoes ==
  ASSUME NEW n, HostOK(n), NEW c, c = PostAttack(n)
  PROVE  \/ c = n
         \/ Keeps(n, c, {"post"}) /\ c.post \in 0 .. PostAttackTicks - 1
         \/ /\ n.waiting /\ n.tag \in Turns
            /\ Keeps(n, c, {"waiting", "post", "cticks", "word", "tag", "prev", "clicked", "out"})
            /\ c.waiting = FALSE /\ c.post = 0 /\ c.cticks = 0 /\ c.prev = n.tag
            /\ IF n.tag = "TURN_P1" THEN c.word = 2 /\ c.tag = "HANDOVER_P2"
               ELSE c.word = 1 /\ c.tag = "HANDOVER_P1"
            /\ c.out = Append(n.out, StateMsg(c.tag))
<1>1. /\ DOMAIN n = Fields /\ n.role = Host /\ n.single = FALSE
      /\ n.post \in 0 .. PostAttackTicks - 1 /\ PostAttackTicks \in Nat \ {0}
      /\ n.waiting => n.tag \in Turns
  BY TimingAssumption DEF HostOK, HostShape, Ranges, HostScreens
<1>2. CASE ~n.waiting
  BY <1>2 DEF PostAttack
<1>3. CASE n.waiting
  <2> DEFINE more   == [n EXCEPT !.post = n.post + 1]
             over   == [n EXCEPT !.waiting = FALSE, !.post = 0, !.cticks = 0]
             second == [over EXCEPT !.word = 2]
             first  == [over EXCEPT !.word = 1]
  <2>1. c = IF n.post + 1 < PostAttackTicks THEN more
            ELSE IF n.tag = "TURN_P1" THEN Push(second, "HANDOVER_P2") ELSE Push(first, "HANDOVER_P1")
    BY <1>1, <1>3 DEF PostAttack
  <2>2. CASE n.post + 1 < PostAttackTicks
    <3>1. c = more
      BY <2>1, <2>2
    <3> QED BY <1>1, <2>2, <3>1 DEF Keeps, Fields
  <2>3. CASE ~(n.post + 1 < PostAttackTicks) /\ n.tag = "TURN_P1"
    <3>1. c = Send(Transition(second, "HANDOVER_P2"), StateMsg("HANDOVER_P2"))
      BY <1>1, <2>1, <2>3 DEF Push, Fields
    <3> QED BY <1>1, <1>3, <2>3, <3>1 DEF Keeps, Send, Transition, Fields
  <2>4. CASE ~(n.post + 1 < PostAttackTicks) /\ n.tag # "TURN_P1"
    <3>1. c = Send(Transition(first, "HANDOVER_P1"), StateMsg("HANDOVER_P1"))
      BY <1>1, <2>1, <2>4 DEF Push, Fields
    <3> QED BY <1>1, <1>3, <2>4, <3>1 DEF Keeps, Send, Transition, Fields
  <2> QED BY <2>2, <2>3, <2>4
<1> QED BY <1>2, <1>3

\* The wait after a miss, and its end, are steps of the host.
LEMMA PostAttackSteps ==
  ASSUME NEW n, HostOK(n), NEW c, c = PostAttack(n) PROVE HostStep(n, c) /\ Rests(n, c)
<1>1. HostShape(n) /\ Ranges(n) /\ DOMAIN n = Fields /\ n.out \in Seq(ToClient) /\ n.tag \in Tags
      /\ TicksPerSec \in Nat \ {0} /\ PostAttackTicks \in Nat \ {0}
  BY TimingAssumption DEF HostOK, HostShape, Ranges
<1>2. CASE c = n
  BY <1>2, StandsStill DEF Rests
<1>3. CASE Keeps(n, c, {"post"}) /\ c.post \in 0 .. PostAttackTicks - 1
  <2>1. Keeps(n, c, Clocks) /\ c.out = n.out /\ c.tag = n.tag /\ c.secs = n.secs
    BY <1>3 DEF Keeps, Clocks, Fields
  <2>2. Ranges(c)
    BY <1>1, <1>3 DEF Keeps, Ranges, Fields
  <2>3. HostOK(c)
    BY <1>1, <2>1, <2>2, ClockKeeps DEF HostOK, HostScreens
  <2>4. Tells(n, c)
    BY <1>1, <2>1, ClockStill, SaysNothing
  <2> QED BY <2>1, <2>3, <2>4, ClockStill DEF HostStep
<1>4. CASE /\ n.waiting /\ n.tag \in Turns
           /\ Keeps(n, c, {"waiting", "post", "cticks", "word", "tag", "prev", "clicked", "out"})
           /\ c.waiting = FALSE /\ c.post = 0 /\ c.cticks = 0 /\ c.prev = n.tag
           /\ IF n.tag = "TURN_P1" THEN c.word = 2 /\ c.tag = "HANDOVER_P2"
              ELSE c.word = 1 /\ c.tag = "HANDOVER_P1"
           /\ c.out = Append(n.out, StateMsg(c.tag))
  <2>1. Keeps(n, c, Clocks \cup {"tag", "prev", "waiting"}) /\ c.p1 = n.p1 /\ c.p2 = n.p2
        /\ c.expl = n.expl /\ c.done = n.done /\ c.secs = n.secs
    BY <1>4 DEF Keeps, Clocks, Fields
  <2>2. Screen(n) = n.tag /\ HostAt(n) = n.tag /\ n.tag \in Fighting
        /\ c.tag \in Fighting \ {"COUNTDOWN"} /\ c.tag \in Tags /\ HostAt(n) \in Gate(c.tag) /\ c.word \in 0 .. 3
    BY <1>4 DEF Screen, HostAt, Turns, Lobby, Fighting, Gate, Tags
  <2>3. Patient => ~Untold(n) /\ ~Untold(c)
    BY <1>4, <2>1 DEF HostOK, UnderWay, Untold, Exploding
  <2>4. Ranges(c)
    BY <1>1, <1>4, <2>1, <2>2 DEF Ranges
  <2>5. c.out \in Seq(ToClient)
    <3>1. StateMsg(c.tag) \in ToClient
      BY <2>2 DEF StateMsg, ToClient
    <3> QED BY <1>1, <1>4, <3>1
  <2>6. HostOK(c) /\ HostAt(c) = c.tag
    BY <1>4, <2>1, <2>2, <2>3, <2>4, <2>5, FightInOrder
  <2>7. Tells(n, c) /\ Goes(n, c)
    BY <1>4, <2>1, <2>2, <2>3, <2>6, FightGoesOn
  <2>8. Rests(n, c)
    BY <1>4 DEF Rests, Settled
  <2> QED BY <2>6, <2>7, <2>8 DEF HostStep
<1> QED BY <1>2, <1>3, <1>4, PostAttackDoes

\* The handover screen gives way to the turn it announces.
LEMMA HandoverDoes ==
  ASSUME NEW n, HostOK(n), NEW c, c = Handover(n)
  PROVE  \/ c = n
         \/ Keeps(n, c, {"cticks"}) /\ c.cticks \in 0 .. TicksPerSec - 1
         \/ /\ n.tag \in {"HANDOVER_P1", "HANDOVER_P2"}
            /\ Keeps(n, c, {"cticks", "tag", "prev", "clicked", "out"})
            /\ c.cticks = 0 /\ c.prev = n.tag
            /\ c.tag = IF n.tag = "HANDOVER_P1" THEN "TURN_P1" ELSE "TURN_P2"
            /\ c.out = Append(n.out, StateMsg(c.tag))
<1>1. /\ DOMAIN n = Fields /\ n.role = Host /\ n.single = FALSE
      /\ n.cticks \in 0 .. TicksPerSec - 1 /\ TicksPerSec \in Nat \ {0}
  BY TimingAssumption DEF HostOK, HostShape, Ranges
<1>2. CASE n.tag \notin {"HANDOVER_P1", "HANDOVER_P2"}
  BY <1>2 DEF Handover
<1>3. CASE n.tag \in {"HANDOVER_P1", "HANDOVER_P2"}
  <2> DEFINE more == [n EXCEPT !.cticks = n.cticks + 1]
             over == [n EXCEPT !.cticks = 0]
             next == IF n.tag = "HANDOVER_P1" THEN "TURN_P1" ELSE "TURN_P2"
  <2>1. c = IF n.cticks + 1 < TicksPerSec THEN more ELSE Push(over, next)
    BY <1>1, <1>3 DEF Handover
  <2>2. CASE n.cticks + 1 < TicksPerSec
    <3>1. c = more
      BY <2>1, <2>2
    <3> QED BY <1>1, <2>2, <3>1 DEF Keeps, Fields
  <2>3. CASE ~(n.cticks + 1 < TicksPerSec)
    <3> HIDE DEF next
    <3>1. c = Send(Transition(over, next), StateMsg(next))
      BY <1>1, <2>1, <2>3 DEF Push, Fields
    <3>2. Keeps(n, c, {"cticks", "tag", "prev", "clicked", "out"}) /\ c.cticks = 0 /\ c.prev = n.tag
          /\ c.tag = next /\ c.out = Append(n.out, StateMsg(next))
      BY <1>1, <3>1 DEF Keeps, Send, Transition, Fields
    <3> QED BY <1>3, <3>2 DEF next
  <2> QED BY <2>2, <2>3
<1> QED BY <1>2, <1>3

\* So are the handover and its end.
LEMMA HandoverSteps ==
  ASSUME NEW n, HostOK(n), NEW c, c = Handover(n) PROVE HostStep(n, c) /\ Rests(n, c)
<1>1. HostShape(n) /\ Ranges(n) /\ DOMAIN n = Fields /\ n.out \in Seq(ToClient) /\ n.tag \in Tags
      /\ TicksPerSec \in Nat \ {0} /\ PostAttackTicks \in Nat \ {0}
  BY TimingAssumption DEF HostOK, HostShape, Ranges
<1>2. CASE c = n
  BY <1>2, StandsStill DEF Rests
<1>3. CASE Keeps(n, c, {"cticks"}) /\ c.cticks \in 0 .. TicksPerSec - 1
  <2>1. Keeps(n, c, Clocks) /\ c.out = n.out /\ c.tag = n.tag /\ c.secs = n.secs
    BY <1>3 DEF Keeps, Clocks, Fields
  <2>2. Ranges(c)
    BY <1>1, <1>3 DEF Keeps, Ranges, Fields
  <2>3. HostOK(c)
    BY <1>1, <2>1, <2>2, ClockKeeps DEF HostOK, HostScreens
  <2>4. Tells(n, c)
    BY <1>1, <2>1, ClockStill, SaysNothing
  <2> QED BY <2>1, <2>3, <2>4, ClockStill DEF HostStep
<1>4. CASE /\ n.tag \in {"HANDOVER_P1", "HANDOVER_P2"}
           /\ Keeps(n, c, {"cticks", "tag", "prev", "clicked", "out"})
           /\ c.cticks = 0 /\ c.prev = n.tag
           /\ c.tag = IF n.tag = "HANDOVER_P1" THEN "TURN_P1" ELSE "TURN_P2"
           /\ c.out = Append(n.out, StateMsg(c.tag))
  <2>1. Keeps(n, c, Clocks \cup {"tag", "prev", "waiting"}) /\ c.p1 = n.p1 /\ c.p2 = n.p2
        /\ c.expl = n.expl /\ c.done = n.done /\ c.secs = n.secs /\ c.waiting = n.waiting
        /\ c.word = n.word /\ c.post = n.post
    BY <1>4 DEF Keeps, Clocks, Fields
  <2>2. Screen(n) = n.tag /\ HostAt(n) = n.tag /\ n.tag \in Fighting
        /\ c.tag \in Fighting \ {"COUNTDOWN"} /\ c.tag \in Tags /\ HostAt(n) \in Gate(c.tag)
    BY <1>4 DEF Screen, HostAt, Turns, Lobby, Fighting, Gate, Tags
  <2>3. Patient => ~Untold(n) /\ ~Untold(c)
    BY <1>4, <2>1, <2>2 DEF HostOK, UnderWay, Untold, Exploding, Turns
  <2>9. c.waiting = FALSE
    BY <1>4, <2>1 DEF HostOK, HostShape, HostScreens, Turns
  <2>4. Ranges(c)
    BY <1>1, <1>4, <2>1, <2>2 DEF Ranges
  <2>5. c.out \in Seq(ToClient)
    <3>1. StateMsg(c.tag) \in ToClient
      BY <2>2 DEF StateMsg, ToClient
    <3> QED BY <1>1, <1>4, <3>1
  <2>6. HostOK(c) /\ HostAt(c) = c.tag
    BY <1>4, <2>1, <2>2, <2>3, <2>4, <2>5, <2>9, FightInOrder
  <2>7. Tells(n, c) /\ Goes(n, c)
    BY <1>4, <2>1, <2>2, <2>3, <2>6, FightGoesOn
  <2>8. Rests(n, c)
    BY <2>1 DEF Rests, Settled, Exploding
  <2> QED BY <2>6, <2>7, <2>8 DEF HostStep
<1> QED BY <1>2, <1>3, <1>4, HandoverDoes

\* An animation goes on, or ends and leaves a result to tell.
LEMMA AnimateDoes ==
  ASSUME NEW n, DOMAIN n = Fields, NEW c, c = Animate(n)
  PROVE  \/ c = n
         \/ /\ Exploding(n)
            /\ Keeps(n, c, {"expl", "eticks", "done"})
            /\ \/ c.expl = n.expl /\ c.done = n.done
               \/ c.expl = "splash" /\ c.done = n.done
               \/ c.expl = "none" /\ c.done = TRUE
<1>1. CASE ~Exploding(n)
  BY <1>1 DEF Animate
<1>2. CASE Exploding(n)
  <2> DEFINE frame  == [n EXCEPT !.eticks = n.eticks + 1]
             splash == [n EXCEPT !.expl = "splash", !.eticks = 0]
             ended  == [n EXCEPT !.expl = "none", !.eticks = 0, !.done = TRUE]
  <2>1. c \in {frame, splash, ended}
    BY <1>2 DEF Animate
  <2>2. CASE c = frame
    BY <1>2, <2>2 DEF Keeps, Fields
  <2>3. CASE c = splash
    BY <1>2, <2>3 DEF Keeps, Fields
  <2>4. CASE c = ended
    BY <1>2, <2>4 DEF Keeps, Fields
  <2> QED BY <2>1, <2>2, <2>3, <2>4
<1> QED BY <1>1, <1>2

\* So is a frame of the animation.
LEMMA AnimateSteps ==
  ASSUME NEW n, HostOK(n), NEW c, c = Animate(n) PROVE HostStep(n, c) /\ Rests(n, c)
<1>1. HostShape(n) /\ Ranges(n) /\ DOMAIN n = Fields /\ n.out \in Seq(ToClient)
  BY DEF HostOK, HostShape
<1>2. CASE c = n
  BY <1>2, StandsStill DEF Rests
<1>3. CASE /\ Exploding(n)
           /\ Keeps(n, c, {"expl", "eticks", "done"})
           /\ \/ c.expl = n.expl /\ c.done = n.done
              \/ c.expl = "splash" /\ c.done = n.done
              \/ c.expl = "none" /\ c.done = TRUE
  <2>1. /\ c.role = n.role /\ c.single = n.single /\ c.waiting = n.waiting
        /\ c.over = n.over /\ c.at = n.at /\ c.p1 = n.p1 /\ c.p2 = n.p2 /\ c.tag = n.tag
        /\ c.prev = n.prev /\ c.connected = n.connected /\ c.idx = n.idx
        /\ c.word = n.word /\ c.secs = n.secs /\ c.cticks = n.cticks /\ c.post = n.post
        /\ c.out = n.out /\ DOMAIN c = Fields
    BY <1>3 DEF Keeps, Fields
  <2>2. Screen(c) = Screen(n) /\ HostAt(c) = HostAt(n)
    BY <2>1 DEF Screen, HostAt
  <2>3. Untold(n) /\ Untold(c)
    BY <1>3 DEF Untold, Exploding
  <2>4. HostOK(c)
    <3>1. HostShape(c)
      BY <1>1, <1>3, <2>1 DEF HostShape
    <3>2. Ranges(c)
      BY <1>1, <2>1 DEF Ranges
    <3>3. HostScreens(c)
      BY <2>1, <2>2 DEF HostOK, HostScreens
    <3>4. HostBoards(c)
      BY <2>1, <2>2 DEF HostOK, HostBoards, Blank
    <3>5. Patient => UnderWay(c)
      <4>1. Patient => n.tag \in Turns /\ ~n.waiting /\ ~n.done
        BY <1>3 DEF HostOK, UnderWay
      <4>2. n.tag \in Turns => Screen(n) = n.tag
        BY DEF Screen, Turns
      <4> QED BY <1>3, <2>1, <2>2, <4>1, <4>2 DEF UnderWay, Exploding
    <3> QED BY <3>1, <3>2, <3>3, <3>4, <3>5 DEF HostOK
  <2>5. Alike(n, c)
    BY <2>1, <2>2, <2>3 DEF Alike
  <2>6. Tells(n, c)
    BY <1>1, <2>1, <2>5, SaysNothing
  <2>7. Goes(n, c) /\ Rests(n, c)
    BY <1>3, <2>1, <2>2 DEF Goes, Rests, Settled
  <2> QED BY <2>4, <2>6, <2>7 DEF HostStep
<1> QED BY <1>1, <1>2, <1>3, AnimateDoes

\* The host once it has told the result of the shot whose animation has ended.
Reported(n) ==
  [n EXCEPT !.done = FALSE,
            !.out = Append(n.out, [type |-> "RESULT", cell |-> n.at,
                                   result |-> ResultAt(Target(n), n.at)])]

\* The player whose turn it is.
Shooter(n) == IF n.tag = "TURN_P1" THEN 1 ELSE 2

\* What comes of it: the end of the game, a wait, or nothing.
Follows(n, c) ==
  IF AllSunk(Target(n))
  THEN /\ Keeps(Reported(n), c, {"word", "tag", "prev", "clicked", "out"})
       /\ c.word = Shooter(n) /\ c.tag = "GAME_OVER" /\ c.prev = n.tag
       /\ c.out = Append(Append(Reported(n).out, [type |-> "WINNER", winner |-> Shooter(n)]),
                         StateMsg("GAME_OVER"))
  ELSE IF ResultAt(Target(n), n.at) = "miss"
  THEN Keeps(Reported(n), c, {"waiting", "post"}) /\ c.waiting = TRUE /\ c.post = 0
  ELSE c = Reported(n)

\* A result is read on the screen of a turn: it is told, and ends the game, begins the
\* wait after a miss, or lets the same player go on.
LEMMA ResultDoes ==
  ASSUME NEW n, HostOK(n), NEW c, c = Result(n)
  PROVE  \/ c = n /\ (n.tag \in Turns /\ n.done => n.waiting)
         \/ n.tag \in Turns /\ n.done /\ ~n.waiting /\ Follows(n, c)
<1> DEFINE told == Reported(n)
           winner == Shooter(n)
<1>1. DOMAIN n = Fields /\ n.role = Host /\ n.single = FALSE /\ n.waiting \in BOOLEAN /\ n.done \in BOOLEAN
  BY DEF HostOK, HostShape
<1>2. CASE ~(InTurn(n) /\ ~n.waiting /\ n.done)
  <2>1. c = n
    BY <1>2 DEF Result
  <2> QED BY <1>1, <1>2, <2>1 DEF InTurn, Turns
<1>3. CASE InTurn(n) /\ ~n.waiting /\ n.done
  <2> DEFINE result == ResultAt(Target(n), n.at)
             read   == [n EXCEPT !.done = FALSE]
             sent   == Send(read, [type |-> "RESULT", cell |-> n.at, result |-> result])
             ends   == [sent EXCEPT !.word = winner]
             won    == Transition(ends, "GAME_OVER")
  <2> HIDE DEF result
  <2>1. c = IF AllSunk(Target(n))
            THEN Send(Send(won, [type |-> "WINNER", winner |-> winner]), StateMsg("GAME_OVER"))
            ELSE IF result = "miss" THEN [sent EXCEPT !.waiting = TRUE, !.post = 0] ELSE sent
    BY <1>1, <1>3 DEF Result, result, Shooter
  <2>2. sent = told
    <3>1. PICK v : v = Append(n.out, [type |-> "RESULT", cell |-> n.at, result |-> result])
      OBVIOUS
    <3>2. told = [n EXCEPT !.done = FALSE, !.out = v]
      BY <3>1 DEF result, Reported
    <3>3. sent = [read EXCEPT !.out = v]
      BY <1>1, <3>1 DEF Send, Fields
    <3> QED BY <3>2, <3>3
  <2>3. DOMAIN told = Fields /\ told.tag = n.tag
    BY <1>1 DEF Reported, Fields
  <2> HIDE DEF sent, told, winner
  <2>4. CASE AllSunk(Target(n))
    <3>1. c = Send(Send(Transition([told EXCEPT !.word = winner], "GAME_OVER"),
                        [type |-> "WINNER", winner |-> winner]), StateMsg("GAME_OVER"))
      BY <2>1, <2>2, <2>4
    <3>2. Keeps(told, c, {"word", "tag", "prev", "clicked", "out"}) /\ c.word = winner /\ c.tag = "GAME_OVER"
          /\ c.prev = told.tag /\ c.out = Append(Append(told.out, [type |-> "WINNER", winner |-> winner]), StateMsg("GAME_OVER"))
      BY <2>3, <3>1 DEF Keeps, Send, Transition, Fields
    <3> QED BY <1>3, <2>3, <2>4, <3>2 DEF InTurn, Turns, Follows, told, winner
  <2>5. CASE ~AllSunk(Target(n)) /\ result = "miss"
    <3>1. c = [told EXCEPT !.waiting = TRUE, !.post = 0]
      BY <2>1, <2>2, <2>5
    <3>2. Keeps(told, c, {"waiting", "post"}) /\ c.waiting = TRUE /\ c.post = 0
      BY <2>3, <3>1 DEF Keeps, Fields
    <3> QED BY <1>3, <2>5, <3>2 DEF InTurn, Turns, Follows, told, result
  <2>6. CASE ~AllSunk(Target(n)) /\ result # "miss"
    <3>1. c = told
      BY <2>1, <2>2, <2>6
    <3> QED BY <1>3, <2>6, <3>1 DEF InTurn, Turns, Follows, told, result
  <2> QED BY <2>4, <2>5, <2>6
<1> QED BY <1>2, <1>3

\* The client is told the result.
LEMMA ResultTold ==
  ASSUME NEW n, HostOK(n), n.tag \in Turns, n.done, ~n.waiting,
         NEW c, c = Reported(n)
  PROVE  HostStep(n, c) /\ Rests(n, c) /\ Keeps(n, c, {"done", "out"}) /\ c.done = FALSE
<1>1. HostShape(n) /\ Ranges(n) /\ DOMAIN n = Fields /\ n.out \in Seq(ToClient) /\ n.at \in Cells
      /\ Good(n.p1) /\ Good(n.p2)
  BY DEF HostOK, HostShape
<1> DEFINE msg == [type |-> "RESULT", cell |-> n.at, result |-> ResultAt(Target(n), n.at)]
<1>2. Keeps(n, c, {"done", "out"}) /\ c.done = FALSE /\ c.out = Append(n.out, msg)
  BY <1>1 DEF Reported, Keeps, Fields
<1>3. /\ c.role = n.role /\ c.single = n.single /\ c.waiting = n.waiting
      /\ c.over = n.over /\ c.at = n.at /\ c.p1 = n.p1 /\ c.p2 = n.p2 /\ c.tag = n.tag
      /\ c.prev = n.prev /\ c.connected = n.connected /\ c.idx = n.idx /\ c.expl = n.expl
      /\ c.word = n.word /\ c.secs = n.secs /\ c.cticks = n.cticks /\ c.post = n.post /\ DOMAIN c = Fields
  BY <1>2 DEF Keeps, Fields
<1>4. Screen(n) = n.tag /\ HostAt(n) = n.tag /\ Screen(c) = n.tag /\ HostAt(c) = n.tag /\ n.tag \in Fighting
  BY <1>3 DEF Screen, HostAt, Turns, Lobby, Fighting
<1>5. ResultAt(Target(n), n.at) \in Results
  <2>1. Target(n) \in {n.p1, n.p2}
    BY DEF Target
  <2> QED BY <1>1, <2>1 DEF ResultAt, Results
<1>6. msg \in ToClient /\ msg # StateMsg("EXIT") /\ msg.type = "RESULT" /\ msg.cell = n.at
      /\ msg.result = ResultAt(Target(n), n.at)
  BY <1>1, <1>5 DEF ToClient, StateMsg, Results
<1> HIDE DEF msg
<1>7. Patient => ~Exploding(n) /\ ~Exploding(c) /\ ~Untold(c) /\ Untold(n)
  BY <1>2, <1>3 DEF HostOK, UnderWay, Untold, Exploding
<1>8. HostOK(c)
  <2>0. c.out \in Seq(ToClient)
    BY <1>1, <1>2, <1>6
  <2>1. HostShape(c)
    BY <1>1, <1>2, <1>3, <2>0 DEF HostShape
  <2>2. Ranges(c)
    BY <1>1, <1>3 DEF Ranges
  <2>3. HostScreens(c)
    BY <1>3, <1>4 DEF HostOK, HostScreens
  <2>4. HostBoards(c)
    BY <1>3, <1>4 DEF HostOK, HostBoards, Blank, Turns
  <2>5. Patient => UnderWay(c)
    BY <1>2, <1>3, <1>7 DEF UnderWay
  <2> QED BY <2>1, <2>2, <2>3, <2>4, <2>5 DEF HostOK
<1>9. ASSUME NEW k, Mirror(n, k)
      PROVE  \E l : /\ Hop(k, msg, l) /\ Mirror(c, l) /\ Rank(k.at) <= Rank(l.at)
                    /\ k.at = "lobby" => l.at = "lobby"
                    /\ Rank(k.at) <= 2 => Rank(l.at) <= 2
  <2>1. k.at = n.tag /\ k.at \in Fighting /\ k.at # "lobby"
    BY <1>4, <1>9 DEF Mirror, Fighting
  <2>2. Patient => Told(n, k)
    BY <1>9, <2>1 DEF Mirror
  <2>3. CASE n.tag = "TURN_P1"
    <3>1. PICK l : l = Copied(k.at, k.b1, MirrorAttack(k.b2, msg.cell, msg.result))
      OBVIOUS
    <3>2. l.at = k.at /\ l.b1 = k.b1 /\ l.b2 = MirrorAttack(k.b2, n.at, ResultAt(n.p2, n.at))
      BY <1>6, <2>3, <3>1 DEF Copied, Target
    <3>3. Patient => Told(c, l)
      <4>1. Patient => Agree(k.b1, n.p1) /\ Behind(k.b2, n.p2, n.at)
        BY <1>4, <1>7, <2>2, <2>3 DEF Told
      <4>2. Patient => Agree(l.b2, n.p2)
        BY <1>1, <3>2, <4>1, ToldCatchesUp
      <4> QED BY <1>3, <1>7, <3>2, <4>1, <4>2 DEF Told
    <3>4. Mirror(c, l)
      BY <1>4, <2>1, <3>2, <3>3 DEF Mirror, Fighting
    <3>5. Hop(k, msg, l)
      BY <1>6, <2>1, <2>3, <3>1 DEF Hop
    <3> QED BY <2>1, <3>2, <3>4, <3>5, RankSays
  <2>4. CASE n.tag = "TURN_P2"
    <3>1. PICK l : l = Copied(k.at, MirrorAttack(k.b1, msg.cell, msg.result), k.b2)
      OBVIOUS
    <3>2. l.at = k.at /\ l.b2 = k.b2 /\ l.b1 = MirrorAttack(k.b1, n.at, ResultAt(n.p1, n.at))
      BY <1>6, <2>4, <3>1 DEF Copied, Target
    <3>3. Patient => Told(c, l)
      <4>1. Patient => Agree(k.b2, n.p2) /\ Behind(k.b1, n.p1, n.at)
        BY <1>4, <1>7, <2>2, <2>4 DEF Told
      <4>2. Patient => Agree(l.b1, n.p1)
        BY <1>1, <3>2, <4>1, ToldCatchesUp
      <4> QED BY <1>3, <1>7, <3>2, <4>1, <4>2 DEF Told
    <3>4. Mirror(c, l)
      BY <1>4, <2>1, <3>2, <3>3 DEF Mirror, Fighting
    <3>5. Hop(k, msg, l)
      BY <1>6, <2>1, <2>4, <3>1 DEF Hop
    <3> QED BY <2>1, <3>2, <3>4, <3>5, RankSays
  <2> QED BY <2>3, <2>4 DEF Turns
<1>10. Tells(n, c)
  BY <1>1, <1>2, <1>6, <1>9, SaysOne
<1>11. Goes(n, c) /\ Rests(n, c)
  BY <1>2, <1>3, <1>4 DEF Goes, Rests, Settled, Exploding, Fighting
<1> QED BY <1>2, <1>8, <1>10, <1>11 DEF HostStep

\* The client is told who has won, and leaves the game.
LEMMA VictoryTold ==
  ASSUME NEW n, HostOK(n), n.tag \in Turns, n.done = FALSE, Patient => ~Untold(n),
         NEW winner \in {1, 2}, n.waiting = FALSE,
         NEW c, Keeps(n, c, {"word", "tag", "prev", "clicked", "out"}), c.word = winner, c.tag = "GAME_OVER",
         c.prev \in Tags,
         c.out = Append(Append(n.out, [type |-> "WINNER", winner |-> winner]), StateMsg("GAME_OVER"))
  PROVE  HostStep(n, c) /\ Rests(n, c)
<1>1. HostShape(n) /\ Ranges(n) /\ DOMAIN n = Fields /\ n.out \in Seq(ToClient)
  BY DEF HostOK, HostShape
<1>2. /\ c.role = n.role /\ c.single = n.single /\ c.waiting = n.waiting /\ c.done = n.done
      /\ c.over = n.over /\ c.at = n.at /\ c.p1 = n.p1 /\ c.p2 = n.p2
      /\ c.connected = n.connected /\ c.idx = n.idx /\ c.expl = n.expl
      /\ c.secs = n.secs /\ c.cticks = n.cticks /\ c.post = n.post /\ DOMAIN c = Fields
  BY DEF Keeps, Fields
<1>3. Screen(n) = n.tag /\ HostAt(n) = n.tag /\ n.tag \in Fighting /\ Screen(c) = "GAME_OVER" /\ HostAt(c) = "lobby"
  BY DEF Screen, HostAt, Turns, Lobby, Fighting
<1> DEFINE msg == [type |-> "WINNER", winner |-> winner]
           out == StateMsg("GAME_OVER")
<1>4. /\ msg \in ToClient /\ msg # StateMsg("EXIT") /\ msg.type = "WINNER"
      /\ out \in ToClient /\ out # StateMsg("EXIT") /\ out.type = "STATE" /\ out.state = "GAME_OVER"
  BY DEF ToClient, StateMsg, Tags
<1> HIDE DEF msg, out
<1>5. c.out = n.out \o <<msg, out>> /\ <<msg, out>> \in Seq(ToClient)
      /\ <<msg, out>> = <<msg>> \o <<out>> /\ <<msg>> \in Seq(ToClient) /\ <<out>> \in Seq(ToClient)
  BY <1>1, <1>4 DEF msg, out
<1>6. HostOK(c)
  <2>0. c.out \in Seq(ToClient)
    <3>1. PICK q \in Seq(ToClient) : q = <<msg, out>>
      BY <1>5
    <3> QED BY <1>1, <1>5, <3>1
  <2>1. HostShape(c)
    BY <1>1, <1>2, <2>0 DEF HostShape
  <2>2. Ranges(c)
    BY <1>1, <1>2 DEF Ranges, Tags
  <2>3. HostScreens(c)
    BY <1>2, <1>3 DEF HostOK, HostScreens
  <2>4. HostBoards(c)
    BY <1>2, <1>3 DEF HostBoards, Fighting
  <2>5. Patient => UnderWay(c)
    BY <1>2 DEF UnderWay, Untold, Exploding
  <2> QED BY <2>1, <2>2, <2>3, <2>4, <2>5 DEF HostOK
<1>7. NoExit(<<msg, out>>)
  BY <1>4 DEF NoExit
<1>8. ASSUME NEW k, Mirror(n, k)
      PROVE  \E l : /\ Path(<<msg, out>>, k, l) /\ Mirror(c, l)
                    /\ k.at = "lobby" => l.at = "lobby"
                    /\ Rank(k.at) <= 2 => Rank(l.at) <= 2
  <2>1. k.at = n.tag /\ k.at \in Fighting /\ k.at # "lobby"
    BY <1>3, <1>8 DEF Mirror, Fighting
  <2>2. PICK l : l = Idle("left")
    OBVIOUS
  <2>3. l.at = "left"
    BY <2>2 DEF Idle, Copied
  <2>4. Hop(k, msg, k) /\ Hop(k, out, l)
    BY <1>4, <2>1, <2>2 DEF Hop, Leads
  <2>5. Rank(k.at) = 4 /\ Rank(l.at) = 5
    BY <2>1, <2>3, RankSays
  <2>6. Path(<<msg>>, k, k) /\ Path(<<out>>, k, l)
    BY <2>4, <2>5, PathOne
  <2>7. Path(<<msg, out>>, k, l)
    BY <1>5, <2>6, PathJoin
  <2>8. Mirror(c, l)
    BY <1>3, <2>3 DEF Mirror, Fighting
  <2> QED BY <2>1, <2>5, <2>7, <2>8
<1>9. Tells(n, c)
  BY <1>5, <1>7, <1>8 DEF Tells, Reaches
<1>10. Goes(n, c) /\ Rests(n, c)
  BY <1>2, <1>3 DEF Goes, Rests, Settled, Exploding, Fighting
<1> QED BY <1>6, <1>9, <1>10 DEF HostStep

\* After a miss the host waits.
LEMMA MissWaits ==
  ASSUME NEW n, HostOK(n), n.tag \in Turns, n.done = FALSE, Patient => ~Untold(n),
         NEW c, Keeps(n, c, {"waiting", "post"}), c.waiting = TRUE, c.post = 0
  PROVE  HostStep(n, c)
<1>1. HostShape(n) /\ Ranges(n) /\ n.out \in Seq(ToClient) /\ PostAttackTicks \in Nat \ {0}
  BY TimingAssumption DEF HostOK, HostShape
<1>2. /\ c.role = n.role /\ c.single = n.single /\ c.done = n.done /\ c.over = n.over /\ c.at = n.at
      /\ c.p1 = n.p1 /\ c.p2 = n.p2 /\ c.tag = n.tag /\ c.prev = n.prev
      /\ c.connected = n.connected /\ c.idx = n.idx /\ c.expl = n.expl
      /\ c.word = n.word /\ c.secs = n.secs /\ c.cticks = n.cticks /\ c.out = n.out /\ DOMAIN c = Fields
  BY DEF Keeps, Fields
<1>3. Screen(c) = Screen(n) /\ HostAt(c) = HostAt(n) /\ (Untold(c) <=> Untold(n))
  BY <1>2 DEF Screen, HostAt, Untold, Exploding
<1>4. HostShape(c)
  BY <1>1, <1>2 DEF HostShape
<1>5. Ranges(c)
  BY <1>1, <1>2 DEF Ranges
<1>6. HostScreens(c)
  BY <1>2, <1>3 DEF HostOK, HostScreens
<1>7. HostBoards(c)
  BY <1>2, <1>3 DEF HostOK, HostBoards, Blank
<1>8. Patient => UnderWay(c)
  BY <1>2, <1>3 DEF UnderWay, Untold
<1>9. HostOK(c)
  BY <1>4, <1>5, <1>6, <1>7, <1>8 DEF HostOK
<1>10. Tells(n, c)
  BY <1>1, <1>2, <1>3, SaysNothing DEF Alike
<1> QED BY <1>2, <1>3, <1>9, <1>10 DEF HostStep, Goes

\* The end of an animation.
LEMMA ResultSteps ==
  ASSUME NEW n, HostOK(n), NEW c, c = Result(n) PROVE HostStep(n, c) /\ Rests(n, c)
<1>0. DOMAIN n = Fields /\ n.out \in Seq(ToClient) /\ n.done \in BOOLEAN /\ n.waiting \in BOOLEAN
      /\ PostAttackTicks \in Nat \ {0}
  BY TimingAssumption DEF HostOK, HostShape
<1>1. CASE c = n
  BY <1>1, StandsStill DEF Rests
<1>2. CASE c # n
  <2>1. PICK told : told = Reported(n)
    OBVIOUS
  <2>2. PICK winner \in {1, 2} : winner = Shooter(n)
    BY DEF Shooter
  <2>3. n.tag \in Turns /\ n.done /\ ~n.waiting /\ Follows(n, c)
    BY <1>2, ResultDoes
  <2>4. HostStep(n, told) /\ Rests(n, told) /\ Keeps(n, told, {"done", "out"}) /\ told.done = FALSE
    BY <2>1, <2>3, ResultTold
  <2>5. HostOK(told) /\ told.tag = n.tag /\ told.waiting = FALSE /\ (Patient => ~Untold(told))
    <3>1. told.tag = n.tag /\ told.waiting = n.waiting /\ told.expl = n.expl
      BY <2>4 DEF Keeps, Fields
    <3>2. Patient => ~Exploding(n)
      BY <2>3 DEF HostOK, UnderWay
    <3> QED BY <1>0, <2>3, <2>4, <3>1, <3>2 DEF HostStep, Untold, Exploding
  <2>6. HostStep(told, c) /\ (Settled(n) => Settled(c))
    <3>0. ~Settled(n)
      BY <2>3 DEF Settled
    <3>1. CASE AllSunk(Target(n))
      <4>1. /\ Keeps(told, c, {"word", "tag", "prev", "clicked", "out"})
            /\ c.word = winner /\ c.tag = "GAME_OVER" /\ c.prev = n.tag
            /\ c.out = Append(Append(told.out, [type |-> "WINNER", winner |-> winner]),
                              StateMsg("GAME_OVER"))
        BY <2>1, <2>2, <2>3, <3>1 DEF Follows
      <4>2. c.prev \in Tags
        BY <4>1 DEF HostOK, Ranges
      <4> QED BY <2>3, <2>4, <2>5, <3>0, <4>1, <4>2, VictoryTold
    <3>2. CASE ~AllSunk(Target(n)) /\ ResultAt(Target(n), n.at) = "miss"
      <4>1. Keeps(told, c, {"waiting", "post"}) /\ c.waiting = TRUE /\ c.post = 0
        BY <2>1, <2>3, <3>2 DEF Follows
      <4> QED BY <2>3, <2>4, <2>5, <3>0, <4>1, MissWaits
    <3>3. CASE ~AllSunk(Target(n)) /\ ResultAt(Target(n), n.at) # "miss"
      <4>1. c = told
        BY <2>1, <2>3, <3>3 DEF Follows
      <4> QED BY <2>5, <3>0, <4>1, StandsStill
    <3> QED BY <3>1, <3>2, <3>3
  <2> QED BY <2>4, <2>6, StepsBoth DEF Rests
<1> QED BY <1>1, <1>2

\* handle_timer, when there is no bot.
LEMMA TickIs ==
  ASSUME NEW n, NEW c \in Tick(n), \A e : HostOK(e) => e.single = FALSE, HostOK(n)
  PROVE  \/ /\ Result(Countdown(n)).tag = "GAME_OVER" /\ n.tag # "GAME_OVER"
            /\ c = Animate(Result(Countdown(n)))
         \/ /\ Result(Countdown(n)).tag # "GAME_OVER" \/ n.tag = "GAME_OVER"
            /\ c = Animate(Handover(PostAttack(Result(Countdown(n)))))
<1> DEFINE told == Result(Countdown(n))
           last == Handover(PostAttack(told))
<1>1. HostOK(told) /\ HostOK(last)
  BY CountdownSteps, ResultSteps, PostAttackSteps, HandoverSteps DEF HostStep
<1>2. BotPlays(last) = {last}
  BY <1>1 DEF BotPlays
<1>3. \/ told.tag = "GAME_OVER" /\ n.tag # "GAME_OVER" /\ c = Animate(told)
      \/ (told.tag # "GAME_OVER" \/ n.tag = "GAME_OVER") /\ \E e \in BotPlays(last) : c = Animate(e)
  BY DEF Tick, Then
<1> QED BY <1>2, <1>3

\* A whole tick of the host.
LEMMA HostTicks ==
  ASSUME NEW n, HostOK(n), NEW c \in Tick(n) PROVE HostStep(n, c) /\ Rests(n, c)
<1> DEFINE a == Countdown(n)
           b == Result(a)
           d == PostAttack(b)
           e == Handover(d)
<1>1. HostStep(n, a) /\ Rests(n, a) /\ HostOK(a)
  BY CountdownSteps DEF HostStep
<1>2. HostStep(a, b) /\ Rests(a, b) /\ HostOK(b)
  BY <1>1, ResultSteps DEF HostStep
<1>3. HostStep(b, d) /\ Rests(b, d) /\ HostOK(d)
  BY <1>2, PostAttackSteps DEF HostStep
<1>4. HostStep(d, e) /\ Rests(d, e) /\ HostOK(e)
  BY <1>3, HandoverSteps DEF HostStep
<1>5. c = Animate(b) \/ c = Animate(e)
  <2>1. \A x : HostOK(x) => x.single = FALSE
    BY DEF HostOK, HostShape
  <2> QED BY <2>1, TickIs
<1> HIDE DEF a, b, d, e
<1>6. HostStep(n, b) /\ Rests(n, b)
  BY <1>1, <1>2, StepsBoth DEF Rests
<1>7. HostStep(n, e) /\ Rests(n, e)
  <2>1. HostStep(n, d)
    BY <1>2, <1>3, <1>6, StepsBoth
  <2> QED BY <1>3, <1>4, <1>6, <2>1, StepsBoth DEF Rests
<1>8. CASE c = Animate(b)
  <2>1. HostStep(b, c) /\ Rests(b, c)
    BY <1>2, <1>8, AnimateSteps
  <2> QED BY <1>2, <1>6, <2>1, StepsBoth DEF Rests
<1>9. CASE c = Animate(e)
  <2>1. HostStep(e, c) /\ Rests(e, c)
    BY <1>4, <1>9, AnimateSteps
  <2> QED BY <1>4, <1>7, <2>1, StepsBoth DEF Rests
<1> QED BY <1>5, <1>8, <1>9

----------------------------------------------------------------------------
(* The host's player                                                       *)

\* In the lobby nothing has to be told.
LEMMA LobbySays ==
  ASSUME NEW n, HostOK(n), HostAt(n) = "lobby", NEW c, HostOK(c), HostAt(c) = "lobby", c.out = n.out
  PROVE  HostStep(n, c)
<1>1. Alike(n, c)
  BY DEF Alike, Fighting
<1>2. Tells(n, c)
  BY <1>1, SaysNothing DEF HostOK, HostShape
<1> QED BY <1>2 DEF HostStep, Goes, Fighting

\* From one screen of the lobby to another, nothing else of the game being kept.
LEMMA LobbyInOrder ==
  ASSUME NEW n, HostOK(n), n.tag \in Lobby,
         NEW c, DOMAIN c = Fields, c.role = Host, c.single = FALSE, c.waiting = n.waiting,
         c.over \in BOOLEAN, c.done \in BOOLEAN, c.done => n.done, c.expl \in {n.expl, "none"},
         c.at \in Cells, c.p1 \in {n.p1, EmptyBoard}, c.p2 \in {n.p2, EmptyBoard}, c.out \in Seq(ToClient),
         c.tag \in Lobby, c.prev \in Tags,
         c.tag = "WAITING_CONNECT" => Blank(c) /\ c.idx = 0,
         c.word \in 0 .. 3, c.secs = n.secs, c.cticks = n.cticks, c.post = n.post
  PROVE  HostOK(c) /\ HostAt(c) = "lobby" /\ HostAt(n) = "lobby" /\ Rests(n, c)
<1>1. Screen(c) = c.tag /\ HostAt(c) = "lobby" /\ Screen(n) = n.tag /\ HostAt(n) = "lobby"
  BY DEF Screen, HostAt, Lobby
<1>2. HostShape(c)
  BY EmptyIsGood DEF HostOK, HostShape
<1>3. Ranges(c)
  BY DEF HostOK, Ranges, Lobby, Tags
<1>4. HostScreens(c)
  BY <1>1 DEF HostOK, HostScreens, Lobby, Turns
<1>5. HostBoards(c)
  BY <1>1 DEF HostBoards, Lobby, Fighting
<1>6. Patient => UnderWay(c)
  BY <1>1 DEF HostOK, UnderWay, Exploding, Lobby, Turns
<1>7. Rests(n, c)
  BY DEF Rests, Settled, Exploding
<1> QED BY <1>1, <1>2, <1>3, <1>4, <1>5, <1>6, <1>7 DEF HostOK

\* The cell an animation starts from is one of the sea.
LEMMA OriginIsCell == <<0, 0>> \in Cells
  BY BoardAssumption DEF Cells

\* The main menu without its first option.
LEMMA MenuSteps ==
  ASSUME NEW n, HostOK(n), n.tag = "MAIN_MENU", NEW option \in 1 .. 3, NEW c, c = MenuChoose(n, option)
  PROVE  HostStep(n, c) /\ Rests(n, c)
<1>1. DOMAIN n = Fields /\ n.role = Host /\ n.single = FALSE /\ n.out \in Seq(ToClient)
      /\ n.over \in BOOLEAN /\ n.done \in BOOLEAN /\ n.at \in Cells /\ n.word \in 0 .. 3
      /\ n.prev \in Tags
  BY DEF HostOK, HostShape, Ranges
<1>2. c.out = n.out /\ HostOK(c) /\ HostAt(c) = "lobby" /\ HostAt(n) = "lobby" /\ Rests(n, c)
  <2>1. CASE option = 1
    <3>1. c = StartMulti(n)
      BY <2>1 DEF MenuChoose
    <3>2. /\ DOMAIN c = Fields /\ c.role = n.role /\ c.single = FALSE /\ c.waiting = n.waiting
          /\ c.over = n.over /\ c.done = FALSE /\ c.expl = "none" /\ c.at = <<0, 0>>
          /\ c.p1 = EmptyBoard /\ c.p2 = EmptyBoard /\ c.out = n.out /\ c.tag = "WAITING_CONNECT"
          /\ c.prev = n.tag /\ c.idx = 0 /\ c.word = 1 /\ c.secs = n.secs /\ c.cticks = n.cticks
          /\ c.post = n.post
      <4>1. PICK g : g = NewGame(n)
        OBVIOUS
      <4>2. PICK e : e = [g EXCEPT !.single = FALSE, !.connected = FALSE, !.ready = FALSE]
        OBVIOUS
      <4>3. /\ DOMAIN g = Fields /\ g.p1 = EmptyBoard /\ g.p2 = EmptyBoard /\ g.expl = "none"
            /\ g.done = FALSE /\ g.at = <<0, 0>> /\ g.word = 1 /\ g.idx = 0
            /\ \A f \in {"role", "waiting", "over", "out", "tag", "secs", "cticks", "post"} : g[f] = n[f]
        BY <1>1, <4>1 DEF NewGame, ClearBoards, CalmRenderer, Fields
      <4>4. DOMAIN e = Fields /\ e.single = FALSE /\ \A f \in Fields \ {"single", "connected", "ready"} : e[f] = g[f]
        BY <4>2, <4>3 DEF Fields
      <4>5. c = Transition(e, "WAITING_CONNECT")
        BY <3>1, <4>1, <4>2 DEF StartMulti
      <4>6. /\ DOMAIN c = Fields /\ c.tag = "WAITING_CONNECT" /\ c.prev = e.tag
            /\ \A f \in Fields \ {"tag", "prev", "clicked"} : c[f] = e[f]
        BY <4>4, <4>5 DEF Transition, Fields
      <4> QED BY <4>3, <4>4, <4>6 DEF Fields
    <3>3. /\ c.at \in Cells /\ c.out \in Seq(ToClient) /\ Blank(c) /\ c.tag \in Lobby /\ n.tag \in Lobby
          /\ c.prev \in Tags /\ c.word \in 0 .. 3
      BY <1>1, <3>2, OriginIsCell DEF Lobby, Tags, Blank
    <3> QED BY <1>1, <3>2, <3>3, LobbyInOrder
  <2>2. CASE option = 2
    <3>1. c = Transition(n, "INSTRUCTIONS")
      BY <2>2 DEF MenuChoose
    <3>2. /\ DOMAIN c = Fields /\ c.role = n.role /\ c.single = n.single /\ c.waiting = n.waiting
          /\ c.over = n.over /\ c.done = n.done /\ c.expl = n.expl /\ c.at = n.at
          /\ c.p1 = n.p1 /\ c.p2 = n.p2 /\ c.out = n.out /\ c.tag = "INSTRUCTIONS"
          /\ c.prev = n.tag /\ c.word = n.word /\ c.secs = n.secs /\ c.cticks = n.cticks
          /\ c.post = n.post
      BY <1>1, <3>1 DEF Transition, Fields
    <3> QED BY <1>1, <3>2, LobbyInOrder DEF Lobby, Tags
  <2>3. CASE option = 3
    <3>1. c = [n EXCEPT !.over = TRUE]
      BY <1>1, <2>3 DEF MenuChoose, Quit, Host, Client
    <3>2. /\ DOMAIN c = Fields /\ c.role = n.role /\ c.single = n.single /\ c.waiting = n.waiting
          /\ c.over = TRUE /\ c.done = n.done /\ c.expl = n.expl /\ c.at = n.at
          /\ c.p1 = n.p1 /\ c.p2 = n.p2 /\ c.out = n.out /\ c.tag = "MAIN_MENU"
          /\ c.prev = n.prev /\ c.word = n.word /\ c.secs = n.secs /\ c.cticks = n.cticks
          /\ c.post = n.post
      BY <1>1, <3>1 DEF Fields
    <3> QED BY <1>1, <3>2, LobbyInOrder DEF Lobby, Tags
  <2> QED BY <2>1, <2>2, <2>3
<1> QED BY <1>2, LobbySays

\* Back from the instructions.
LEMMA InstructionsStep ==
  ASSUME NEW n, HostOK(n), n.tag = "INSTRUCTIONS", NEW c, c = Transition(n, "MAIN_MENU")
  PROVE  HostStep(n, c) /\ Rests(n, c)
<1>1. DOMAIN n = Fields /\ n.role = Host /\ n.single = FALSE /\ n.out \in Seq(ToClient)
      /\ n.over \in BOOLEAN /\ n.done \in BOOLEAN /\ n.at \in Cells /\ n.word \in 0 .. 3
  BY DEF HostOK, HostShape, Ranges
<1>2. /\ DOMAIN c = Fields /\ c.role = n.role /\ c.single = n.single /\ c.waiting = n.waiting
      /\ c.over = n.over /\ c.done = n.done /\ c.expl = n.expl /\ c.at = n.at
      /\ c.p1 = n.p1 /\ c.p2 = n.p2 /\ c.out = n.out /\ c.tag = "MAIN_MENU"
      /\ c.prev = n.tag /\ c.word = n.word /\ c.secs = n.secs /\ c.cticks = n.cticks
      /\ c.post = n.post
  BY <1>1 DEF Transition, Fields
<1>3. HostOK(c) /\ HostAt(c) = "lobby" /\ HostAt(n) = "lobby" /\ Rests(n, c)
  BY <1>1, <1>2, LobbyInOrder DEF Lobby, Tags
<1> QED BY <1>2, <1>3, LobbySays

\* Enter on the game-over screen: the client is told.
LEMMA RematchSteps ==
  ASSUME NEW n, HostOK(n), n.tag = "GAME_OVER", NEW c, c = Rematch(n)
  PROVE  HostStep(n, c) /\ Rests(n, c)
<1>1. DOMAIN n = Fields /\ n.role = Host /\ n.single = FALSE /\ n.out \in Seq(ToClient)
      /\ n.over \in BOOLEAN /\ n.done \in BOOLEAN
  BY DEF HostOK, HostShape
<1> DEFINE msg == StateMsg("MAIN_MENU")
<1>2. /\ DOMAIN c = Fields /\ c.role = n.role /\ c.single = n.single /\ c.waiting = n.waiting
      /\ c.over = n.over /\ c.done = FALSE /\ c.expl = "none" /\ c.at = <<0, 0>>
      /\ c.p1 = EmptyBoard /\ c.p2 = EmptyBoard /\ c.out = Append(n.out, msg) /\ c.tag = "MAIN_MENU"
      /\ c.prev = n.tag /\ c.word = 0 /\ c.secs = n.secs /\ c.cticks = n.cticks
      /\ c.post = n.post
  BY <1>1 DEF Rematch, Send, Transition, ClearBoards, CalmRenderer, Fields
<1>3. msg \in ToClient /\ msg # StateMsg("EXIT") /\ msg.type = "STATE" /\ msg.state = "MAIN_MENU"
  BY DEF StateMsg, ToClient, Tags
<1> HIDE DEF msg
<1>4. HostOK(c) /\ HostAt(c) = "lobby" /\ HostAt(n) = "lobby" /\ Rests(n, c)
  <2>1. c.out \in Seq(ToClient)
    BY <1>1, <1>2, <1>3
  <2>2. c.at \in Cells /\ c.tag \in Lobby /\ n.tag \in Lobby /\ c.prev \in Tags /\ c.word \in 0 .. 3
        /\ c.tag # "WAITING_CONNECT"
    BY <1>2, OriginIsCell DEF Lobby, Tags
  <2> QED BY <1>1, <1>2, <2>1, <2>2, LobbyInOrder
<1>5. Alike(n, c)
  BY <1>4 DEF Alike, Fighting
<1>6. ASSUME NEW k, Mirror(n, k) PROVE Hop(k, msg, k) /\ Mirror(c, k) /\ Rank(k.at) <= Rank(k.at)
  <2>1. k.at \in {"lobby", "left"}
    BY <1>4, <1>6 DEF Mirror
  <2> QED BY <1>3, <1>5, <1>6, <2>1, AlikeMirrors, RankSays DEF Hop, Leads
<1>7. Tells(n, c)
  BY <1>1, <1>2, <1>3, <1>6, SaysOne
<1> QED BY <1>4, <1>7 DEF HostStep, Goes, Fighting

\* The program ends where it is.
LEMMA OverSteps ==
  ASSUME NEW n, HostOK(n), NEW c, c = [n EXCEPT !.over = TRUE]
  PROVE  HostStep(n, c) /\ Rests(n, c)
<1>1. DOMAIN n = Fields /\ n.out \in Seq(ToClient)
  BY DEF HostOK, HostShape
<1>2. /\ c.role = n.role /\ c.single = n.single /\ c.waiting = n.waiting /\ c.done = n.done
      /\ c.over = TRUE /\ c.at = n.at /\ c.p1 = n.p1 /\ c.p2 = n.p2 /\ c.tag = n.tag
      /\ c.prev = n.prev /\ c.connected = n.connected /\ c.idx = n.idx /\ c.expl = n.expl
      /\ c.word = n.word /\ c.secs = n.secs /\ c.cticks = n.cticks /\ c.post = n.post
      /\ c.out = n.out /\ DOMAIN c = Fields
  BY <1>1 DEF Fields
<1>3. Screen(c) = Screen(n) /\ HostAt(c) = HostAt(n) /\ (Exploding(c) <=> Exploding(n))
  BY <1>2 DEF Screen, HostAt, Exploding
<1>4. HostOK(c)
  <2>1. HostShape(c)
    BY <1>2 DEF HostOK, HostShape
  <2>2. Ranges(c)
    BY <1>2 DEF HostOK, Ranges
  <2>3. HostScreens(c)
    BY <1>2, <1>3 DEF HostOK, HostScreens
  <2>4. HostBoards(c)
    BY <1>2, <1>3 DEF HostOK, HostBoards, Blank
  <2>5. Patient => UnderWay(c)
    BY <1>2, <1>3 DEF HostOK, UnderWay
  <2> QED BY <2>1, <2>2, <2>3, <2>4, <2>5 DEF HostOK
<1>5. Tells(n, c)
  BY <1>1, <1>2, <1>3, SaysNothing DEF Alike, Untold
<1> QED BY <1>2, <1>3, <1>4, <1>5 DEF HostStep, Goes, Rests, Settled

\* Into a pause and out of it: only the click is forgotten.
LEMMA PausedInOrder ==
  ASSUME NEW n, HostOK(n), NEW c, Keeps(n, c, {"tag", "prev", "clicked"}),
         \/ c.tag = "PAUSED" /\ c.prev = n.tag /\ n.tag \in {"PLACE_SHIPS_P1", "TURN_P1"}
            /\ (Patient => ~Exploding(n)) /\ ~n.waiting
         \/ n.tag = "PAUSED" /\ c.tag = n.prev /\ c.prev = n.tag
  PROVE  HostStep(n, c) /\ Rests(n, c)
<1>1. DOMAIN n = Fields /\ n.out \in Seq(ToClient) /\ Ranges(n) /\ HostScreens(n)
  BY DEF HostOK, HostShape
<1>2. /\ c.role = n.role /\ c.single = n.single /\ c.waiting = n.waiting /\ c.done = n.done
      /\ c.over = n.over /\ c.at = n.at /\ c.p1 = n.p1 /\ c.p2 = n.p2
      /\ c.connected = n.connected /\ c.idx = n.idx /\ c.expl = n.expl
      /\ c.word = n.word /\ c.secs = n.secs /\ c.cticks = n.cticks /\ c.post = n.post
      /\ c.out = n.out /\ DOMAIN c = Fields
  BY DEF Keeps, Fields
<1>3. Screen(c) = Screen(n) /\ HostAt(c) = HostAt(n) /\ (Exploding(c) <=> Exploding(n))
      /\ Screen(n) \in {"PLACE_SHIPS_P1", "TURN_P1"}
  BY <1>1, <1>2 DEF Screen, HostAt, Exploding, HostScreens
<1>4. HostOK(c)
  <2>1. HostShape(c)
    BY <1>2 DEF HostOK, HostShape
  <2>2. Ranges(c)
    BY <1>1, <1>2 DEF Ranges, Tags
  <2>3. HostScreens(c)
    BY <1>1, <1>2, <1>3 DEF HostScreens, Turns
  <2>4. HostBoards(c)
    BY <1>1, <1>2, <1>3 DEF HostOK, HostBoards, Blank, HostScreens
  <2>5. Patient => UnderWay(c)
    BY <1>2, <1>3 DEF HostOK, UnderWay, Turns
  <2> QED BY <2>1, <2>2, <2>3, <2>4, <2>5 DEF HostOK
<1>5. Tells(n, c)
  BY <1>1, <1>2, <1>3, SaysNothing DEF Alike, Untold
<1> QED BY <1>2, <1>3, <1>4, <1>5 DEF HostStep, Goes, Rests, Settled

\* To pause is a step.
LEMMA PauseSteps ==
  ASSUME NEW n, HostOK(n), PlacesByKey(n) \/ CanFire(n), NEW c, c = Transition(n, "PAUSED")
  PROVE  HostStep(n, c) /\ Rests(n, c)
<1>1. DOMAIN n = Fields /\ n.role = Host
  BY DEF HostOK, HostShape
<1>2. Keeps(n, c, {"tag", "prev", "clicked"}) /\ c.tag = "PAUSED" /\ c.prev = n.tag
  BY <1>1 DEF Transition, Keeps, Fields
<1>3. CASE CanFire(n)
  BY <1>1, <1>2, <1>3, PausedInOrder DEF CanFire, OwnsTurn
<1>4. CASE PlacesByKey(n) /\ ~CanFire(n)
  <2>1. n.tag = "PLACE_SHIPS_P1" /\ n.waiting = FALSE
    BY <1>4 DEF PlacesByKey, HostOK, HostScreens, HostShape, Turns
  <2>2. Patient => ~Exploding(n)
    BY <2>1 DEF HostOK, UnderWay, Turns
  <2> QED BY <1>2, <2>1, <2>2, PausedInOrder
<1> QED BY <1>3, <1>4

\* So is what is chosen in the pause menu.
LEMMA PauseEnterSteps ==
  ASSUME NEW n, HostOK(n), n.tag = "PAUSED", NEW option \in 0 .. 1, NEW c, c = PauseChoose(n, option)
  PROVE  HostStep(n, c) /\ Rests(n, c)
<1>1. DOMAIN n = Fields /\ n.role = Host
  BY DEF HostOK, HostShape
<1>2. CASE option = 0
  <2>1. Keeps(n, c, {"tag", "prev", "clicked"}) /\ c.tag = n.prev /\ c.prev = n.tag
    BY <1>1, <1>2 DEF PauseChoose, Transition, Keeps, Fields
  <2> QED BY <2>1, PausedInOrder
<1>3. CASE option # 0
  <2>1. c = [n EXCEPT !.over = TRUE]
    BY <1>1, <1>3 DEF PauseChoose, Quit, Host, Client
  <2> QED BY <2>1, OverSteps
<1> QED BY <1>2, <1>3

\* So is a move in it.
LEMMA ArrowSteps ==
  ASSUME NEW n, HostOK(n), n.tag = "PAUSED", NEW c, c = Arrow(n, "down")
  PROVE  HostStep(n, c) /\ Rests(n, c)
<1>1. DOMAIN n = Fields /\ n.word \in 0 .. 3 /\ Ranges(n) /\ n.out \in Seq(ToClient)
  BY DEF HostOK, HostShape, Ranges
<1>2. c = [n EXCEPT !.word = (n.word + 1) % 2]
  BY DEF Arrow
<1>3. Keeps(n, c, Clocks) /\ c.out = n.out /\ c.tag = n.tag /\ c.word = (n.word + 1) % 2
      /\ c.prev = n.prev /\ c.secs = n.secs /\ c.cticks = n.cticks /\ c.post = n.post
  BY <1>1, <1>2 DEF Keeps, Clocks, Fields
<1>4. c.word \in 0 .. 3
  BY <1>1, <1>3
<1>5. HostOK(c)
  <2>1. Ranges(c)
    BY <1>1, <1>3, <1>4 DEF Ranges
  <2> QED BY <1>1, <1>3, <2>1, ClockKeeps
<1>6. Tells(n, c)
  BY <1>1, <1>3, ClockStill, SaysNothing
<1> QED BY <1>3, <1>5, <1>6, ClockStill DEF HostStep

\* A ship on the host's own board: the next one, until the fleet is complete.
LEMMA PutShipDoes ==
  ASSUME NEW n, HostOK(n), n.tag = "PLACE_SHIPS_P1", NEW cells, NEW c, c = PutShip(n, cells),
         NEW size, size = ShipSizes[n.idx + 1], NEW board, board = PlaceShip(n.p1, cells, size)
  PROVE  \/ c = n
         \/ /\ CanPlace(n.p1, cells) /\ Len(board.ships) < NumShips
            /\ Keeps(n, c, {"p1", "idx"}) /\ c.p1 = board /\ c.idx = n.idx + 1
         \/ /\ CanPlace(n.p1, cells) /\ Len(board.ships) >= NumShips
            /\ Keeps(n, c, {"p1", "idx", "tag", "prev", "clicked", "out"})
            /\ c.p1 = board /\ c.idx = 0 /\ c.tag = "PLACE_SHIPS_WAITING" /\ c.prev = n.tag
            /\ c.out = Append(n.out, StateMsg("PLACE_SHIPS_P2"))
<1>1. DOMAIN n = Fields /\ n.role = Host /\ n.single = FALSE
  BY DEF HostOK, HostShape
<1> DEFINE onto   == [n EXCEPT !.p1 = board]
           handed == [onto EXCEPT !.idx = 0]
           next   == [onto EXCEPT !.idx = n.idx + 1]
<1>2. /\ DOMAIN onto = Fields /\ onto.p1 = board /\ \A f \in Fields \ {"p1"} : onto[f] = n[f]
  BY <1>1 DEF Fields
<1>3. \A ship : MirrorShip(onto, ship) = onto
  BY <1>1, <1>2 DEF MirrorShip, Host, Client, Fields
<1>4. PlacedOn(n) = n.p1
  BY DEF PlacedOn
<1>5. onto.idx = n.idx /\ onto.tag = n.tag /\ onto.single = FALSE
  BY <1>1, <1>2 DEF Fields
<1>6. c = IF ~CanPlace(n.p1, cells) THEN n
          ELSE IF Len(board.ships) >= NumShips THEN FleetPlaced(onto)
          ELSE [onto EXCEPT !.idx = onto.idx + 1]
  <2> HIDE DEF onto
  <2> QED BY <1>3, <1>4 DEF PutShip, onto
<1> HIDE DEF onto
<1>7. CASE ~CanPlace(n.p1, cells)
  BY <1>6, <1>7
<1>8. CASE CanPlace(n.p1, cells) /\ Len(board.ships) >= NumShips
  <2>1. c = FleetPlaced(onto)
    BY <1>6, <1>8
  <2>2. c = Send(Transition([onto EXCEPT !.idx = 0], "PLACE_SHIPS_WAITING"), StateMsg("PLACE_SHIPS_P2"))
    BY <1>5, <2>1 DEF FleetPlaced
  <2>3. /\ DOMAIN c = Fields /\ \A f \in Fields \ {"idx", "tag", "prev", "clicked", "out"} : c[f] = onto[f]
        /\ c.idx = 0 /\ c.tag = "PLACE_SHIPS_WAITING" /\ c.prev = onto.tag
        /\ c.out = Append(onto.out, StateMsg("PLACE_SHIPS_P2"))
    BY <1>2, <2>2 DEF Send, Transition, Fields
  <2> QED BY <1>2, <1>8, <2>3 DEF Keeps, Fields
<1>9. CASE CanPlace(n.p1, cells) /\ ~(Len(board.ships) >= NumShips)
  <2>1. c = [onto EXCEPT !.idx = onto.idx + 1]
    BY <1>6, <1>9
  <2>2. DOMAIN c = Fields /\ (\A f \in Fields \ {"idx"} : c[f] = onto[f]) /\ c.idx = onto.idx + 1
    BY <1>2, <2>1 DEF Fields
  <2>3. Keeps(n, c, {"p1", "idx"}) /\ c.p1 = board /\ c.idx = n.idx + 1
    BY <1>2, <2>2 DEF Keeps, Fields
  <2>4. Len(board.ships) < NumShips
    <3>1. CASE TRUE
      <4>1. Good(n.p1)
        BY DEF HostOK, HostShape
      <4>2. Len(board.ships) \in Nat /\ NumShips \in Nat
        <5>1. board.ships = Append(n.p1.ships, [cells |-> cells, size |-> size, hits |-> 0, sunk |-> FALSE])
          BY <4>1 DEF PlaceShip, Good, BoardType
        <5>2. n.p1.ships \in Seq(Ship)
          BY <4>1 DEF Good, BoardType
        <5>3. Len(board.ships) = Len(n.p1.ships) + 1 /\ Len(n.p1.ships) \in Nat
          BY <5>1, <5>2
        <5> QED BY <5>3, NumShipsType
      <4> QED BY <1>9, <4>2
    <3> QED BY <3>1
  <2> QED BY <1>9, <2>3, <2>4
<1> QED BY <1>7, <1>8, <1>9

\* To place a ship is a step.
LEMMA PlaceSteps ==
  ASSUME NEW n, HostOK(n), n.tag = "PLACE_SHIPS_P1", NEW cells \in Footprints(ShipSizes[n.idx + 1]),
         NEW c, c = PutShip(n, cells)
  PROVE  HostStep(n, c) /\ Rests(n, c)
<1>1. DOMAIN n = Fields /\ n.out \in Seq(ToClient) /\ Ranges(n) /\ HostScreens(n) /\ HostShape(n) /\ Good(n.p1)
      /\ BoardType(n.p1) /\ Good(n.p2)
  BY DEF HostOK, HostShape, Good
<1>2. /\ Screen(n) = n.tag /\ HostAt(n) = n.tag /\ n.idx = Len(n.p1.ships) /\ n.idx < NumShips
      /\ n.p2 = EmptyBoard /\ n.connected
  BY DEF HostOK, HostBoards, HostScreens, Screen, HostAt, Lobby
<1>3. PICK size : size = ShipSizes[n.idx + 1]
  OBVIOUS
<1>4. PICK board : board = PlaceShip(n.p1, cells, size)
  OBVIOUS
<1>5. n.idx \in Nat /\ NumShips \in Nat /\ size \in Nat \ {0} /\ Cardinality(cells) = size
  <2>1. n.idx \in Nat
    BY <1>1, <1>2, RecordFields
  <2>2. n.idx + 1 \in 1 .. NumShips
    BY <1>2, <2>1, NumShipsType
  <2> QED BY <1>3, <2>1, <2>2, NumShipsType, FootprintSize
<1>6. CanPlace(n.p1, cells) => Good(board) /\ ShotOn(board) = {} /\ Len(board.ships) = n.idx + 1
  BY <1>1, <1>2, <1>4, <1>5, PlacingKeeps
<1>7. CASE c = n
  BY <1>7, StandsStill DEF Rests
<1>8. CASE /\ CanPlace(n.p1, cells) /\ Len(board.ships) < NumShips
           /\ Keeps(n, c, {"p1", "idx"}) /\ c.p1 = board /\ c.idx = n.idx + 1
  <2>1. /\ c.role = n.role /\ c.single = n.single /\ c.waiting = n.waiting /\ c.done = n.done
        /\ c.over = n.over /\ c.at = n.at /\ c.p2 = n.p2 /\ c.tag = n.tag
        /\ c.prev = n.prev /\ c.connected = n.connected /\ c.expl = n.expl
        /\ c.word = n.word /\ c.secs = n.secs /\ c.cticks = n.cticks /\ c.post = n.post
        /\ c.out = n.out /\ DOMAIN c = Fields
    BY <1>8 DEF Keeps, Fields
  <2>2. Screen(c) = Screen(n) /\ HostAt(c) = HostAt(n) /\ (Exploding(c) <=> Exploding(n))
    BY <2>1 DEF Screen, HostAt, Exploding
  <2>3. HostOK(c)
    <3>1. HostShape(c)
      BY <1>1, <1>6, <1>8, <2>1 DEF HostShape
    <3>2. Ranges(c)
      BY <1>1, <2>1 DEF Ranges
    <3>3. HostScreens(c)
      BY <1>1, <2>1, <2>2 DEF HostScreens
    <3>4. HostBoards(c)
      BY <1>2, <1>6, <1>8, <2>1, <2>2 DEF HostBoards, Fighting
    <3>5. Patient => UnderWay(c)
      BY <2>1, <2>2 DEF HostOK, UnderWay
    <3> QED BY <3>1, <3>2, <3>3, <3>4, <3>5 DEF HostOK
  <2>4. Alike(n, c)
    BY <1>2, <2>2 DEF Alike, Fighting
  <2>5. Tells(n, c)
    BY <1>1, <2>1, <2>4, SaysNothing
  <2> QED BY <1>2, <2>1, <2>2, <2>3, <2>5 DEF HostStep, Goes, Rests, Settled, Fighting
<1>9. CASE /\ CanPlace(n.p1, cells) /\ Len(board.ships) >= NumShips
           /\ Keeps(n, c, {"p1", "idx", "tag", "prev", "clicked", "out"})
           /\ c.p1 = board /\ c.idx = 0 /\ c.tag = "PLACE_SHIPS_WAITING" /\ c.prev = n.tag
           /\ c.out = Append(n.out, StateMsg("PLACE_SHIPS_P2"))
  <2>1. /\ c.role = n.role /\ c.single = n.single /\ c.waiting = n.waiting /\ c.done = n.done
        /\ c.over = n.over /\ c.at = n.at /\ c.p2 = n.p2
        /\ c.connected = n.connected /\ c.expl = n.expl
        /\ c.word = n.word /\ c.secs = n.secs /\ c.cticks = n.cticks /\ c.post = n.post
        /\ DOMAIN c = Fields
    BY <1>9 DEF Keeps, Fields
  <2>2. Screen(c) = c.tag /\ HostAt(c) = c.tag /\ (Exploding(c) <=> Exploding(n))
    BY <1>9, <2>1 DEF Screen, HostAt, Exploding, Lobby
  <2> DEFINE msg == StateMsg("PLACE_SHIPS_P2")
  <2>3. msg \in ToClient /\ msg # StateMsg("EXIT") /\ msg.type = "STATE" /\ msg.state = "PLACE_SHIPS_P2"
    BY DEF StateMsg, ToClient, Tags
  <2>4. c.out \in Seq(ToClient) /\ c.out = Append(n.out, msg)
    BY <1>1, <1>9, <2>3
  <2> HIDE DEF msg
  <2>5. HostOK(c)
    <3>1. HostShape(c)
      BY <1>1, <1>6, <1>9, <2>1, <2>4 DEF HostShape
    <3>2. Ranges(c)
      BY <1>1, <1>9, <2>1 DEF Ranges, Tags
    <3>3. HostScreens(c)
      BY <1>1, <1>2, <1>9, <2>1, <2>2 DEF HostScreens, Turns
    <3>4. HostBoards(c)
      <4>1. Len(c.p1.ships) = NumShips /\ ShotOn(c.p1) = {}
        BY <1>2, <1>5, <1>6, <1>9
      <4>2. ShotOn(c.p2) = {}
        BY <1>2, <2>1, EmptyIsGood
      <4> QED BY <1>9, <2>2, <4>1, <4>2 DEF HostBoards, Fighting
    <3>5. Patient => UnderWay(c)
      BY <1>2, <2>1, <2>2 DEF HostOK, UnderWay, Turns
    <3> QED BY <3>1, <3>2, <3>3, <3>4, <3>5 DEF HostOK
  <2>6. ASSUME NEW k, Mirror(n, k)
        PROVE  \E l : /\ Hop(k, msg, l) /\ Mirror(c, l) /\ Rank(k.at) <= Rank(l.at)
                      /\ k.at = "lobby" => l.at = "lobby"
                      /\ Rank(k.at) <= 2 => Rank(l.at) <= 2
    <3>1. k.at = "PLACE_SHIPS_P1" /\ k.b1 = EmptyBoard /\ k.b2 = EmptyBoard
      BY <1>2, <2>6 DEF Mirror
    <3>2. PICK l : l = Copied("PLACE_SHIPS_WAITING", k.b1, k.b2)
      OBVIOUS
    <3>3. l.at = "PLACE_SHIPS_WAITING" /\ l.b1 = EmptyBoard
      BY <3>1, <3>2 DEF Copied
    <3>4. Hop(k, msg, l)
      BY <2>3, <3>1, <3>2 DEF Hop, Leads
    <3>5. Mirror(c, l)
      BY <1>9, <2>2, <3>3 DEF Mirror, Fighting
    <3> QED BY <3>1, <3>3, <3>4, <3>5 DEF Rank
  <2>7. Tells(n, c)
    BY <1>1, <2>3, <2>4, <2>6, SaysOne
  <2> QED BY <1>2, <1>9, <2>1, <2>2, <2>5, <2>7 DEF HostStep, Goes, Rests, Settled, Exploding, Fighting
<1> QED BY <1>3, <1>4, <1>7, <1>8, <1>9, PutShipDoes

----------------------------------------------------------------------------
(* Shots                                                                   *)

Resolved(n, x, c) ==
  /\ Keeps(n, c, {"p1", "p2", "expl", "eticks", "done", "at", "ishit"})
  /\ c.expl = "blast" /\ c.eticks = 0 /\ c.done = FALSE /\ c.at = x
  /\ n.tag = "TURN_P1" => c.p1 = n.p1 /\ c.p2 = Attack(n.p2, x)
  /\ n.tag # "TURN_P1" => c.p1 = Attack(n.p1, x) /\ c.p2 = n.p2

\* What the resolution of a shot does.
LEMMA ResolveDoes ==
  ASSUME NEW n, DOMAIN n = Fields, NEW x, NEW c, c = Resolve(n, x) PROVE Resolved(n, x, c)
<1>1. PICK b, h : b = Attack(Target(n), x) /\ h = (b.grid[x] \in {"hit", "sunk"})
  OBVIOUS
<1>2. c = Explode(SetTarget(n, b), x, h)
  BY <1>1 DEF Resolve
<1>3. CASE n.tag = "TURN_P1"
  <2>1. SetTarget(n, b) = [n EXCEPT !.p2 = b] /\ b = Attack(n.p2, x)
    BY <1>1, <1>3 DEF SetTarget, Target
  <2>2. /\ Keeps(n, c, {"p2", "expl", "eticks", "done", "at", "ishit"}) /\ c.p2 = b
        /\ c.expl = "blast" /\ c.eticks = 0 /\ c.done = FALSE /\ c.at = x /\ c.ishit = h
    BY <1>2, <2>1 DEF Explode, Keeps, Fields
  <2> QED BY <1>1, <1>3, <2>1, <2>2 DEF Keeps, Fields, Resolved
<1>4. CASE n.tag # "TURN_P1"
  <2>1. SetTarget(n, b) = [n EXCEPT !.p1 = b] /\ b = Attack(n.p1, x)
    BY <1>1, <1>4 DEF SetTarget, Target
  <2>2. /\ Keeps(n, c, {"p1", "expl", "eticks", "done", "at", "ishit"}) /\ c.p1 = b
        /\ c.expl = "blast" /\ c.eticks = 0 /\ c.done = FALSE /\ c.at = x /\ c.ishit = h
    BY <1>2, <2>1 DEF Explode, Keeps, Fields
  <2> QED BY <1>1, <1>4, <2>1, <2>2 DEF Keeps, Fields, Resolved
<1> QED BY <1>3, <1>4

\* A step of a fight that says nothing and that a client could take part in as it is.
LEMMA SilentSteps ==
  ASSUME NEW n, n.out \in Seq(ToClient), HostAt(n) \in Fighting,
         NEW c, HostOK(c), c.out = n.out, HostAt(c) = HostAt(n), \A k : Mirror(n, k) => Mirror(c, k)
  PROVE  HostStep(n, c)
<1>1. << >> \in Seq(ToClient) /\ c.out = n.out \o << >> /\ NoExit(<< >>)
  BY DEF NoExit
<1>2. Reaches(n, c, << >>)
  BY PathEmpty DEF Reaches
<1>3. Tells(n, c)
  BY <1>1, <1>2 DEF Tells
<1> QED BY <1>3 DEF HostStep, Goes, Fighting

\* A shot on a fresh cell, when the client knows of the last one.
LEMMA ResolveSteps ==
  ASSUME NEW n, HostOK(n), n.tag \in Turns, Patient => Settled(n), NEW x \in Cells,
         ~AlreadyAttacked(Target(n), x), NEW c, c = Resolve(n, x)
  PROVE  HostStep(n, c)
<1>1. DOMAIN n = Fields /\ n.out \in Seq(ToClient) /\ Ranges(n) /\ HostScreens(n) /\ HostShape(n)
      /\ Good(n.p1) /\ Good(n.p2)
  BY DEF HostOK, HostShape
<1>2. Screen(n) = n.tag /\ HostAt(n) = n.tag /\ n.tag \in Fighting
      /\ Len(n.p1.ships) = NumShips /\ Len(n.p2.ships) = NumShips
  BY DEF HostOK, HostBoards, Screen, HostAt, Turns, Lobby, Fighting
<1>3. /\ Keeps(n, c, {"p1", "p2", "expl", "eticks", "done", "at", "ishit"})
      /\ c.expl = "blast" /\ c.eticks = 0 /\ c.done = FALSE /\ c.at = x
      /\ n.tag = "TURN_P1" => c.p1 = n.p1 /\ c.p2 = Attack(n.p2, x)
      /\ n.tag # "TURN_P1" => c.p1 = Attack(n.p1, x) /\ c.p2 = n.p2
  <2>1. Resolved(n, x, c)
    BY <1>1, ResolveDoes
  <2> QED BY <2>1 DEF Resolved
<1>4. /\ c.role = n.role /\ c.single = n.single /\ c.waiting = n.waiting
      /\ c.over = n.over /\ c.tag = n.tag /\ c.idx = n.idx
      /\ c.prev = n.prev /\ c.connected = n.connected
      /\ c.word = n.word /\ c.secs = n.secs /\ c.cticks = n.cticks /\ c.post = n.post
      /\ c.out = n.out /\ DOMAIN c = Fields
  BY <1>3 DEF Keeps, Fields
<1>5. Screen(c) = n.tag /\ HostAt(c) = n.tag /\ Untold(c) /\ Exploding(c)
  BY <1>2, <1>3, <1>4 DEF Screen, HostAt, Untold, Exploding
<1>6. CASE n.tag = "TURN_P1"
  <2>1. c.p1 = n.p1 /\ c.p2 = Attack(n.p2, x) /\ ~AlreadyAttacked(n.p2, x)
    BY <1>3, <1>6 DEF Target
  <2>2. Good(c.p2) /\ Len(c.p2.ships) = NumShips
    BY <1>1, <1>2, <2>1, AttackKeeps DEF SameShips
  <2>3. HostOK(c)
    <3>1. HostShape(c)
      BY <1>1, <1>3, <1>4, <2>1, <2>2 DEF HostShape
    <3>2. Ranges(c)
      BY <1>1, <1>4 DEF Ranges
    <3>3. HostScreens(c)
      BY <1>1, <1>2, <1>4, <1>5 DEF HostScreens
    <3>4. HostBoards(c)
      BY <1>2, <1>4, <1>5, <1>6, <2>1, <2>2 DEF HostBoards
    <3>5. Patient => UnderWay(c)
      BY <1>3, <1>4, <1>5 DEF UnderWay, Settled
    <3> QED BY <3>1, <3>2, <3>3, <3>4, <3>5 DEF HostOK
  <2>4. ASSUME NEW k, Mirror(n, k) PROVE Mirror(c, k)
    <3>1. ASSUME Patient PROVE Told(c, k)
      <4>1. Told(n, k) /\ ~Untold(n)
        BY <1>2, <2>4, <3>1 DEF Mirror, Settled, Untold, Fighting
      <4>2. Agree(k.b1, n.p1) /\ Agree(k.b2, n.p2)
        BY <4>1 DEF Told
      <4>3. Behind(k.b2, c.p2, c.at)
        BY <1>1, <1>2, <1>3, <2>1, <4>2, ShotLeavesBehind
      <4> QED BY <1>5, <1>6, <2>1, <4>2, <4>3 DEF Told
    <3> QED BY <1>2, <1>5, <2>4, <3>1 DEF Mirror, Fighting
  <2> QED BY <1>1, <1>2, <1>4, <1>5, <2>3, <2>4, SilentSteps
<1>7. CASE n.tag = "TURN_P2"
  <2>1. c.p2 = n.p2 /\ c.p1 = Attack(n.p1, x) /\ ~AlreadyAttacked(n.p1, x)
    BY <1>3, <1>7 DEF Target
  <2>2. Good(c.p1) /\ Len(c.p1.ships) = NumShips
    BY <1>1, <1>2, <2>1, AttackKeeps DEF SameShips
  <2>3. HostOK(c)
    <3>1. HostShape(c)
      BY <1>1, <1>3, <1>4, <2>1, <2>2 DEF HostShape
    <3>2. Ranges(c)
      BY <1>1, <1>4 DEF Ranges
    <3>3. HostScreens(c)
      BY <1>1, <1>2, <1>4, <1>5 DEF HostScreens
    <3>4. HostBoards(c)
      BY <1>2, <1>4, <1>5, <1>7, <2>1, <2>2 DEF HostBoards
    <3>5. Patient => UnderWay(c)
      BY <1>3, <1>4, <1>5 DEF UnderWay, Settled
    <3> QED BY <3>1, <3>2, <3>3, <3>4, <3>5 DEF HostOK
  <2>4. ASSUME NEW k, Mirror(n, k) PROVE Mirror(c, k)
    <3>1. ASSUME Patient PROVE Told(c, k)
      <4>1. Told(n, k) /\ ~Untold(n)
        BY <1>2, <2>4, <3>1 DEF Mirror, Settled, Untold, Fighting
      <4>2. Agree(k.b1, n.p1) /\ Agree(k.b2, n.p2)
        BY <4>1 DEF Told
      <4>3. Behind(k.b1, c.p1, c.at)
        BY <1>1, <1>2, <1>3, <2>1, <4>2, ShotLeavesBehind
      <4> QED BY <1>5, <1>7, <2>1, <4>2, <4>3 DEF Told
    <3> QED BY <1>2, <1>5, <2>4, <3>1 DEF Mirror, Fighting
  <2> QED BY <1>1, <1>2, <1>4, <1>5, <2>3, <2>4, SilentSteps
<1> QED BY <1>6, <1>7 DEF Turns

\* The host's own shot, or none on a cell shot at before.
LEMMA FireSteps ==
  ASSUME NEW n, HostOK(n), CanFire(n), Patient => Settled(n), NEW x \in Cells,
         NEW c, c = FireAt(n, x)
  PROVE  HostStep(n, c)
<1>1. n.role = Host /\ n.tag = "TURN_P1"
  BY DEF HostOK, HostShape, CanFire, OwnsTurn
<1>2. CASE AlreadyAttacked(Target(n), x)
  BY <1>2, StandsStill DEF FireAt
<1>3. CASE ~AlreadyAttacked(Target(n), x)
  BY <1>1, <1>3, ResolveSteps DEF FireAt, Turns
<1> QED BY <1>2, <1>3

\* A shot the client asks for.
LEMMA AttackSteps ==
  ASSUME NEW n, HostOK(n), Patient => Settled(n), NEW x \in Cells, NEW c, c = AttackAsked(n, x)
  PROVE  HostStep(n, c)
<1>1. CASE n.tag # "TURN_P2" \/ AlreadyAttacked(n.p1, x)
  BY <1>1, StandsStill DEF AttackAsked
<1>2. CASE n.tag = "TURN_P2" /\ ~AlreadyAttacked(n.p1, x)
  BY <1>2, ResolveSteps DEF AttackAsked, Turns, Target
<1> QED BY <1>1, <1>2

----------------------------------------------------------------------------
(* What the client asks of the host                                        *)

\* The messages that do nothing to a host.
LEMMA IgnoredSteps ==
  ASSUME NEW n, HostOK(n), NEW msg, msg.type = "STATE", NEW c, c = HostReceives(n, msg)
  PROVE  HostStep(n, c) /\ Rests(n, c)
<1>1. c = n
  BY DEF HostReceives
<1> QED BY <1>1, StandsStill DEF Rests

\* The client leaves.
LEMMA QuitSteps ==
  ASSUME NEW n, HostOK(n), NEW msg, msg.type = "QUIT", NEW c, c = HostReceives(n, msg)
  PROVE  HostStep(n, c) /\ Rests(n, c)
<1>1. c = [n EXCEPT !.over = TRUE]
  BY DEF HostReceives
<1> QED BY <1>1, OverSteps

\* The answer to the handshake takes a client in the lobby to the placement, or
\* leaves it there.
Greets(n, c, q) ==
  \A k : Mirror(n, k) /\ k.at # "left" =>
    \E l : Path(q, k, l) /\ Mirror(c, l) /\ (Rank(k.at) <= 2 => Rank(l.at) <= 2)

Welcomes(n, c) ==
  /\ HostOK(c) /\ Rests(n, c) /\ c.p2 = n.p2
  /\ HostAt(c) = HostAt(n) \/ (HostAt(n) = "lobby" /\ HostAt(c) = "PLACE_SHIPS_P1")
  /\ \E q \in Seq(ToClient) : c.out = n.out \o q /\ NoExit(q) /\ Greets(n, c, q)

\* A hello that was answered already changes nothing.
LEMMA HelloStands ==
  ASSUME NEW n, HostOK(n), NEW c, c = n
  PROVE  Welcomes(n, c)
<1>1. << >> \in Seq(ToClient) /\ c.out = n.out \o << >> /\ NoExit(<< >>)
  BY DEF NoExit, HostOK, HostShape
<1>2. Greets(n, c, << >>)
  BY PathEmpty DEF Greets
<1> QED BY <1>1, <1>2 DEF Welcomes, Rests

\* The first hello of a game.
LEMMA HelloDoes ==
  ASSUME NEW n, DOMAIN n = Fields, NEW c, c = Hello(n), ~n.connected
  PROVE  /\ n.tag = "WAITING_CONNECT" =>
              /\ Keeps(n, c, {"connected", "tag", "prev", "clicked", "out"})
              /\ c.connected /\ c.tag = "PLACE_SHIPS_P1" /\ c.prev = n.tag
              /\ c.out = Append(Append(n.out, [type |-> "HELLO_ACK"]), StateMsg("PLACE_SHIPS_P1"))
         /\ n.tag # "WAITING_CONNECT" =>
              /\ Keeps(n, c, {"connected", "ready", "out"}) /\ c.connected
              /\ c.out = Append(n.out, [type |-> "HELLO_ACK"])
<1>1. PICK k : k = Send([n EXCEPT !.connected = TRUE], [type |-> "HELLO_ACK"])
  OBVIOUS
<1>2. /\ DOMAIN k = Fields /\ \A f \in Fields \ {"connected", "out"} : k[f] = n[f]
      /\ k.connected = TRUE /\ k.out = Append(n.out, [type |-> "HELLO_ACK"])
  BY <1>1 DEF Send, Fields
<1>3. CASE n.tag = "WAITING_CONNECT"
  <2>1. c = Send(Transition(k, "PLACE_SHIPS_P1"), StateMsg("PLACE_SHIPS_P1"))
    BY <1>1, <1>3 DEF Hello
  <2>2. /\ DOMAIN c = Fields /\ \A f \in Fields \ {"tag", "prev", "clicked", "out"} : c[f] = k[f]
        /\ c.tag = "PLACE_SHIPS_P1" /\ c.prev = k.tag
        /\ c.out = Append(k.out, StateMsg("PLACE_SHIPS_P1"))
    BY <1>2, <2>1 DEF Send, Transition, Fields
  <2>3. Keeps(n, c, {"connected", "tag", "prev", "clicked", "out"})
    BY <1>2, <2>2 DEF Keeps, Fields
  <2>4. c.connected = k.connected /\ k.tag = n.tag
    BY <1>2, <2>2 DEF Fields
  <2> QED BY <1>2, <1>3, <2>2, <2>3, <2>4
<1>4. CASE n.tag # "WAITING_CONNECT"
  <2>1. c = [k EXCEPT !.ready = TRUE]
    BY <1>1, <1>4 DEF Hello
  <2>2. DOMAIN c = Fields /\ \A f \in Fields \ {"ready"} : c[f] = k[f]
    BY <1>2, <2>1 DEF Fields
  <2>3. Keeps(n, c, {"connected", "ready", "out"})
    BY <1>2, <2>2 DEF Keeps, Fields
  <2>4. c.connected = k.connected /\ c.out = k.out
    BY <1>2, <2>2 DEF Fields
  <2> QED BY <1>2, <1>4, <2>2, <2>3, <2>4
<1> QED BY <1>3, <1>4

\* The placement begins.
LEMMA HelloBegins ==
  ASSUME NEW n, HostOK(n), n.tag = "WAITING_CONNECT",
         NEW c, Keeps(n, c, {"connected", "tag", "prev", "clicked", "out"}),
         c.connected, c.tag = "PLACE_SHIPS_P1", c.prev = n.tag,
         c.out = Append(Append(n.out, [type |-> "HELLO_ACK"]), StateMsg("PLACE_SHIPS_P1"))
  PROVE  Welcomes(n, c)
<1>1. DOMAIN n = Fields /\ n.out \in Seq(ToClient) /\ Ranges(n) /\ HostScreens(n) /\ HostShape(n)
  BY DEF HostOK, HostShape
<1>2. Screen(n) = n.tag /\ HostAt(n) = "lobby" /\ Blank(n) /\ n.idx = 0
  BY DEF HostOK, HostBoards, Screen, HostAt, Lobby
<1>3. /\ c.role = n.role /\ c.single = n.single /\ c.waiting = n.waiting /\ c.done = n.done
      /\ c.over = n.over /\ c.at = n.at /\ c.p1 = n.p1 /\ c.p2 = n.p2
      /\ c.idx = n.idx /\ c.expl = n.expl
      /\ c.word = n.word /\ c.secs = n.secs /\ c.cticks = n.cticks /\ c.post = n.post
      /\ DOMAIN c = Fields
  BY DEF Keeps, Fields
<1>4. Screen(c) = c.tag /\ HostAt(c) = c.tag /\ (Exploding(c) <=> Exploding(n))
  BY <1>3 DEF Screen, HostAt, Exploding, Lobby
<1> DEFINE ack == [type |-> "HELLO_ACK"]
           msg == StateMsg("PLACE_SHIPS_P1")
<1>5. /\ ack \in ToClient /\ ack # StateMsg("EXIT") /\ ack.type = "HELLO_ACK"
      /\ msg \in ToClient /\ msg # StateMsg("EXIT") /\ msg.type = "STATE" /\ msg.state = "PLACE_SHIPS_P1"
  BY DEF StateMsg, ToClient, Tags
<1>6. c.out = Append(Append(n.out, ack), msg)
  OBVIOUS
<1> HIDE DEF ack, msg
<1>7. /\ <<ack, msg>> \in Seq(ToClient) /\ <<ack>> \in Seq(ToClient) /\ <<msg>> \in Seq(ToClient)
      /\ <<ack, msg>> = <<ack>> \o <<msg>>
      /\ c.out = n.out \o <<ack, msg>> /\ c.out \in Seq(ToClient)
  <2>1. /\ <<ack, msg>> \in Seq(ToClient) /\ <<ack>> \in Seq(ToClient) /\ <<msg>> \in Seq(ToClient)
        /\ <<ack, msg>> = <<ack>> \o <<msg>> /\ c.out = n.out \o <<ack, msg>>
    BY <1>1, <1>5, <1>6 DEF ack, msg
  <2>2. PICK q \in Seq(ToClient) : q = <<ack, msg>>
    BY <2>1
  <2>3. n.out \o q \in Seq(ToClient)
    BY <1>1, ConcatProperties
  <2>4. c.out = n.out \o q
    BY <2>1, <2>2
  <2> QED BY <2>1, <2>3, <2>4
<1>8. NoExit(<<ack, msg>>)
  BY <1>5 DEF NoExit
<1>9. HostOK(c)
  <2>1. HostShape(c)
    BY <1>1, <1>3, <1>7 DEF HostShape
  <2>2. Ranges(c)
    BY <1>1, <1>3 DEF Ranges, Tags
  <2>3. HostScreens(c)
    BY <1>1, <1>3, <1>4 DEF HostScreens, Turns
  <2>4. HostBoards(c)
    BY <1>2, <1>3, <1>4, EmptyIsGood, NumShipsType DEF HostBoards, Fighting, Blank
  <2>5. Patient => UnderWay(c)
    BY <1>2, <1>3, <1>4 DEF HostOK, UnderWay, Turns
  <2> QED BY <2>1, <2>2, <2>3, <2>4, <2>5 DEF HostOK
<1>10. ASSUME NEW k, Mirror(n, k), k.at # "left"
       PROVE  \E l : Path(<<ack, msg>>, k, l) /\ Mirror(c, l) /\ (Rank(k.at) <= 2 => Rank(l.at) <= 2)
  <2>1. k.at = "lobby" /\ k.b1 = EmptyBoard /\ k.b2 = EmptyBoard
    BY <1>2, <1>10 DEF Mirror
  <2>2. PICK l : l = Copied("PLACE_SHIPS_P1", k.b1, k.b2)
    OBVIOUS
  <2>3. l.at = "PLACE_SHIPS_P1" /\ l.b1 = EmptyBoard /\ l.b2 = EmptyBoard
    BY <2>1, <2>2 DEF Copied
  <2>4. Hop(k, ack, k)
    BY <1>5, <2>1 DEF Hop
  <2>5. Hop(k, msg, l)
    BY <1>5, <2>1, <2>2 DEF Hop, Leads, Gate
  <2>6. Rank(k.at) = 0 /\ Rank(l.at) = 1
    BY <2>1, <2>3 DEF Rank
  <2>7. Path(<<ack>>, k, k)
    BY <2>4, <2>6, PathOne
  <2>8. Path(<<msg>>, k, l)
    BY <2>5, <2>6, PathOne
  <2>9. Path(<<ack>> \o <<msg>>, k, l)
    BY <1>7, <2>7, <2>8, PathJoin
  <2>10. Mirror(c, l)
    BY <1>4, <2>3 DEF Mirror, Fighting
  <2>11. Path(<<ack, msg>>, k, l)
    BY <1>7, <2>9
  <2>12. Rank(k.at) <= 2 => Rank(l.at) <= 2
    BY <2>6
  <2> QED BY <2>10, <2>11, <2>12
<1>11. Rests(n, c)
  BY <1>3, <1>4 DEF Rests, Settled
<1>12. Greets(n, c, <<ack, msg>>)
  BY <1>10 DEF Greets
<1> QED BY <1>2, <1>3, <1>4, <1>7, <1>8, <1>9, <1>11, <1>12 DEF Welcomes

\* A hello is answered, the game goes on where it is.
LEMMA HelloAnswers ==
  ASSUME NEW n, HostOK(n), HostAt(n) = "lobby",
         NEW c, Keeps(n, c, {"connected", "ready", "out"}), c.connected,
         c.out = Append(n.out, [type |-> "HELLO_ACK"])
  PROVE  Welcomes(n, c)
<1>1. DOMAIN n = Fields /\ n.out \in Seq(ToClient) /\ Ranges(n) /\ HostScreens(n) /\ HostShape(n)
  BY DEF HostOK, HostShape
<1>3. /\ c.role = n.role /\ c.single = n.single /\ c.waiting = n.waiting /\ c.done = n.done
      /\ c.over = n.over /\ c.at = n.at /\ c.p1 = n.p1 /\ c.p2 = n.p2
      /\ c.idx = n.idx /\ c.expl = n.expl /\ c.tag = n.tag /\ c.prev = n.prev
      /\ c.word = n.word /\ c.secs = n.secs /\ c.cticks = n.cticks /\ c.post = n.post
      /\ DOMAIN c = Fields
  BY DEF Keeps, Fields
<1>4. Screen(c) = Screen(n) /\ HostAt(c) = "lobby" /\ (Exploding(c) <=> Exploding(n))
  BY <1>3 DEF Screen, HostAt, Exploding, Lobby
<1> DEFINE ack == [type |-> "HELLO_ACK"]
<1>5. ack \in ToClient /\ ack # StateMsg("EXIT") /\ ack.type = "HELLO_ACK"
  BY DEF StateMsg, ToClient, Tags
<1>6. c.out = Append(n.out, ack)
  OBVIOUS
<1> HIDE DEF ack
<1>7. <<ack>> \in Seq(ToClient) /\ c.out = n.out \o <<ack>> /\ c.out \in Seq(ToClient)
  BY <1>1, <1>5, <1>6
<1>8. NoExit(<<ack>>)
  BY <1>5 DEF NoExit
<1>9. HostOK(c)
  <2>1. HostShape(c)
    BY <1>1, <1>3, <1>7 DEF HostShape
  <2>2. Ranges(c)
    BY <1>1, <1>3 DEF Ranges
  <2>3. HostScreens(c)
    BY <1>1, <1>3, <1>4 DEF HostScreens
  <2>4. HostBoards(c)
    BY <1>3, <1>4 DEF HostOK, HostBoards, Blank
  <2>5. Patient => UnderWay(c)
    BY <1>3, <1>4 DEF HostOK, UnderWay
  <2> QED BY <2>1, <2>2, <2>3, <2>4, <2>5 DEF HostOK
<1>10. ASSUME NEW k, Mirror(n, k), k.at # "left"
       PROVE  \E l : Path(<<ack>>, k, l) /\ Mirror(c, l) /\ (Rank(k.at) <= 2 => Rank(l.at) <= 2)
  <2>1. k.at = "lobby"
    BY <1>10 DEF Mirror
  <2>2. Hop(k, ack, k)
    BY <1>5, <2>1 DEF Hop
  <2>3. Path(<<ack>>, k, k)
    <3>1. Rank(k.at) <= Rank(k.at)
      BY RankSays
    <3> QED BY <2>2, <3>1, PathOne
  <2>4. Mirror(c, k)
    BY <1>4, <1>10 DEF Mirror, Fighting
  <2> QED BY <2>3, <2>4
<1>11. Rests(n, c)
  BY <1>3, <1>4 DEF Rests, Settled
<1>12. Greets(n, c, <<ack>>)
  BY <1>10 DEF Greets
<1> QED BY <1>3, <1>4, <1>7, <1>8, <1>9, <1>11, <1>12 DEF Welcomes

\* Whatever the host does when it is greeted, the client is ready for it.
LEMMA HelloSteps ==
  ASSUME NEW n, HostOK(n), NEW msg, msg.type = "HELLO", NEW c, c = HostReceives(n, msg)
  PROVE  Welcomes(n, c)
<1>1. c = Hello(n) /\ DOMAIN n = Fields
  BY DEF HostReceives, HostOK, HostShape
<1>2. CASE n.connected
  BY <1>1, <1>2, HelloStands DEF Hello
<1>3. CASE ~n.connected /\ n.tag = "WAITING_CONNECT"
  BY <1>1, <1>3, HelloDoes, HelloBegins
<1>4. CASE ~n.connected /\ n.tag # "WAITING_CONNECT"
  <2>1. HostAt(n) = "lobby"
    BY <1>4 DEF HostOK, HostScreens
  <2> QED BY <1>1, <1>4, <2>1, HelloDoes, HelloAnswers
<1> QED BY <1>2, <1>3, <1>4

\* A ship of the client's fleet.
LEMMA ShipSteps ==
  ASSUME NEW n, HostOK(n), HostAt(n) = "PLACE_SHIPS_WAITING", Len(n.p2.ships) < NumShips,
         NEW msg, msg.type = "SHIP", CanPlace(n.p2, msg.cells), msg.size \in Nat \ {0},
         Cardinality(msg.cells) = msg.size, NEW c, c = HostReceives(n, msg)
  PROVE  /\ HostOK(c) /\ Tells(n, c) /\ Rests(n, c) /\ HostAt(c) = HostAt(n) /\ c.out = n.out
         /\ c.p2 = PlaceShip(n.p2, msg.cells, msg.size)
<1>1. DOMAIN n = Fields /\ n.out \in Seq(ToClient) /\ Ranges(n) /\ HostScreens(n) /\ HostShape(n)
      /\ Good(n.p2)
  BY DEF HostOK, HostShape
<1>2. n.tag = "PLACE_SHIPS_WAITING" /\ Screen(n) = n.tag
  BY <1>1 DEF HostAt, Screen, HostScreens
<1>3. PICK board : board = PlaceShip(n.p2, msg.cells, msg.size)
  OBVIOUS
<1>4. Good(board) /\ ShotOn(board) = {}
  BY <1>1, <1>3, PlacingKeeps
<1>5. c = [n EXCEPT !.p2 = board]
  BY <1>3 DEF HostReceives
<1>6. /\ c.role = n.role /\ c.single = n.single /\ c.waiting = n.waiting /\ c.done = n.done
      /\ c.over = n.over /\ c.at = n.at /\ c.p1 = n.p1 /\ c.p2 = board
      /\ c.idx = n.idx /\ c.expl = n.expl /\ c.tag = n.tag /\ c.prev = n.prev /\ c.connected = n.connected
      /\ c.word = n.word /\ c.secs = n.secs /\ c.cticks = n.cticks /\ c.post = n.post
      /\ c.out = n.out /\ DOMAIN c = Fields
  BY <1>1, <1>5 DEF Fields
<1>7. Screen(c) = Screen(n) /\ HostAt(c) = HostAt(n) /\ (Exploding(c) <=> Exploding(n))
  BY <1>6 DEF Screen, HostAt, Exploding
<1>8. HostOK(c)
  <2>1. HostShape(c)
    BY <1>1, <1>4, <1>6 DEF HostShape
  <2>2. Ranges(c)
    BY <1>1, <1>6 DEF Ranges
  <2>3. HostScreens(c)
    BY <1>1, <1>6, <1>7 DEF HostScreens
  <2>4. HostBoards(c)
    BY <1>2, <1>4, <1>6, <1>7 DEF HostOK, HostBoards, Fighting
  <2>5. Patient => UnderWay(c)
    BY <1>6, <1>7 DEF HostOK, UnderWay
  <2> QED BY <2>1, <2>2, <2>3, <2>4, <2>5 DEF HostOK
<1>9. Alike(n, c)
  BY <1>7 DEF Alike, Fighting
<1>10. Tells(n, c)
  BY <1>1, <1>6, <1>9, SaysNothing
<1>11. Rests(n, c)
  BY <1>6, <1>7 DEF Rests, Settled
<1> QED BY <1>3, <1>6, <1>7, <1>8, <1>10, <1>11

\* Both fleets are placed: the client is shown the host's, and the fight begins.
LEMMA DoneDoes ==
  ASSUME NEW n, DOMAIN n = Fields, n.tag = "PLACE_SHIPS_WAITING", n.out \in Seq(ToClient),
         FleetMessages(n.p1) \in Seq(ToClient), NEW msg, msg.type = "DONE", NEW c, c = HostReceives(n, msg)
  PROVE  /\ Keeps(n, c, {"tag", "prev", "clicked", "secs", "cticks", "out"})
         /\ c.tag = "COUNTDOWN" /\ c.prev = n.tag /\ c.secs = CountdownStart /\ c.cticks = 0
         /\ c.out = n.out \o (FleetMessages(n.p1)
                      \o <<StateMsg("COUNTDOWN"), [type |-> "SECONDS", secs |-> CountdownStart]>>)
<1>1. PICK fleet \in Seq(ToClient) : fleet = FleetMessages(n.p1)
  OBVIOUS
<1>2. PICK start : start = Transition([n EXCEPT !.out = n.out \o fleet, !.secs = CountdownStart, !.cticks = 0],
                                      "COUNTDOWN")
  OBVIOUS
<1>3. /\ DOMAIN start = Fields
      /\ \A f \in Fields \ {"tag", "prev", "clicked", "secs", "cticks", "out"} : start[f] = n[f]
      /\ start.tag = "COUNTDOWN" /\ start.prev = n.tag /\ start.secs = CountdownStart /\ start.cticks = 0
      /\ start.out = n.out \o fleet
  BY <1>2 DEF Transition, Fields
<1>4. PICK m1, m2 : m1 = StateMsg("COUNTDOWN") /\ m2 = [type |-> "SECONDS", secs |-> CountdownStart]
  OBVIOUS
<1>5. c = Send(Send(start, m1), m2)
  BY <1>1, <1>2, <1>4 DEF HostReceives, DonePlacing, FleetMessages
<1>6. /\ DOMAIN c = Fields /\ \A f \in Fields \ {"out"} : c[f] = start[f]
      /\ c.out = Append(Append(start.out, m1), m2)
  BY <1>3, <1>5 DEF Send, Fields
<1>7. m1 \in ToClient /\ m2 \in ToClient
  BY <1>4, TimingAssumption DEF StateMsg, ToClient, Tags
<1>8. Append(Append(n.out \o fleet, m1), m2) = n.out \o (fleet \o <<m1, m2>>)
  <2>1. PICK o \in Seq(ToClient) : o = n.out
    OBVIOUS
  <2>0. o \o fleet \in Seq(ToClient)
    BY <1>1, <2>1
  <2>2. PICK q \in Seq(ToClient) : q = o \o fleet
    BY <2>0
  <2>3. Append(Append(q, m1), m2) = q \o <<m1, m2>>
    BY <1>7
  <2>4. <<m1, m2>> \in Seq(ToClient)
    BY <1>7
  <2>5. (o \o fleet) \o <<m1, m2>> = o \o (fleet \o <<m1, m2>>)
    BY <2>4, ConcatAssociative
  <2> QED BY <2>1, <2>2, <2>3, <2>5
<1>9. Keeps(n, c, {"tag", "prev", "clicked", "secs", "cticks", "out"})
  BY <1>3, <1>6 DEF Keeps, Fields
<1>10. c.tag = start.tag /\ c.prev = start.prev /\ c.secs = start.secs /\ c.cticks = start.cticks
  BY <1>6 DEF Fields
<1> QED BY <1>1, <1>3, <1>4, <1>6, <1>8, <1>9, <1>10

\* Two messages, one after the other.
LEMMA PairJoins ==
  ASSUME NEW S, NEW a \in S, NEW b \in S
  PROVE  /\ <<a, b>> \in Seq(S) /\ <<a>> \in Seq(S) /\ <<b>> \in Seq(S)
         /\ <<a, b>> = <<a>> \o <<b>> /\ Len(<<a, b>>) = 2 /\ <<a, b>>[1] = a /\ <<a, b>>[2] = b
<1>1. <<a>> \in Seq(S) /\ <<b>> \in Seq(S)
  OBVIOUS
<1>2. <<a, b>> \in Seq(S)
  OBVIOUS
<1>3. Len(<<a, b>>) = 2 /\ <<a, b>>[1] = a /\ <<a, b>>[2] = b
  OBVIOUS
<1>4. <<a, b>> = <<a>> \o <<b>>
  <2>1. PICK u : u = <<a>>
    OBVIOUS
  <2>2. PICK v : v = <<b>>
    OBVIOUS
  <2>3. PICK w : w = <<a, b>>
    OBVIOUS
  <2>4. u \in Seq(S) /\ Len(u) = 1 /\ u[1] = a
    BY <2>1
  <2>5. v \in Seq(S) /\ Len(v) = 1 /\ v[1] = b
    BY <2>2
  <2>6. w \in Seq(S) /\ Len(w) = 2 /\ w[1] = a /\ w[2] = b
    BY <2>3
  <2>7. w = u \o v
    <3>1. u \o v \in Seq(S) /\ Len(u \o v) = 2 /\ (u \o v)[1] = a /\ (u \o v)[2] = b
      BY <2>4, <2>5, ConcatProperties
    <3>2. \A i \in 1 .. Len(w) : w[i] = (u \o v)[i]
      BY <2>6, <3>1
    <3> QED BY <2>6, <3>1, <3>2, SeqEqual
  <2> QED BY <2>1, <2>2, <2>3, <2>7, Zenon
<1> QED BY <1>1, <1>2, <1>3, <1>4, Zenon

\* From a client that waits with its whole fleet known to the host, the messages lead
\* to one that sees the countdown with both fleets.
Reveals(n, c) ==
  \E q \in Seq(ToClient) :
    /\ c.out = n.out \o q /\ NoExit(q)
    /\ \E l : Path(q, Copied("PLACE_SHIPS_WAITING", EmptyBoard, n.p2), l) /\ Mirror(c, l)

\* The host that learns of the whole fleet of the client shows its own.
LEMMA DoneSteps ==
  ASSUME NEW n, HostOK(n), HostAt(n) = "PLACE_SHIPS_WAITING", Len(n.p2.ships) = NumShips,
         NEW msg, msg.type = "DONE", NEW c, c = HostReceives(n, msg)
  PROVE  HostOK(c) /\ Rests(n, c) /\ HostAt(c) = "COUNTDOWN" /\ c.p2 = n.p2 /\ Reveals(n, c)
<1>1. DOMAIN n = Fields /\ n.out \in Seq(ToClient) /\ Ranges(n) /\ HostScreens(n) /\ HostShape(n)
      /\ Good(n.p1) /\ Good(n.p2)
  BY DEF HostOK, HostShape
<1>2. n.tag = "PLACE_SHIPS_WAITING" /\ Screen(n) = n.tag
  BY <1>1 DEF HostAt, Screen, HostScreens
<1>3. Len(n.p1.ships) = NumShips /\ ShotOn(n.p1) = {} /\ ShotOn(n.p2) = {}
  BY <1>2 DEF HostOK, HostBoards
<1> DEFINE fleet == FleetMessages(n.p1)
           m1 == StateMsg("COUNTDOWN")
           m2 == [type |-> "SECONDS", secs |-> CountdownStart]
           a == Copied("PLACE_SHIPS_WAITING", EmptyBoard, n.p2)
           b == Copied("SHOWING", Shown(n.p1, NumShips), n.p2)
           l == Copied("COUNTDOWN", Shown(n.p1, NumShips), n.p2)
<1>4. fleet \in Seq(ToClient) /\ Path(fleet, a, b) /\ \A i \in 1 .. NumShips : fleet[i].type = "SHIP"
  BY <1>1, <1>3, FleetPath
<1>5. Len(fleet) = NumShips
  BY <1>1, <1>3, RecordFields, NumShipsType DEF FleetMessages, Good, Ids
<1>6. /\ m1 \in ToClient /\ m1.type = "STATE" /\ m1.state = "COUNTDOWN" /\ m1 # StateMsg("EXIT")
      /\ m2 \in ToClient /\ m2.type = "SECONDS" /\ m2 # StateMsg("EXIT")
  BY TimingAssumption DEF StateMsg, ToClient, Tags
<1>7. a.at = "PLACE_SHIPS_WAITING" /\ b.at = "SHOWING" /\ l.at = "COUNTDOWN" /\ l = Copied("COUNTDOWN", b.b1, b.b2)
      /\ l.b1 = Shown(n.p1, NumShips) /\ l.b2 = n.p2
  BY DEF Copied
<1>8. /\ Keeps(n, c, {"tag", "prev", "clicked", "secs", "cticks", "out"})
      /\ c.tag = "COUNTDOWN" /\ c.prev = n.tag /\ c.secs = CountdownStart /\ c.cticks = 0
      /\ c.out = n.out \o (fleet \o <<m1, m2>>)
  BY <1>1, <1>2, <1>4, DoneDoes
<1> HIDE DEF fleet, m1, m2, a, b, l
<1>9. /\ c.role = n.role /\ c.single = n.single /\ c.waiting = n.waiting /\ c.done = n.done
      /\ c.over = n.over /\ c.at = n.at /\ c.p1 = n.p1 /\ c.p2 = n.p2
      /\ c.idx = n.idx /\ c.expl = n.expl /\ c.connected = n.connected
      /\ c.word = n.word /\ c.post = n.post /\ DOMAIN c = Fields
  BY <1>8 DEF Keeps, Fields
<1>10. Screen(c) = c.tag /\ HostAt(c) = c.tag /\ (Exploding(c) <=> Exploding(n))
  BY <1>8, <1>9 DEF Screen, HostAt, Exploding, Lobby
<1>11. PICK p \in Seq(ToClient) : p = <<m1, m2>> /\ p = <<m1>> \o <<m2>> /\ Len(p) = 2 /\ p[1] = m1 /\ p[2] = m2
                                  /\ <<m1>> \in Seq(ToClient) /\ <<m2>> \in Seq(ToClient)
  <2>1. PICK p : p = <<m1, m2>>
    OBVIOUS
  <2>2. /\ <<m1, m2>> \in Seq(ToClient) /\ <<m1>> \in Seq(ToClient) /\ <<m2>> \in Seq(ToClient)
        /\ <<m1, m2>> = <<m1>> \o <<m2>> /\ Len(<<m1, m2>>) = 2 /\ <<m1, m2>>[1] = m1 /\ <<m1, m2>>[2] = m2
    BY <1>6, PairJoins, Zenon
  <2> QED BY <2>1, <2>2, Zenon
<1>12. PICK q \in Seq(ToClient) : q = fleet \o p
  <2>1. fleet \o p \in Seq(ToClient)
    BY <1>4, <1>11, ConcatProperties
  <2> QED BY <2>1
<1>13. c.out = n.out \o q /\ c.out \in Seq(ToClient)
  <2>1. n.out \o q \in Seq(ToClient)
    BY <1>1, ConcatProperties
  <2> QED BY <1>8, <1>11, <1>12, <2>1
<1>14. NoExit(q)
  <2> SUFFICES ASSUME NEW i \in 1 .. Len(q) PROVE q[i] # StateMsg("EXIT")
    BY DEF NoExit
  <2>1. Len(q) = NumShips + 2 /\ NumShips \in Nat /\ q[i] = IF i <= NumShips THEN fleet[i] ELSE p[i - NumShips]
    BY <1>4, <1>5, <1>11, <1>12, ConcatProperties, NumShipsType
  <2>2. CASE i <= NumShips
    BY <1>4, <2>1, <2>2 DEF StateMsg
  <2>3. CASE i > NumShips
    <3>1. i - NumShips = 1 \/ i - NumShips = 2
      BY <2>1, <2>3
    <3> QED BY <1>6, <1>11, <2>1, <2>3, <3>1
  <2> QED BY <2>1, <2>2, <2>3
<1>15. Path(q, a, l)
  <2>1. Hop(b, m1, l)
    BY <1>6, <1>7 DEF Hop, Leads, Gate
  <2>2. Hop(l, m2, l)
    BY <1>6, <1>7 DEF Hop
  <2>3. Rank(b.at) = 3 /\ Rank(l.at) = 4
    BY <1>7 DEF Rank, Fighting
  <2>4. Path(<<m1>>, b, l) /\ Path(<<m2>>, l, l)
    BY <2>1, <2>2, <2>3, PathOne
  <2>5. Path(p, b, l)
    BY <1>11, <2>4, PathJoin
  <2> QED BY <1>4, <1>12, <2>5, PathJoin
<1>16. HostOK(c)
  <2>1. HostShape(c)
    BY <1>1, <1>9, <1>13 DEF HostShape
  <2>2. Ranges(c)
    BY <1>1, <1>2, <1>8, <1>9, TimingAssumption DEF Ranges, Tags
  <2>3. HostScreens(c)
    BY <1>1, <1>2, <1>8, <1>9, <1>10, TimingAssumption DEF HostScreens, HostAt, Lobby, Turns
  <2>4. HostBoards(c)
    BY <1>3, <1>8, <1>9, <1>10 DEF HostBoards
  <2>5. Patient => UnderWay(c)
    BY <1>2, <1>9, <1>10 DEF HostOK, UnderWay, Turns
  <2> QED BY <2>1, <2>2, <2>3, <2>4, <2>5 DEF HostOK
<1>17. Mirror(c, l)
  <2>1. ASSUME Patient PROVE Told(c, l)
    <3>1. ~Untold(c)
      BY <1>2, <1>9, <1>10, <2>1 DEF HostOK, UnderWay, Turns, Untold
    <3>2. Agree(l.b1, c.p1)
      BY <1>1, <1>3, <1>7, <1>9, ShownEnds
    <3>3. Agree(l.b2, c.p2)
      BY <1>1, <1>7, <1>9, AgreesItself DEF Good
    <3> QED BY <3>1, <3>2, <3>3 DEF Told
  <2> QED BY <1>7, <1>8, <1>10, <2>1 DEF Mirror
<1>18. Rests(n, c)
  BY <1>9, <1>10 DEF Rests, Settled
<1>19. Reveals(n, c)
  BY <1>13, <1>14, <1>15, <1>17 DEF Reveals, a
<1> QED BY <1>8, <1>9, <1>10, <1>16, <1>18, <1>19

----------------------------------------------------------------------------
(* The client by itself                                                    *)

\* A step of the client that is nobody's business: it stays where it is, and where it
\* waits for the host it goes on waiting.
ClientStep(n, c) ==
  /\ ClientOK(c) /\ Copy(c) = Copy(n)
  /\ n.tag \in {"WAITING_CONNECT", "PLACE_SHIPS_WAITING"} => c.tag = n.tag

\* It says nothing, or one thing of a kind in T.
Says(n, c, T) ==
  c.out = n.out \/ \E msg \in ToHost : msg.type \in T /\ c.out = Append(n.out, msg)

\* On one screen, with its boards.
LEMMA ClientStays ==
  ASSUME NEW n, ClientOK(n), NEW c, DOMAIN c = Fields,
         c.role = n.role, c.single = n.single, c.waiting = n.waiting, c.over \in BOOLEAN,
         c.out \in Seq(ToHost), c.p1 = n.p1, c.p2 = n.p2, c.idx = n.idx, c.word \in 0 .. 3,
         c.secs = n.secs, c.cticks = n.cticks, c.post = n.post,
         c.tag \in Tags, c.prev \in Tags, Screen(c) = Screen(n),
         c.tag = "PAUSED" => c.prev \in {"PLACE_SHIPS_P2", "TURN_P2"},
         n.tag \in {"WAITING_CONNECT", "PLACE_SHIPS_WAITING"} => c.tag = n.tag
  PROVE  ClientStep(n, c)
<1>1. ClientAt(c) = ClientAt(n)
  BY DEF ClientAt
<1>2. Copy(c) = Copy(n)
  BY <1>1 DEF Copy
<1>3. ClientShape(c)
  BY DEF ClientOK, ClientShape
<1>4. Ranges(c)
  BY DEF ClientOK, Ranges
<1>5. c.tag # "PAUSED" =>
        c.tag = n.tag \/ (n.tag = "PAUSED" /\ n.prev \in {"PLACE_SHIPS_P2", "TURN_P2"} /\ c.tag = n.prev)
  BY DEF ClientOK, ClientScreens, Screen
<1>6. ClientScreens(c)
  BY <1>1, <1>5 DEF ClientOK, ClientScreens, Blank
<1> QED BY <1>2, <1>3, <1>4, <1>6 DEF ClientStep, ClientOK

\* From one screen of the lobby to another.
LEMMA ClientInLobby ==
  ASSUME NEW n, ClientOK(n), n.tag \in Lobby, n.tag # "WAITING_CONNECT", NEW c, DOMAIN c = Fields,
         c.role = n.role, c.single = FALSE, c.waiting = n.waiting, c.over \in BOOLEAN,
         c.out \in Seq(ToHost), c.p1 \in {n.p1, EmptyBoard}, c.p2 \in {n.p2, EmptyBoard}, c.word \in 0 .. 3,
         c.secs = n.secs, c.cticks = n.cticks, c.post = n.post,
         c.tag \in Lobby, c.prev \in Tags, c.tag = "WAITING_CONNECT" => Blank(c)
  PROVE  ClientStep(n, c)
<1>1. Screen(c) = c.tag /\ Screen(n) = n.tag /\ ClientAt(c) = "lobby" /\ ClientAt(n) = "lobby"
  BY DEF Screen, ClientAt, Lobby
<1>2. Copy(c) = Copy(n)
  BY <1>1 DEF Copy
<1>3. BoardType(EmptyBoard)
  BY EmptyIsGood DEF Good
<1>4. ClientShape(c)
  BY <1>3 DEF ClientOK, ClientShape
<1>5. Ranges(c)
  BY DEF ClientOK, Ranges, Lobby, Tags
<1>6. ClientScreens(c)
  BY <1>1 DEF ClientScreens, Lobby
<1> QED BY <1>2, <1>4, <1>5, <1>6 DEF ClientStep, ClientOK, Lobby

\* What the client's state is made of.
LEMMA ClientFields ==
  ASSUME NEW n, ClientOK(n)
  PROVE  /\ DOMAIN n = Fields /\ n.role = Client /\ n.single = FALSE /\ n.waiting = FALSE
         /\ n.over \in BOOLEAN /\ n.out \in Seq(ToHost) /\ BoardType(n.p1) /\ BoardType(n.p2)
         /\ n.tag \in Tags /\ n.prev \in Tags /\ n.word \in 0 .. 3
         /\ n.tag = "PAUSED" => n.prev \in {"PLACE_SHIPS_P2", "TURN_P2"}
  BY DEF ClientOK, ClientShape, Ranges, ClientScreens

\* It ends, with or without a word.
LEMMA ClientEnds ==
  ASSUME NEW n, ClientOK(n), NEW c, DOMAIN c = Fields, c.over = TRUE,
         \A f \in Fields \ {"over", "out"} : c[f] = n[f],
         c.out = n.out \/ c.out = Append(n.out, [type |-> "QUIT"])
  PROVE  ClientStep(n, c) /\ Says(n, c, {"QUIT"})
<1>1. [type |-> "QUIT"] \in ToHost /\ [type |-> "QUIT"].type = "QUIT"
  BY DEF ToHost
<1>2. Says(n, c, {"QUIT"})
  BY <1>1 DEF Says
<1>3. c.out \in Seq(ToHost)
  <2>1. PICK m \in ToHost : m = [type |-> "QUIT"]
    BY <1>1
  <2>2. n.out \in Seq(ToHost) /\ (c.out = n.out \/ c.out = Append(n.out, m))
    BY <2>1, ClientFields
  <2> HIDE <2>1
  <2> QED BY <2>2
<1>4. /\ c.role = n.role /\ c.single = n.single /\ c.waiting = n.waiting
      /\ c.p1 = n.p1 /\ c.p2 = n.p2 /\ c.tag = n.tag /\ c.prev = n.prev /\ c.idx = n.idx
      /\ c.word = n.word /\ c.secs = n.secs /\ c.cticks = n.cticks /\ c.post = n.post
  BY DEF Fields
<1>5. Screen(c) = Screen(n)
  BY <1>4 DEF Screen
<1>6. ClientStep(n, c)
  BY <1>3, <1>4, <1>5, ClientFields, ClientStays
<1> QED BY <1>2, <1>6

\* The client quits.
LEMMA ClientQuits ==
  ASSUME NEW n, ClientOK(n), NEW c, c = Quit(n)
  PROVE  ClientStep(n, c) /\ Says(n, c, {"QUIT"})
<1>1. DOMAIN n = Fields /\ n.role = Client
  BY ClientFields
<1>2. PICK m : m = [type |-> "QUIT"]
  OBVIOUS
<1>3. c = [Send(n, m) EXCEPT !.over = TRUE]
  BY <1>1, <1>2 DEF Quit
<1>4. /\ DOMAIN c = Fields /\ c.over = TRUE /\ c.out = Append(n.out, m)
      /\ \A f \in Fields \ {"over", "out"} : c[f] = n[f]
  BY <1>1, <1>3 DEF Send, Fields
<1> QED BY <1>2, <1>4, ClientEnds

\* The main menu without its first option.
LEMMA ClientMenu ==
  ASSUME NEW n, ClientOK(n), n.tag = "MAIN_MENU", NEW option \in 1 .. 3, NEW c, c = MenuChoose(n, option)
  PROVE  ClientStep(n, c) /\ Says(n, c, {"QUIT"})
<1>1. DOMAIN n = Fields /\ n.single = FALSE /\ n.out \in Seq(ToHost) /\ n.over \in BOOLEAN /\ n.word \in 0 .. 3
  BY ClientFields
<1>2. CASE option = 1
  <2>1. PICK g : g = NewGame(n)
    OBVIOUS
  <2>2. PICK e : e = [g EXCEPT !.single = FALSE, !.connected = FALSE, !.ready = FALSE]
    OBVIOUS
  <2>3. /\ DOMAIN g = Fields /\ g.p1 = EmptyBoard /\ g.p2 = EmptyBoard /\ g.word = 1 /\ g.idx = 0
        /\ \A f \in {"role", "waiting", "over", "out", "tag", "secs", "cticks", "post"} : g[f] = n[f]
    BY <1>1, <2>1 DEF NewGame, ClearBoards, CalmRenderer, Fields
  <2>4. DOMAIN e = Fields /\ e.single = FALSE /\ \A f \in Fields \ {"single", "connected", "ready"} : e[f] = g[f]
    BY <2>2, <2>3 DEF Fields
  <2>5. c = Transition(e, "WAITING_CONNECT")
    BY <1>2, <2>1, <2>2 DEF MenuChoose, StartMulti
  <2>6. /\ DOMAIN c = Fields /\ c.tag = "WAITING_CONNECT" /\ c.prev = e.tag
        /\ \A f \in Fields \ {"tag", "prev", "clicked"} : c[f] = e[f]
    BY <2>4, <2>5 DEF Transition, Fields
  <2>7. /\ c.role = n.role /\ c.single = FALSE /\ c.waiting = n.waiting /\ c.over = n.over /\ c.out = n.out
        /\ c.p1 = EmptyBoard /\ c.p2 = EmptyBoard /\ c.prev = n.tag /\ c.word = 1
        /\ c.secs = n.secs /\ c.cticks = n.cticks /\ c.post = n.post
    BY <2>3, <2>4, <2>6 DEF Fields
  <2>8. ClientStep(n, c)
    <3>1. c.tag \in Lobby /\ n.tag \in Lobby /\ n.tag # "WAITING_CONNECT" /\ c.prev \in Tags /\ Blank(c)
          /\ c.word \in 0 .. 3 /\ c.over \in BOOLEAN /\ c.out \in Seq(ToHost)
      BY <1>1, <2>6, <2>7 DEF Lobby, Tags, Blank
    <3> QED BY <2>6, <2>7, <3>1, ClientInLobby
  <2> QED BY <2>7, <2>8 DEF Says
<1>3. CASE option = 2
  <2>1. c = Transition(n, "INSTRUCTIONS")
    BY <1>3 DEF MenuChoose
  <2>2. /\ DOMAIN c = Fields /\ c.tag = "INSTRUCTIONS" /\ c.prev = n.tag
        /\ c.role = n.role /\ c.single = n.single /\ c.waiting = n.waiting /\ c.over = n.over /\ c.out = n.out
        /\ c.p1 = n.p1 /\ c.p2 = n.p2 /\ c.word = n.word
        /\ c.secs = n.secs /\ c.cticks = n.cticks /\ c.post = n.post
    BY <1>1, <2>1 DEF Transition, Fields
  <2>3. ClientStep(n, c)
    BY <1>1, <2>2, ClientInLobby DEF Lobby, Tags
  <2> QED BY <2>2, <2>3 DEF Says
<1>4. CASE option = 3
  BY <1>4, ClientQuits DEF MenuChoose
<1> QED BY <1>2, <1>3, <1>4

\* Back from the instructions.
LEMMA ClientReads ==
  ASSUME NEW n, ClientOK(n), n.tag = "INSTRUCTIONS", NEW c, c = Transition(n, "MAIN_MENU")
  PROVE  ClientStep(n, c) /\ c.out = n.out
<1>1. DOMAIN n = Fields /\ n.single = FALSE /\ n.out \in Seq(ToHost) /\ n.over \in BOOLEAN /\ n.word \in 0 .. 3
  BY ClientFields
<1>2. /\ DOMAIN c = Fields /\ c.tag = "MAIN_MENU" /\ c.prev = n.tag
      /\ c.role = n.role /\ c.single = n.single /\ c.waiting = n.waiting /\ c.over = n.over /\ c.out = n.out
      /\ c.p1 = n.p1 /\ c.p2 = n.p2 /\ c.word = n.word
      /\ c.secs = n.secs /\ c.cticks = n.cticks /\ c.post = n.post
  BY <1>1 DEF Transition, Fields
<1>3. ClientStep(n, c)
  BY <1>1, <1>2, ClientInLobby DEF Lobby, Tags
<1> QED BY <1>2, <1>3

\* Enter on the game-over screen.
LEMMA ClientRematch ==
  ASSUME NEW n, ClientOK(n), n.tag = "GAME_OVER", NEW c, c = Rematch(n)
  PROVE  ClientStep(n, c) /\ Says(n, c, {"STATE"})
<1>1. DOMAIN n = Fields /\ n.single = FALSE /\ n.out \in Seq(ToHost) /\ n.over \in BOOLEAN
  BY ClientFields
<1>2. PICK msg : msg = StateMsg("MAIN_MENU") /\ msg.type = "STATE" /\ msg \in ToHost
  <2>1. StateMsg("MAIN_MENU").type = "STATE" /\ StateMsg("MAIN_MENU") \in ToHost
    BY DEF StateMsg, ToHost
  <2> QED BY <2>1, Zenon
<1>3. /\ DOMAIN c = Fields /\ c.role = n.role /\ c.single = n.single /\ c.waiting = n.waiting
      /\ c.over = n.over /\ c.p1 = EmptyBoard /\ c.p2 = EmptyBoard /\ c.out = Append(n.out, msg)
      /\ c.tag = "MAIN_MENU" /\ c.prev = n.tag /\ c.word = 0 /\ c.secs = n.secs /\ c.cticks = n.cticks
      /\ c.post = n.post
  BY <1>1, <1>2 DEF Rematch, Send, Transition, ClearBoards, CalmRenderer, Fields
<1>4. c.out \in Seq(ToHost)
  BY <1>1, <1>2, <1>3
<1>5. ClientStep(n, c)
  <2>1. c.tag \in Lobby /\ n.tag \in Lobby /\ n.tag # "WAITING_CONNECT" /\ c.prev \in Tags
        /\ c.word \in 0 .. 3 /\ c.over \in BOOLEAN /\ c.tag # "WAITING_CONNECT"
    BY <1>1, <1>3 DEF Lobby, Tags
  <2> QED BY <1>1, <1>3, <1>4, <2>1, ClientInLobby
<1> QED BY <1>2, <1>3, <1>5 DEF Says

\* Into a pause, from a screen of the client's own, and out of it.
LEMMA ClientPauses ==
  ASSUME NEW n, ClientOK(n), PlacesByKey(n) \/ CanFire(n), NEW c, c = Transition(n, "PAUSED")
  PROVE  ClientStep(n, c) /\ c.out = n.out
<1>1. DOMAIN n = Fields /\ n.role = Client
  BY ClientFields
<1>2. n.tag \in {"PLACE_SHIPS_P2", "TURN_P2"}
  BY <1>1 DEF PlacesByKey, CanFire, OwnsTurn, Host, Client
<1>3. /\ DOMAIN c = Fields /\ c.tag = "PAUSED" /\ c.prev = n.tag
      /\ c.role = n.role /\ c.single = n.single /\ c.waiting = n.waiting /\ c.over = n.over /\ c.out = n.out
      /\ c.p1 = n.p1 /\ c.p2 = n.p2 /\ c.word = n.word /\ c.idx = n.idx
      /\ c.secs = n.secs /\ c.cticks = n.cticks /\ c.post = n.post
  BY <1>1 DEF Transition, Fields
<1>4. Screen(c) = Screen(n)
  BY <1>2, <1>3 DEF Screen
<1>5. ClientStep(n, c)
  BY <1>2, <1>3, <1>4, ClientFields, ClientStays DEF Tags
<1> QED BY <1>3, <1>5

\* What is chosen in the pause menu.
LEMMA ClientResumes ==
  ASSUME NEW n, ClientOK(n), n.tag = "PAUSED", NEW option \in 0 .. 1, NEW c, c = PauseChoose(n, option)
  PROVE  ClientStep(n, c) /\ Says(n, c, {"QUIT"})
<1>1. DOMAIN n = Fields /\ n.role = Client /\ n.prev \in {"PLACE_SHIPS_P2", "TURN_P2"}
  BY ClientFields
<1>2. CASE option = 0
  <2>1. /\ DOMAIN c = Fields /\ c.tag = n.prev /\ c.prev = n.tag
        /\ c.role = n.role /\ c.single = n.single /\ c.waiting = n.waiting /\ c.over = n.over /\ c.out = n.out
        /\ c.p1 = n.p1 /\ c.p2 = n.p2 /\ c.word = n.word /\ c.idx = n.idx
        /\ c.secs = n.secs /\ c.cticks = n.cticks /\ c.post = n.post
    BY <1>1, <1>2 DEF PauseChoose, Transition, Fields
  <2>2. Screen(c) = Screen(n)
    BY <1>1, <2>1 DEF Screen
  <2>3. ClientStep(n, c)
    BY <1>1, <2>1, <2>2, ClientFields, ClientStays DEF Tags
  <2> QED BY <2>1, <2>3 DEF Says
<1>3. CASE option # 0
  <2>1. c = Quit(n)
    BY <1>3 DEF PauseChoose
  <2> QED BY <2>1, ClientQuits
<1> QED BY <1>2, <1>3

\* A move in it.
LEMMA ClientArrows ==
  ASSUME NEW n, ClientOK(n), n.tag = "PAUSED", NEW c, c = Arrow(n, "down")
  PROVE  ClientStep(n, c) /\ c.out = n.out
<1>1. DOMAIN n = Fields /\ n.word \in 0 .. 3
  BY ClientFields
<1>2. c = [n EXCEPT !.word = (n.word + 1) % 2]
  BY DEF Arrow
<1>3. /\ DOMAIN c = Fields /\ c.tag = n.tag /\ c.prev = n.prev
      /\ c.role = n.role /\ c.single = n.single /\ c.waiting = n.waiting /\ c.over = n.over /\ c.out = n.out
      /\ c.p1 = n.p1 /\ c.p2 = n.p2 /\ c.word = (n.word + 1) % 2 /\ c.idx = n.idx
      /\ c.secs = n.secs /\ c.cticks = n.cticks /\ c.post = n.post
  BY <1>1, <1>2 DEF Fields
<1>4. c.word \in 0 .. 3
  BY <1>1, <1>3
<1>5. Screen(c) = Screen(n)
  BY <1>3 DEF Screen
<1>6. ClientStep(n, c)
  BY <1>3, <1>4, <1>5, ClientFields, ClientStays
<1> QED BY <1>3, <1>6

\* The client only asks for its shot.
LEMMA ClientFires ==
  ASSUME NEW n, ClientOK(n), NEW x \in Cells, NEW c, c = FireAt(n, x)
  PROVE  ClientStep(n, c) /\ Says(n, c, {"ATTACK"})
<1>1. DOMAIN n = Fields /\ n.role = Client /\ n.out \in Seq(ToHost)
  BY ClientFields
<1>2. CASE AlreadyAttacked(Target(n), x)
  <2>1. c = n
    BY <1>2 DEF FireAt
  <2> QED BY <2>1 DEF ClientStep, Says
<1>3. CASE ~AlreadyAttacked(Target(n), x)
  <2>1. PICK msg : msg = [type |-> "ATTACK", cell |-> x] /\ msg.type = "ATTACK" /\ msg \in ToHost
    <3>1. [type |-> "ATTACK", cell |-> x].type = "ATTACK"
      OBVIOUS
    <3>2. [type |-> "ATTACK", cell |-> x] \in ToHost
      BY DEF ToHost
    <3> QED BY <3>1, <3>2, Zenon
  <2>2. c = Send(Explode(n, x, FALSE), msg)
    BY <1>1, <1>3, <2>1 DEF FireAt, Host, Client
  <2>3. /\ DOMAIN c = Fields /\ c.tag = n.tag /\ c.prev = n.prev
        /\ c.role = n.role /\ c.single = n.single /\ c.waiting = n.waiting /\ c.over = n.over
        /\ c.out = Append(n.out, msg)
        /\ c.p1 = n.p1 /\ c.p2 = n.p2 /\ c.word = n.word /\ c.idx = n.idx
        /\ c.secs = n.secs /\ c.cticks = n.cticks /\ c.post = n.post
    BY <1>1, <2>2 DEF Send, Explode, Fields
  <2>4. c.out \in Seq(ToHost) /\ Screen(c) = Screen(n)
    BY <1>1, <2>1, <2>3 DEF Screen
  <2>5. ClientStep(n, c)
    BY <2>3, <2>4, ClientFields, ClientStays
  <2> QED BY <2>1, <2>3, <2>5 DEF Says
<1> QED BY <1>2, <1>3

\* The client says hello.
LEMMA ClientGreets ==
  ASSUME NEW n, ClientOK(n), NEW c, c = Send(n, [type |-> "HELLO"])
  PROVE  ClientStep(n, c) /\ c.out = Append(n.out, [type |-> "HELLO"]) /\ [type |-> "HELLO"] \in ToHost
<1>1. DOMAIN n = Fields /\ n.out \in Seq(ToHost)
  BY ClientFields
<1>2. PICK msg \in ToHost : msg = [type |-> "HELLO"]
  BY DEF ToHost
<1>3. /\ DOMAIN c = Fields /\ c.tag = n.tag /\ c.prev = n.prev
      /\ c.role = n.role /\ c.single = n.single /\ c.waiting = n.waiting /\ c.over = n.over
      /\ c.out = Append(n.out, msg)
      /\ c.p1 = n.p1 /\ c.p2 = n.p2 /\ c.word = n.word /\ c.idx = n.idx
      /\ c.secs = n.secs /\ c.cticks = n.cticks /\ c.post = n.post
  BY <1>1, <1>2 DEF Send, Fields
<1>4. c.out \in Seq(ToHost) /\ Screen(c) = Screen(n)
  BY <1>1, <1>2, <1>3 DEF Screen
<1>5. ClientStep(n, c)
  BY <1>3, <1>4, ClientFields, ClientStays
<1> QED BY <1>2, <1>3, <1>5

\* A tick of the client only moves its animation.
LEMMA ClientTicks ==
  ASSUME NEW n, ClientOK(n), NEW c \in Tick(n)
  PROVE  c = Animate(n) /\ ClientStep(n, c) /\ c.out = n.out
<1>1. DOMAIN n = Fields /\ n.role = Client /\ n.single = FALSE /\ n.role # Host
  BY ClientFields DEF Host, Client
<1>2. Countdown(n) = n /\ Result(n) = n /\ PostAttack(n) = n /\ Handover(n) = n /\ BotPlays(n) = {n}
  BY <1>1 DEF Countdown, Result, PostAttack, Handover, BotPlays
<1>3. c = Animate(n)
  <2>1. \A e : e \in Then(Then({n}, Countdown), Result) => e = n
    BY <1>2 DEF Then
  <2> QED BY <1>2, <2>1 DEF Tick, Then
<1>4. CASE c = n
  BY <1>3, <1>4 DEF ClientStep
<1>5. CASE Keeps(n, c, {"expl", "eticks", "done"})
  <2>1. /\ DOMAIN c = Fields /\ c.tag = n.tag /\ c.prev = n.prev
        /\ c.role = n.role /\ c.single = n.single /\ c.waiting = n.waiting /\ c.over = n.over /\ c.out = n.out
        /\ c.p1 = n.p1 /\ c.p2 = n.p2 /\ c.word = n.word /\ c.idx = n.idx
        /\ c.secs = n.secs /\ c.cticks = n.cticks /\ c.post = n.post
    BY <1>5 DEF Keeps, Fields
  <2>2. Screen(c) = Screen(n)
    BY <2>1 DEF Screen
  <2> QED BY <1>3, <2>1, <2>2, ClientFields, ClientStays
<1> QED BY <1>1, <1>3, <1>4, <1>5, AnimateDoes

\* The client puts a ship on its board and tells the host; the last one completes the
\* fleet.
Placed(n, c, ship) ==
  /\ ship \in ToHost /\ ship.type = "SHIP"
  /\ CanPlace(n.p2, ship.cells) /\ Len(n.p2.ships) < NumShips
  /\ ship.size \in Nat \ {0} /\ Cardinality(ship.cells) = ship.size
  /\ ClientOK(c) /\ ClientAt(c) = "PLACE_SHIPS_WAITING"
  /\ c.p1 = n.p1 /\ c.p2 = PlaceShip(n.p2, ship.cells, ship.size)
  /\ \/ c.out = Append(n.out, ship)
     \/ c.tag = "PLACE_SHIPS_WAITING" /\ c.out = Append(Append(n.out, ship), [type |-> "DONE"])

\* What that does to the fields.
LEMMA ClientPutDoes ==
  ASSUME NEW n, ClientOK(n), n.tag = "PLACE_SHIPS_P2", NEW cells, CanPlace(n.p2, cells),
         NEW size, size = ShipSizes[n.idx + 1],
         NEW board, board = PlaceShip(n.p2, cells, size),
         NEW ship, ship = [type |-> "SHIP", cells |-> cells, size |-> size],
         NEW c, c = PutShip(n, cells)
  PROVE  \/ /\ ~(Len(board.ships) >= NumShips)
            /\ Keeps(n, c, {"p2", "idx", "out"})
            /\ c.p2 = board /\ c.idx = n.idx + 1 /\ c.out = Append(n.out, ship)
         \/ /\ Len(board.ships) >= NumShips
            /\ Keeps(n, c, {"p2", "tag", "prev", "clicked", "out"})
            /\ c.p2 = board /\ c.tag = "PLACE_SHIPS_WAITING" /\ c.prev = n.tag
            /\ c.out = Append(Append(n.out, ship), [type |-> "DONE"])
<1>1. DOMAIN n = Fields /\ n.role = Client
  BY ClientFields
<1>2. PICK onto : onto = [n EXCEPT !.p2 = board]
  OBVIOUS
<1>3. /\ DOMAIN onto = Fields /\ onto.p2 = board /\ \A f \in Fields \ {"p2"} : onto[f] = n[f]
      /\ onto.role = Client
  BY <1>1, <1>2 DEF Fields
<1>4. PICK told : told = Send(onto, ship)
  OBVIOUS
<1>5. /\ DOMAIN told = Fields /\ told.p2 = board /\ \A f \in Fields \ {"p2", "out"} : told[f] = n[f]
      /\ told.out = Append(n.out, ship)
  BY <1>3, <1>4 DEF Send, Fields
<1>6. PlacedOn(n) = n.p2
  BY DEF PlacedOn
<1>7. MirrorShip(onto, [cells |-> cells, size |-> size]) = told
  <2>1. PICK s : s = [cells |-> cells, size |-> size]
    OBVIOUS
  <2>2. s.cells = cells /\ s.size = size
    BY <2>1
  <2>3. MirrorShip(onto, s) = Send(onto, [type |-> "SHIP", cells |-> s.cells, size |-> s.size])
    BY <1>3 DEF MirrorShip
  <2> QED BY <1>4, <2>1, <2>2, <2>3
<1>8. c = IF Len(board.ships) >= NumShips THEN FleetPlaced(told) ELSE [told EXCEPT !.idx = told.idx + 1]
  BY <1>2, <1>6, <1>7 DEF PutShip
<1>9. CASE Len(board.ships) >= NumShips
  <2>1. PICK done : done = [type |-> "DONE"]
    OBVIOUS
  <2>2. c = Send(Transition(told, "PLACE_SHIPS_WAITING"), done)
    <3>1. told.tag = "PLACE_SHIPS_P2"
      BY <1>5 DEF Fields
    <3> QED BY <1>8, <1>9, <2>1, <3>1 DEF FleetPlaced
  <2>3. /\ DOMAIN c = Fields /\ \A f \in Fields \ {"tag", "prev", "clicked", "out"} : c[f] = told[f]
        /\ c.tag = "PLACE_SHIPS_WAITING" /\ c.prev = told.tag /\ c.out = Append(told.out, done)
    BY <1>5, <2>2 DEF Send, Transition, Fields
  <2>4. Keeps(n, c, {"p2", "tag", "prev", "clicked", "out"}) /\ c.p2 = board /\ c.prev = n.tag
    BY <1>5, <2>3 DEF Keeps, Fields
  <2> QED BY <1>5, <1>9, <2>1, <2>3, <2>4
<1>10. CASE ~(Len(board.ships) >= NumShips)
  <2>1. c = [told EXCEPT !.idx = told.idx + 1]
    BY <1>8, <1>10
  <2>2. DOMAIN c = Fields /\ (\A f \in Fields \ {"idx"} : c[f] = told[f]) /\ c.idx = told.idx + 1
    BY <1>5, <2>1 DEF Fields
  <2>3. Keeps(n, c, {"p2", "idx", "out"}) /\ c.p2 = board /\ c.idx = n.idx + 1 /\ c.out = told.out
    BY <1>5, <2>2 DEF Keeps, Fields
  <2> QED BY <1>5, <1>10, <2>3
<1> QED BY <1>9, <1>10

\* A ship where it fits, or nothing.
LEMMA ClientPlaces ==
  ASSUME NEW n, ClientOK(n), n.tag = "PLACE_SHIPS_P2", NEW cells \in Footprints(ShipSizes[n.idx + 1]),
         NEW c, c = PutShip(n, cells)
  PROVE  c = n \/ \E ship : Placed(n, c, ship)
<1>1. /\ DOMAIN n = Fields /\ n.out \in Seq(ToHost) /\ ClientShape(n) /\ Ranges(n)
      /\ n.role = Client /\ n.single = FALSE /\ n.waiting = FALSE /\ n.over \in BOOLEAN /\ BoardType(n.p1)
  BY ClientFields DEF ClientOK
<1>2. /\ Screen(n) = n.tag /\ n.idx = Len(n.p2.ships) /\ n.idx < NumShips /\ n.p1 = EmptyBoard
      /\ ClientAt(n) = "PLACE_SHIPS_WAITING" /\ Good(n.p2)
  <2>1. Screen(n) = n.tag
    BY DEF Screen
  <2>2. n.idx = Len(n.p2.ships) /\ n.idx < NumShips /\ n.p1 = EmptyBoard
    BY <2>1 DEF ClientOK, ClientScreens
  <2>3. ClientAt(n) = "PLACE_SHIPS_WAITING"
    BY <2>1, <2>2 DEF ClientAt, Lobby, EmptyBoard
  <2> QED BY <2>1, <2>2, <2>3 DEF ClientOK, ClientScreens
<1>3. PICK size : size = ShipSizes[n.idx + 1]
  OBVIOUS
<1>4. n.idx \in Nat /\ NumShips \in Nat /\ size \in Nat \ {0} /\ Cardinality(cells) = size
  <2>1. n.idx \in Nat
    BY <1>1, <1>2, RecordFields DEF Good
  <2>2. n.idx + 1 \in 1 .. NumShips
    BY <1>2, <2>1, NumShipsType
  <2> QED BY <1>3, <2>1, <2>2, NumShipsType, FootprintSize
<1>5. CASE ~CanPlace(n.p2, cells)
  BY <1>5 DEF PutShip, PlacedOn
<1>6. CASE CanPlace(n.p2, cells)
  <2>1. PICK board : board = PlaceShip(n.p2, cells, size)
    OBVIOUS
  <2>2. PICK ship : ship = [type |-> "SHIP", cells |-> cells, size |-> size]
    OBVIOUS
  <2>3. ship \in ToHost /\ ship.type = "SHIP" /\ ship.cells = cells /\ ship.size = size
    <3>1. cells \in SUBSET Cells
      BY <1>6 DEF CanPlace
    <3>2. [type |-> "SHIP", cells |-> cells, size |-> size] \in ToHost
      BY <1>4, <3>1 DEF ToHost
    <3> QED BY <2>2, <3>2
  <2>4. Good(board) /\ ShotOn(board) = {} /\ Len(board.ships) = n.idx + 1
    BY <1>2, <1>4, <1>6, <2>1, PlacingKeeps
  <2>5. \/ /\ ~(Len(board.ships) >= NumShips)
           /\ Keeps(n, c, {"p2", "idx", "out"})
           /\ c.p2 = board /\ c.idx = n.idx + 1 /\ c.out = Append(n.out, ship)
        \/ /\ Len(board.ships) >= NumShips
           /\ Keeps(n, c, {"p2", "tag", "prev", "clicked", "out"})
           /\ c.p2 = board /\ c.tag = "PLACE_SHIPS_WAITING" /\ c.prev = n.tag
           /\ c.out = Append(Append(n.out, ship), [type |-> "DONE"])
    BY <1>3, <1>6, <2>1, <2>2, ClientPutDoes
  <2>6. ASSUME ClientOK(c), ClientAt(c) = "PLACE_SHIPS_WAITING", c.p1 = n.p1, c.p2 = board,
               \/ c.out = Append(n.out, ship)
               \/ c.tag = "PLACE_SHIPS_WAITING" /\ c.out = Append(Append(n.out, ship), [type |-> "DONE"])
        PROVE  Placed(n, c, ship)
    BY <1>2, <1>4, <1>6, <2>1, <2>3, <2>6 DEF Placed
  <2>7. CASE /\ ~(Len(board.ships) >= NumShips)
             /\ Keeps(n, c, {"p2", "idx", "out"})
             /\ c.p2 = board /\ c.idx = n.idx + 1 /\ c.out = Append(n.out, ship)
    <3>1. /\ DOMAIN c = Fields /\ c.tag = n.tag /\ c.prev = n.prev
          /\ c.role = n.role /\ c.single = n.single /\ c.waiting = n.waiting /\ c.over = n.over
          /\ c.p1 = n.p1 /\ c.word = n.word /\ c.secs = n.secs /\ c.cticks = n.cticks /\ c.post = n.post
      BY <2>7 DEF Keeps, Fields
    <3>2. Screen(c) = c.tag
      BY <3>1 DEF Screen
    <3>3. ClientAt(c) = "PLACE_SHIPS_WAITING"
      BY <1>2, <3>1, <3>2 DEF ClientAt, Lobby, EmptyBoard
    <3>4. c.out \in Seq(ToHost)
      BY <1>1, <2>3, <2>7
    <3>5. ClientShape(c)
      BY <1>1, <2>4, <2>7, <3>1, <3>4 DEF ClientShape, Good
    <3>6. Ranges(c)
      BY <1>1, <3>1 DEF Ranges
    <3>7. c.idx = Len(c.p2.ships) /\ c.idx < NumShips
      BY <1>4, <2>4, <2>7
    <3>8. ClientScreens(c)
      BY <1>2, <2>4, <2>7, <3>1, <3>2, <3>7 DEF ClientScreens
    <3> QED BY <2>6, <2>7, <3>1, <3>3, <3>5, <3>6, <3>8 DEF ClientOK
  <2>8. CASE /\ Len(board.ships) >= NumShips
             /\ Keeps(n, c, {"p2", "tag", "prev", "clicked", "out"})
             /\ c.p2 = board /\ c.tag = "PLACE_SHIPS_WAITING" /\ c.prev = n.tag
             /\ c.out = Append(Append(n.out, ship), [type |-> "DONE"])
    <3>1. /\ DOMAIN c = Fields
          /\ c.role = n.role /\ c.single = n.single /\ c.waiting = n.waiting /\ c.over = n.over
          /\ c.p1 = n.p1 /\ c.word = n.word /\ c.secs = n.secs /\ c.cticks = n.cticks /\ c.post = n.post
      BY <2>8 DEF Keeps, Fields
    <3>2. Screen(c) = c.tag
      BY <2>8 DEF Screen
    <3>3. ClientAt(c) = "PLACE_SHIPS_WAITING"
      BY <1>2, <2>8, <3>1, <3>2 DEF ClientAt, Lobby, EmptyBoard
    <3>4. c.out \in Seq(ToHost)
      <4>1. [type |-> "DONE"] \in ToHost
        BY DEF ToHost
      <4>2. PICK done \in ToHost : done = [type |-> "DONE"]
        BY <4>1
      <4>3. PICK q \in Seq(ToHost) : q = Append(n.out, ship)
        <5>1. Append(n.out, ship) \in Seq(ToHost)
          BY <1>1, <2>3, AppendProperties
        <5> QED BY <5>1, Zenon
      <4>4. c.out = Append(q, done)
        BY <2>8, <4>2, <4>3
      <4> HIDE <4>2, <4>3
      <4> QED BY <4>4
    <3>5. ClientShape(c)
      BY <1>1, <2>4, <2>8, <3>1, <3>4 DEF ClientShape, Good
    <3>6. Ranges(c)
      BY <1>1, <2>8, <3>1 DEF Ranges, Tags
    <3>7. Len(c.p2.ships) = NumShips
      BY <1>2, <1>4, <2>4, <2>8
    <3>8. ClientScreens(c)
      BY <1>2, <2>4, <2>8, <3>1, <3>2, <3>7 DEF ClientScreens
    <3> QED BY <2>6, <2>8, <3>1, <3>3, <3>5, <3>6, <3>8 DEF ClientOK
  <2> QED BY <2>5, <2>7, <2>8
<1> QED BY <1>5, <1>6

----------------------------------------------------------------------------
(* The client is told                                                      *)

\* Where the client can be on each of its screens.
LEMMA ClientWhere ==
  ASSUME NEW n, ClientOK(n)
  PROVE  /\ Copy(n).at = ClientAt(n) /\ ClientAt(n) # "left"
         /\ ClientAt(n) = "lobby" => n.tag \in Lobby /\ Copy(n) = Idle("lobby")
         /\ ClientAt(n) # "lobby" =>
              n.tag \notin Lobby /\ Copy(n) = Copied(ClientAt(n), n.p1, n.p2) /\ Copy(n).b1 = n.p1 /\ Copy(n).b2 = n.p2
         /\ ClientAt(n) \in {"PLACE_SHIPS_P1", "COUNTDOWN", "TURN_P1", "HANDOVER_P1", "HANDOVER_P2"} =>
              n.tag = ClientAt(n)
         /\ ClientAt(n) = "TURN_P2" => n.tag = "TURN_P2" \/ (n.tag = "PAUSED" /\ n.prev = "TURN_P2")
         /\ ClientAt(n) = "SHOWING" => n.tag = "PLACE_SHIPS_WAITING" /\ Len(n.p2.ships) = NumShips
         /\ ClientAt(n) = "PLACE_SHIPS_WAITING" => n.p1 = EmptyBoard
                                                   /\ (Len(n.p2.ships) = NumShips => n.tag = "PLACE_SHIPS_WAITING")
         /\ n.tag \in {"WAITING_CONNECT", "PLACE_SHIPS_P1"} => Blank(n)
<1>1. n.tag = "PAUSED" => n.prev \in {"PLACE_SHIPS_P2", "TURN_P2"}
  BY ClientFields
<1>2. n.tag \in Tags /\ n.tag # "left" /\ n.tag # "SHOWING"
  BY ClientFields DEF Tags
<1>3. Copy(n).at = ClientAt(n) /\ (ClientAt(n) = "lobby" => Copy(n) = Idle("lobby"))
      /\ (ClientAt(n) # "lobby" => Copy(n) = Copied(ClientAt(n), n.p1, n.p2) /\ Copy(n).b1 = n.p1 /\ Copy(n).b2 = n.p2)
  BY DEF Copy, Idle, Copied
<1>4. ClientAt(n) # "left"
  BY <1>1, <1>2 DEF ClientAt, Screen
<1>5. (ClientAt(n) = "lobby" => n.tag \in Lobby) /\ (ClientAt(n) # "lobby" => n.tag \notin Lobby)
  BY <1>1, <1>2 DEF ClientAt, Screen, Lobby, Tags
<1>6. ClientAt(n) \in {"PLACE_SHIPS_P1", "COUNTDOWN", "TURN_P1", "HANDOVER_P1", "HANDOVER_P2"} => n.tag = ClientAt(n)
  BY <1>1 DEF ClientAt, Screen
<1>7. ClientAt(n) = "TURN_P2" => n.tag = "TURN_P2" \/ (n.tag = "PAUSED" /\ n.prev = "TURN_P2")
  BY DEF ClientAt, Screen
<1>8. n.p1 = EmptyBoard => n.p1.ships = << >>
  BY DEF EmptyBoard
<1>9. /\ Screen(n) = "PLACE_SHIPS_P2" => n.idx = Len(n.p2.ships) /\ n.idx < NumShips /\ n.p1 = EmptyBoard
      /\ n.tag = "PLACE_SHIPS_WAITING" => Len(n.p2.ships) = NumShips
      /\ ClientAt(n) = "PLACE_SHIPS_WAITING" => n.p1 = EmptyBoard
      /\ n.tag \in {"WAITING_CONNECT", "PLACE_SHIPS_P1"} => Blank(n)
  BY DEF ClientOK, ClientScreens
<1>10. ClientAt(n) = "SHOWING" => n.tag = "PLACE_SHIPS_WAITING" /\ Len(n.p2.ships) = NumShips
  BY <1>1, <1>2, <1>8, <1>9 DEF ClientAt, Screen
<1>11. ClientAt(n) = "PLACE_SHIPS_WAITING" /\ Len(n.p2.ships) = NumShips => n.tag = "PLACE_SHIPS_WAITING"
  <2> SUFFICES ASSUME ClientAt(n) = "PLACE_SHIPS_WAITING", Len(n.p2.ships) = NumShips
               PROVE  n.tag = "PLACE_SHIPS_WAITING"
    OBVIOUS
  <2>1. Screen(n) # "PLACE_SHIPS_P2"
    BY <1>9, NumShipsType
  <2>2. Screen(n) = "PLACE_SHIPS_WAITING"
    BY <2>1 DEF ClientAt
  <2> QED BY <1>1, <2>2 DEF Screen
<1> QED BY <1>3, <1>4, <1>5, <1>6, <1>7, <1>9, <1>10, <1>11, Zenon

\* The client is where the message leads, the end of a game being the lobby.
Arrives(n, c, l) ==
  /\ ClientOK(c) /\ c.out = n.out
  /\ Copy(c) = IF l.at = "left" THEN Idle("lobby") ELSE l
  /\ n.tag = "WAITING_CONNECT" /\ ClientAt(c) = "lobby" => c.tag = n.tag

\* A message that only changes what is on its screen.
LEMMA ArrivesThere ==
  ASSUME NEW n, ClientOK(n), NEW c, DOMAIN c = Fields,
         \A f \in Fields \ {"word", "secs", "over", "connected"} : c[f] = n[f],
         c.over \in BOOLEAN, c.word \in 0 .. 3, c.secs \in 0 .. CountdownStart
  PROVE  Arrives(n, c, Copy(n)) /\ ClientStep(n, c)
<1>1. /\ c.role = n.role /\ c.single = n.single /\ c.waiting = n.waiting /\ c.out = n.out
      /\ c.p1 = n.p1 /\ c.p2 = n.p2 /\ c.tag = n.tag /\ c.prev = n.prev /\ c.idx = n.idx
      /\ c.cticks = n.cticks /\ c.post = n.post
  BY DEF Fields
<1>2. Screen(c) = Screen(n) /\ ClientAt(c) = ClientAt(n)
  BY <1>1 DEF Screen, ClientAt
<1>3. Copy(c) = Copy(n)
  BY <1>1, <1>2 DEF Copy
<1>4. ClientOK(c)
  <2>1. ClientShape(c)
    BY <1>1, ClientFields DEF ClientShape
  <2>2. Ranges(c)
    BY <1>1 DEF ClientOK, Ranges
  <2>3. ClientScreens(c)
    BY <1>1, <1>2 DEF ClientOK, ClientScreens, Blank
  <2> QED BY <2>1, <2>2, <2>3 DEF ClientOK
<1>5. Copy(n).at # "left"
  BY ClientWhere
<1> QED BY <1>1, <1>3, <1>4, <1>5 DEF Arrives, ClientStep

\* Its boards are told of a shot, on the screen of a turn.
LEMMA ArrivesShot ==
  ASSUME NEW n, ClientOK(n), NEW c, DOMAIN c = Fields, ClientAt(n) \in Turns,
         \A f \in Fields \ {"p1", "p2", "expl", "eticks", "done", "at", "ishit"} : c[f] = n[f],
         BoardType(c.p1), BoardType(c.p2)
  PROVE  Arrives(n, c, Copied(ClientAt(n), c.p1, c.p2))
<1>1. /\ c.role = n.role /\ c.single = n.single /\ c.waiting = n.waiting /\ c.out = n.out
      /\ c.tag = n.tag /\ c.prev = n.prev /\ c.idx = n.idx /\ c.over = n.over /\ c.word = n.word
      /\ c.secs = n.secs /\ c.cticks = n.cticks /\ c.post = n.post
  BY DEF Fields
<1>2. n.tag \in Turns \/ (n.tag = "PAUSED" /\ n.prev = "TURN_P2")
  BY ClientWhere DEF Turns
<1>3. Screen(c) = Screen(n) /\ Screen(n) \in Turns
  BY <1>1, <1>2 DEF Screen, Turns
<1>4. ClientAt(c) = ClientAt(n) /\ ClientAt(c) \in Turns
  BY <1>3 DEF ClientAt, Turns, Lobby
<1>5. Copy(c) = Copied(ClientAt(n), c.p1, c.p2)
  BY <1>4 DEF Copy, Turns
<1>6. ClientOK(c)
  <2>1. ClientShape(c)
    BY <1>1, ClientFields DEF ClientShape
  <2>2. Ranges(c)
    BY <1>1 DEF ClientOK, Ranges
  <2>3. ClientScreens(c)
    BY <1>1, <1>2, <1>3, <1>4 DEF ClientScreens, Turns
  <2> QED BY <2>1, <2>2, <2>3 DEF ClientOK
<1>7. Copied(ClientAt(n), c.p1, c.p2).at # "left"
  BY <1>4 DEF Copied, Turns
<1>8. n.tag # "WAITING_CONNECT"
  BY <1>2 DEF Turns
<1> QED BY <1>1, <1>5, <1>6, <1>7, <1>8 DEF Arrives

\* A message of the handshake, of the countdown or of the winner.
LEMMA HearsWord ==
  ASSUME NEW n, ClientOK(n), NEW msg \in ToClient, msg.type \in {"HELLO_ACK", "SECONDS", "WINNER"},
         NEW c, c = ClientReceives(n, msg)
  PROVE  Arrives(n, c, Copy(n))
<1>1. DOMAIN n = Fields /\ n.over \in BOOLEAN /\ n.word \in 0 .. 3 /\ n.secs \in 0 .. CountdownStart
  BY ClientFields DEF ClientOK, Ranges
<1>2. CASE msg.type = "HELLO_ACK"
  <2>1. c = [n EXCEPT !.connected = TRUE]
    BY <1>2 DEF ClientReceives
  <2>2. DOMAIN c = Fields /\ (\A f \in Fields \ {"connected"} : c[f] = n[f])
    BY <1>1, <2>1 DEF Fields
  <2>3. c.over = n.over /\ c.word = n.word /\ c.secs = n.secs
    BY <2>2 DEF Fields
  <2> QED BY <1>1, <2>2, <2>3, ArrivesThere
<1>3. CASE msg.type = "SECONDS"
  <2>1. c = [n EXCEPT !.secs = msg.secs] /\ msg.secs \in 0 .. CountdownStart
    BY <1>3 DEF ClientReceives, ToClient
  <2>2. DOMAIN c = Fields /\ (\A f \in Fields \ {"secs"} : c[f] = n[f]) /\ c.secs = msg.secs
    BY <1>1, <2>1 DEF Fields
  <2>3. c.over = n.over /\ c.word = n.word
    BY <2>2 DEF Fields
  <2> QED BY <1>1, <2>1, <2>2, <2>3, ArrivesThere
<1>4. CASE msg.type = "WINNER"
  <2>1. c = [n EXCEPT !.word = msg.winner] /\ msg.winner \in 0 .. 3
    BY <1>4 DEF ClientReceives, ToClient
  <2>2. DOMAIN c = Fields /\ (\A f \in Fields \ {"word"} : c[f] = n[f]) /\ c.word = msg.winner
    BY <1>1, <2>1 DEF Fields
  <2>3. c.over = n.over /\ c.secs = n.secs
    BY <2>2 DEF Fields
  <2> QED BY <1>1, <2>1, <2>2, <2>3, ArrivesThere
<1> QED BY <1>2, <1>3, <1>4

\* The host leaves.
LEMMA HearsExit ==
  ASSUME NEW n, ClientOK(n), NEW msg, msg.type = "STATE", msg.state = "EXIT",
         NEW c, c = ClientReceives(n, msg)
  PROVE  Arrives(n, c, Copy(n)) /\ ClientStep(n, c) /\ c.over = TRUE
<1>1. DOMAIN n = Fields /\ n.word \in 0 .. 3 /\ n.secs \in 0 .. CountdownStart
  BY ClientFields DEF ClientOK, Ranges
<1>2. c = [n EXCEPT !.over = TRUE]
  BY DEF ClientReceives, Follow
<1>3. DOMAIN c = Fields /\ (\A f \in Fields \ {"over"} : c[f] = n[f]) /\ c.over = TRUE
  BY <1>1, <1>2 DEF Fields
<1>4. c.word = n.word /\ c.secs = n.secs
  BY <1>3 DEF Fields
<1> QED BY <1>1, <1>3, <1>4, ArrivesThere

\* The result of a shot.
LEMMA HearsResult ==
  ASSUME NEW n, ClientOK(n), ClientAt(n) \in Turns, NEW msg \in ToClient, msg.type = "RESULT",
         NEW l, Hop(Copy(n), msg, l), NEW c, c = ClientReceives(n, msg)
  PROVE  Arrives(n, c, l)
<1>1. /\ DOMAIN n = Fields /\ BoardType(n.p1) /\ BoardType(n.p2) /\ msg.cell \in Cells /\ msg.result \in Results
      /\ ClientAt(n) # "lobby" /\ Copy(n).at = ClientAt(n) /\ Copy(n).b1 = n.p1 /\ Copy(n).b2 = n.p2
  BY ClientFields, ClientWhere DEF ToClient, Turns, Results
<1>2. PICK x, r : x = msg.cell /\ r = msg.result
  OBVIOUS
<1>3. c = ReceiveResult(n, x, r)
  BY <1>2 DEF ClientReceives
<1>4. CASE ClientAt(n) = "TURN_P1"
  <2>1. n.tag = "TURN_P1"
    BY <1>4, ClientWhere
  <2>2. PICK b : b = MirrorAttack(n.p2, x, r)
    OBVIOUS
  <2>3. PICK h : h = (r # "miss")
    OBVIOUS
  <2>4. c = Explode([n EXCEPT !.p2 = b], x, h)
    BY <1>3, <2>1, <2>2, <2>3 DEF ReceiveResult, SetTarget, Target
  <2>5. /\ DOMAIN c = Fields /\ c.p2 = b
        /\ \A f \in Fields \ {"p2", "expl", "eticks", "done", "at", "ishit"} : c[f] = n[f]
    BY <1>1, <2>4 DEF Explode, Fields
  <2>6. c.p1 = n.p1 /\ BoardType(c.p2)
    BY <1>1, <1>2, <2>2, <2>5, MirrorKeeps DEF Fields
  <2>7. l = Copied(ClientAt(n), c.p1, c.p2)
    BY <1>1, <1>2, <1>4, <2>2, <2>5, <2>6 DEF Hop
  <2> QED BY <1>1, <2>5, <2>6, <2>7, ArrivesShot
<1>5. CASE ClientAt(n) = "TURN_P2"
  <2>1. n.tag # "TURN_P1"
    BY <1>5, ClientWhere
  <2>2. PICK b : b = MirrorAttack(n.p1, x, r)
    OBVIOUS
  <2>4. c = [n EXCEPT !.p1 = b]
    BY <1>3, <2>1, <2>2 DEF ReceiveResult, SetTarget, Target
  <2>5. /\ DOMAIN c = Fields /\ c.p1 = b
        /\ \A f \in Fields \ {"p1"} : c[f] = n[f]
    BY <1>1, <2>4 DEF Fields
  <2>6. c.p2 = n.p2 /\ BoardType(c.p1)
    BY <1>1, <1>2, <2>2, <2>5, MirrorKeeps DEF Fields
  <2>7. l = Copied(ClientAt(n), c.p1, c.p2)
    BY <1>1, <1>2, <1>5, <2>2, <2>5, <2>6 DEF Hop
  <2> QED BY <1>1, <2>5, <2>6, <2>7, ArrivesShot
<1> QED BY <1>4, <1>5 DEF Turns

\* A ship of the host's fleet.
LEMMA HearsShip ==
  ASSUME NEW n, ClientOK(n), NEW msg \in ToClient, msg.type = "SHIP",
         NEW l, Hop(Copy(n), msg, l), NEW c, c = ClientReceives(n, msg)
  PROVE  Arrives(n, c, l)
<1>1. /\ DOMAIN n = Fields /\ BoardType(n.p1) /\ BoardType(n.p2) /\ msg.cells \in SUBSET Cells
      /\ msg.size \in Nat \ {0}
  BY ClientFields DEF ToClient
<1>2. /\ Copy(n).at \in {"PLACE_SHIPS_WAITING", "SHOWING"}
      /\ Len(Copy(n).b2.ships) = NumShips /\ Len(Copy(n).b1.ships) < NumShips
      /\ l = Copied("SHOWING", PlaceShip(Copy(n).b1, msg.cells, msg.size), Copy(n).b2)
  BY DEF Hop
<1>3. ClientAt(n) \in {"PLACE_SHIPS_WAITING", "SHOWING"} /\ Copy(n).b1 = n.p1 /\ Copy(n).b2 = n.p2
  BY <1>2, ClientWhere
<1>4. n.tag = "PLACE_SHIPS_WAITING"
  BY <1>2, <1>3, ClientWhere
<1>5. PICK b : b = PlaceShip(n.p1, msg.cells, msg.size)
  OBVIOUS
<1>6. c = [n EXCEPT !.p1 = b]
  BY <1>2, <1>3, <1>5 DEF ClientReceives, ReceiveShip
<1>7. DOMAIN c = Fields /\ c.p1 = b /\ \A f \in Fields \ {"p1"} : c[f] = n[f]
  BY <1>1, <1>6 DEF Fields
<1>8. /\ c.role = n.role /\ c.single = n.single /\ c.waiting = n.waiting /\ c.out = n.out
      /\ c.tag = n.tag /\ c.prev = n.prev /\ c.idx = n.idx /\ c.over = n.over /\ c.word = n.word
      /\ c.secs = n.secs /\ c.cticks = n.cticks /\ c.post = n.post /\ c.p2 = n.p2
  BY <1>7 DEF Fields
<1>9. BoardType(b) /\ Len(b.ships) = Len(n.p1.ships) + 1
  BY <1>1, <1>2, <1>3, <1>5, PlacingTypes
<1>10. b.ships # << >>
  <2>1. Len(n.p1.ships) \in Nat
    BY <1>1, RecordFields
  <2> QED BY <1>9, <2>1
<1>11. Screen(c) = "PLACE_SHIPS_WAITING" /\ ClientAt(c) = "SHOWING"
  BY <1>4, <1>7, <1>8, <1>10 DEF Screen, ClientAt, Lobby
<1>12. Copy(c) = l /\ l.at # "left"
  BY <1>2, <1>3, <1>5, <1>7, <1>8, <1>11 DEF Copy, Copied
<1>13. ClientOK(c)
  <2>1. ClientShape(c)
    BY <1>7, <1>8, <1>9, ClientFields DEF ClientShape
  <2>2. Ranges(c)
    BY <1>8 DEF ClientOK, Ranges
  <2>3. ClientScreens(c)
    BY <1>2, <1>3, <1>4, <1>8, <1>11 DEF ClientScreens
  <2> QED BY <2>1, <2>2, <2>3 DEF ClientOK
<1> QED BY <1>4, <1>8, <1>12, <1>13 DEF Arrives

\* Back to the menu.
LEMMA HearsMenu ==
  ASSUME NEW n, ClientOK(n), NEW msg, msg.type = "STATE", msg.state = "MAIN_MENU",
         ClientAt(n) = "lobby", NEW c, c = ClientReceives(n, msg)
  PROVE  Arrives(n, c, Copy(n))
<1>1. /\ DOMAIN n = Fields /\ n.tag \in Lobby /\ n.single = FALSE /\ n.over \in BOOLEAN
      /\ n.out \in Seq(ToHost) /\ n.word \in 0 .. 3
      /\ Copy(n) = Idle("lobby") /\ Copy(n).at # "left"
  BY ClientFields, ClientWhere
<1>2. c = Follow(n, "MAIN_MENU")
  BY DEF ClientReceives
<1>3. CASE n.tag = "WAITING_CONNECT"
  <2>1. c = n
    BY <1>2, <1>3 DEF Follow
  <2> QED BY <1>1, <2>1 DEF Arrives
<1>4. CASE n.tag # "WAITING_CONNECT"
  <2>1. PICK e : e = IF n.tag = "GAME_OVER" THEN CalmRenderer(ClearBoards(n)) ELSE n
    OBVIOUS
  <2>2. c = Transition(e, "MAIN_MENU")
    BY <1>2, <1>4, <2>1 DEF Follow
  <2>3. /\ DOMAIN e = Fields /\ e.p1 \in {n.p1, EmptyBoard} /\ e.p2 \in {n.p2, EmptyBoard}
        /\ e.role = n.role /\ e.single = n.single /\ e.waiting = n.waiting /\ e.over = n.over /\ e.out = n.out
        /\ e.word = n.word /\ e.secs = n.secs /\ e.cticks = n.cticks /\ e.post = n.post /\ e.tag = n.tag
    <3>1. CASE n.tag = "GAME_OVER"
      BY <1>1, <2>1, <3>1 DEF CalmRenderer, ClearBoards, Fields
    <3>2. CASE n.tag # "GAME_OVER"
      BY <1>1, <2>1, <3>2
    <3> QED BY <3>1, <3>2
  <2>4. /\ DOMAIN c = Fields /\ c.p1 \in {n.p1, EmptyBoard} /\ c.p2 \in {n.p2, EmptyBoard}
        /\ c.role = n.role /\ c.single = n.single /\ c.waiting = n.waiting /\ c.over = n.over /\ c.out = n.out
        /\ c.word = n.word /\ c.secs = n.secs /\ c.cticks = n.cticks /\ c.post = n.post
        /\ c.tag = "MAIN_MENU" /\ c.prev = n.tag
    BY <2>2, <2>3 DEF Transition, Fields
  <2>5. ClientStep(n, c)
    <3>1. c.tag \in Lobby /\ c.prev \in Tags /\ c.tag # "WAITING_CONNECT"
      BY <1>1, <2>4 DEF Lobby, Tags
    <3> QED BY <1>1, <1>4, <2>4, <3>1, ClientInLobby
  <2> QED BY <1>1, <1>4, <2>4, <2>5 DEF Arrives, ClientStep
<1> QED BY <1>3, <1>4

\* On to another screen with the same boards.
LEMMA ArrivesScreen ==
  ASSUME NEW n, ClientOK(n), n.tag # "WAITING_CONNECT" \/ ClientAt(n) = "lobby",
         NEW next \in Tags \ {"PAUSED", "PLACE_SHIPS_WAITING", "MAIN_MENU"}, NEW c,
         c = (IF next = "PLACE_SHIPS_P2" THEN [Transition(n, next) EXCEPT !.idx = 0] ELSE Transition(n, next)),
         next \in {"WAITING_CONNECT", "PLACE_SHIPS_P1", "PLACE_SHIPS_P2"} => Blank(n)
  PROVE  /\ ClientOK(c) /\ c.out = n.out /\ c.tag = next /\ Screen(c) = next
         /\ c.p1 = n.p1 /\ c.p2 = n.p2
<1>1. DOMAIN n = Fields
  BY ClientFields
<1>2. /\ DOMAIN c = Fields /\ c.tag = next /\ c.prev = n.tag
      /\ c.role = n.role /\ c.single = n.single /\ c.waiting = n.waiting /\ c.over = n.over /\ c.out = n.out
      /\ c.p1 = n.p1 /\ c.p2 = n.p2 /\ c.word = n.word
      /\ c.secs = n.secs /\ c.cticks = n.cticks /\ c.post = n.post
      /\ (next = "PLACE_SHIPS_P2" => c.idx = 0)
  <2>1. PICK e : e = Transition(n, next)
    OBVIOUS
  <2>2. /\ DOMAIN e = Fields /\ e.tag = next /\ e.prev = n.tag
        /\ \A f \in Fields \ {"tag", "prev", "clicked"} : e[f] = n[f]
    BY <1>1, <2>1 DEF Transition, Fields
  <2>3. CASE next = "PLACE_SHIPS_P2"
    <3>1. c = [e EXCEPT !.idx = 0]
      BY <2>1, <2>3
    <3>2. DOMAIN c = Fields /\ c.idx = 0 /\ \A f \in Fields \ {"idx"} : c[f] = e[f]
      BY <2>2, <3>1 DEF Fields
    <3> QED BY <2>2, <3>2 DEF Fields
  <2>4. CASE next # "PLACE_SHIPS_P2"
    BY <2>1, <2>2, <2>4 DEF Fields
  <2> QED BY <2>3, <2>4
<1>3. Screen(c) = next
  BY <1>2 DEF Screen
<1>4. ClientShape(c)
  BY <1>2, ClientFields DEF ClientShape
<1>5. Ranges(c)
  BY <1>2 DEF ClientOK, Ranges
<1>6. ClientScreens(c)
  <2>1. CASE next = "PLACE_SHIPS_P2"
    <3>1. c.p1 = EmptyBoard /\ c.p2 = EmptyBoard /\ c.idx = 0 /\ Len(EmptyBoard.ships) = 0 /\ 0 < NumShips
          /\ Good(EmptyBoard) /\ ShotOn(EmptyBoard) = {}
      BY <1>2, <2>1, EmptyIsGood, NumShipsType DEF Blank
    <3> QED BY <1>2, <1>3, <2>1, <3>1 DEF ClientScreens
  <2>2. CASE next # "PLACE_SHIPS_P2"
    <3>1. next # "PLACE_SHIPS_WAITING" /\ next # "PAUSED"
      OBVIOUS
    <3>2. ClientAt(c) # "PLACE_SHIPS_WAITING"
      BY <1>3, <2>2, <3>1 DEF ClientAt
    <3> QED BY <1>2, <1>3, <2>2, <3>1, <3>2 DEF ClientScreens, Blank
  <2> QED BY <2>1, <2>2
<1> QED BY <1>2, <1>3, <1>4, <1>5, <1>6 DEF ClientOK

\* The host has gone to another screen.
LEMMA HearsState ==
  ASSUME NEW n, ClientOK(n), NEW msg \in ToClient, msg.type = "STATE",
         NEW l, Hop(Copy(n), msg, l), ClientAt(n) = "lobby" /\ l.at # "lobby" => n.tag = "WAITING_CONNECT",
         NEW c, c = ClientReceives(n, msg)
  PROVE  Arrives(n, c, l)
<1>1. PICK s : s = msg.state
  OBVIOUS
<1>2. Leads(Copy(n), s, l)
  BY <1>1 DEF Hop
<1>3. Copy(n).at = ClientAt(n) /\ ClientAt(n) # "left"
  BY ClientWhere
<1>4. CASE s = "EXIT" /\ l = Copy(n)
  BY <1>1, <1>4, HearsExit
<1>5. CASE s = "MAIN_MENU" /\ ClientAt(n) \in {"lobby", "left"} /\ l = Copy(n)
  BY <1>1, <1>3, <1>5, HearsMenu
<1>6. ASSUME s \in Tags \ {"PAUSED", "PLACE_SHIPS_WAITING", "MAIN_MENU"}
      PROVE  c = IF s = "PLACE_SHIPS_P2" THEN [Transition(n, s) EXCEPT !.idx = 0] ELSE Transition(n, s)
  <2>1. c = Follow(n, s)
    BY <1>1 DEF ClientReceives
  <2>2. s # "MAIN_MENU" /\ s # "EXIT"
    BY <1>6 DEF Tags
  <2> QED BY <2>1, <2>2 DEF Follow
<1>7. CASE s = "PLACE_SHIPS_P2" /\ Copy(n).at = "PLACE_SHIPS_P1"
           /\ l = Copied("PLACE_SHIPS_WAITING", Copy(n).b1, Copy(n).b2)
  <2>1. n.tag = "PLACE_SHIPS_P1" /\ Blank(n) /\ Copy(n).b1 = n.p1 /\ Copy(n).b2 = n.p2
    BY <1>3, <1>7, ClientWhere
  <2>2. s \in Tags \ {"PAUSED", "PLACE_SHIPS_WAITING", "MAIN_MENU"}
    BY <1>7 DEF Tags
  <2>3. ClientOK(c) /\ c.out = n.out /\ Screen(c) = s /\ c.p1 = n.p1 /\ c.p2 = n.p2
    BY <1>6, <2>1, <2>2, ArrivesScreen
  <2>4. ClientAt(c) = "PLACE_SHIPS_WAITING"
    BY <1>7, <2>1, <2>3 DEF ClientAt, Lobby, Blank, EmptyBoard
  <2>5. Copy(c) = l /\ l.at # "left"
    BY <1>7, <2>1, <2>3, <2>4 DEF Copy, Copied
  <2> QED BY <2>1, <2>3, <2>5 DEF Arrives
<1>8. CASE s = "GAME_OVER" /\ Copy(n).at \in Turns /\ l = Idle("left")
  <2>1. n.tag # "WAITING_CONNECT"
    BY <1>3, <1>8, ClientWhere DEF Turns, Lobby
  <2>2. s \in Tags \ {"PAUSED", "PLACE_SHIPS_WAITING", "MAIN_MENU"}
    BY <1>8 DEF Tags
  <2>3. ClientOK(c) /\ c.out = n.out /\ Screen(c) = s /\ c.p1 = n.p1 /\ c.p2 = n.p2
    BY <1>6, <1>8, <2>1, <2>2, ArrivesScreen
  <2>4. ClientAt(c) = "lobby"
    BY <1>8, <2>3 DEF ClientAt, Lobby
  <2>5. Copy(c) = Idle("lobby") /\ l.at = "left"
    BY <1>8, <2>4 DEF Copy, Idle, Copied
  <2> QED BY <2>1, <2>3, <2>5 DEF Arrives
<1>9. CASE Copy(n).at \in Gate(s) /\ l = Copied(s, Copy(n).b1, Copy(n).b2)
  <2>1. s \in {"PLACE_SHIPS_P1"} \cup Fighting
    BY <1>9 DEF Gate, Fighting
  <2>2. s \in Tags \ {"PAUSED", "PLACE_SHIPS_WAITING", "MAIN_MENU"} /\ s # "PLACE_SHIPS_P2" /\ s # "WAITING_CONNECT"
        /\ s # "lobby" /\ s # "left" /\ s \notin Lobby
    BY <2>1 DEF Fighting, Tags, Lobby
  <2>3. l.at = s
    BY <1>9 DEF Copied
  <2>4. CASE s = "PLACE_SHIPS_P1"
    <3>1. ClientAt(n) = "lobby"
      BY <1>3, <1>9, <2>4 DEF Gate
    <3>2. Blank(n) /\ Copy(n) = Idle("lobby")
      BY <2>2, <2>3, <3>1, ClientWhere
    <3>3. Copy(n).b1 = n.p1 /\ Copy(n).b2 = n.p2
      BY <3>2 DEF Idle, Copied, Blank
    <3>4. ClientOK(c) /\ c.out = n.out /\ Screen(c) = s /\ c.p1 = n.p1 /\ c.p2 = n.p2
      BY <1>6, <2>2, <3>1, <3>2, ArrivesScreen
    <3>5. ClientAt(c) = s
      BY <2>2, <2>4, <3>4 DEF ClientAt
    <3>6. Copy(c) = l
      BY <1>9, <2>2, <3>3, <3>4, <3>5 DEF Copy
    <3> QED BY <2>2, <2>3, <3>4, <3>5, <3>6 DEF Arrives
  <2>5. CASE s # "PLACE_SHIPS_P1"
    <3>1. ClientAt(n) # "lobby"
      BY <1>3, <1>9, <2>5 DEF Gate
    <3>2. Copy(n).b1 = n.p1 /\ Copy(n).b2 = n.p2 /\ n.tag # "WAITING_CONNECT"
      BY <3>1, ClientWhere DEF Lobby
    <3>4. ClientOK(c) /\ c.out = n.out /\ Screen(c) = s /\ c.p1 = n.p1 /\ c.p2 = n.p2
      BY <1>6, <2>2, <2>5, <3>2, ArrivesScreen
    <3>5. ClientAt(c) = s
      BY <2>2, <3>4 DEF ClientAt
    <3>6. Copy(c) = l
      BY <1>9, <2>2, <3>2, <3>4, <3>5 DEF Copy
    <3> QED BY <2>2, <2>3, <3>2, <3>4, <3>6 DEF Arrives
  <2> QED BY <2>4, <2>5
<1> QED BY <1>2, <1>3, <1>4, <1>5, <1>7, <1>8, <1>9 DEF Leads

\* Every message that the client is ready for.
LEMMA Hears ==
  ASSUME NEW n, ClientOK(n), NEW msg \in ToClient,
         NEW l, Hop(Copy(n), msg, l), ClientAt(n) = "lobby" /\ l.at # "lobby" => n.tag = "WAITING_CONNECT",
         NEW c, c = ClientReceives(n, msg)
  PROVE  Arrives(n, c, l)
<1>1. CASE msg.type \in {"HELLO_ACK", "SECONDS", "WINNER"}
  <2>1. l = Copy(n)
    BY <1>1 DEF Hop
  <2> QED BY <1>1, <2>1, HearsWord
<1>2. CASE msg.type = "STATE"
  BY <1>2, HearsState
<1>3. CASE msg.type = "SHIP"
  BY <1>3, HearsShip
<1>4. CASE msg.type = "RESULT"
  <2>1. ClientAt(n) \in Turns
    BY <1>4, ClientWhere DEF Hop, Turns
  <2> QED BY <1>4, <2>1, HearsResult
<1>5. msg.type \in {"HELLO_ACK", "SECONDS", "WINNER", "STATE", "SHIP", "RESULT"}
  BY DEF ToClient
<1> QED BY <1>1, <1>2, <1>3, <1>4, <1>5

\* A waiting client that goes on waiting was only told that the host left.
LEMMA WaitsOn ==
  ASSUME NEW n, ClientOK(n), ClientAt(n) = "PLACE_SHIPS_WAITING", NEW msg \in ToClient,
         NEW l, Hop(Copy(n), msg, l), Rank(l.at) <= 2
  PROVE  msg = StateMsg("EXIT") /\ l = Copy(n)
<1>1. Copy(n).at = "PLACE_SHIPS_WAITING"
  BY ClientWhere
<1>2. l.at = "PLACE_SHIPS_WAITING" \/ Rank(l.at) <= 2
  OBVIOUS
<1>3. msg.type # "HELLO_ACK" /\ msg.type # "SECONDS" /\ msg.type # "RESULT" /\ msg.type # "WINNER"
  BY <1>1 DEF Hop, Turns
<1>4. msg.type # "SHIP"
  <2>1. msg.type = "SHIP" => l.at = "SHOWING"
    BY <1>1 DEF Hop, Copied, Turns
  <2> QED BY <2>1 DEF Rank
<1>5. msg.type = "STATE" /\ Leads(Copy(n), msg.state, l)
  BY <1>3, <1>4 DEF Hop
<1>6. msg.state = "EXIT" /\ l = Copy(n)
  BY <1>1, <1>5 DEF Leads, Gate, Turns
<1>7. msg = StateMsg("EXIT")
  BY <1>5, <1>6 DEF ToClient, StateMsg
<1> QED BY <1>6, <1>7

----------------------------------------------------------------------------
(* The two programs and the cable                                          *)

\* What is on the cable to r after the messages s: nothing if r has left.
Sent(r, g, q, s) == IF r \in g THEN << >> ELSE q \o s

\* What is on the cable: nothing to a program that has left, and its farewell last.
Wires(h, c, hc, ch, g) ==
  /\ hc \in Seq(ToClient) /\ ch \in Seq(ToHost) /\ g \subseteq Roles
  /\ h.out = << >> /\ c.out = << >>
  /\ Host \in g => h.over = TRUE /\ ch = << >>
  /\ Client \in g => c.over = TRUE /\ hc = << >>
  /\ \A i \in 1 .. Len(hc) : hc[i] = StateMsg("EXIT") => i = Len(hc) /\ Host \in g

\* A message to the host is one that it still waits for.
Awaited(h, c, ch, i) ==
  /\ ch[i].type = "HELLO" => i = 1
  /\ ch[i].type = "HELLO" => HostAt(h) \in {"lobby", "PLACE_SHIPS_P1", "PLACE_SHIPS_WAITING"}
  /\ ch[i].type = "HELLO" /\ HostAt(h) = "lobby" => c.tag = "WAITING_CONNECT"
  /\ ch[i].type \in {"SHIP", "DONE"} => HostAt(h) = "PLACE_SHIPS_WAITING" /\ ClientAt(c) = "PLACE_SHIPS_WAITING"
  /\ ch[i].type = "DONE" => c.tag = "PLACE_SHIPS_WAITING"
  /\ ch[i].type = "DONE" => \A j \in 1 .. Len(ch) : j > i => ch[j].type \notin {"SHIP", "DONE"}
  /\ Patient /\ ch[i].type = "ATTACK" => Settled(h) /\ \A j \in 1 .. Len(ch) : ch[j].type = "ATTACK" => j = i

Asked(h, c, ch) == \A i \in 1 .. Len(ch) : Awaited(h, c, ch, i)

\* Before the client places its ships the host knows of none.
Clean(h, c) ==
  /\ HostAt(h) \in {"PLACE_SHIPS_P1", "PLACE_SHIPS_WAITING"} /\ ClientAt(c) \in {"lobby", "PLACE_SHIPS_P1"} =>
       h.p2 = EmptyBoard
  /\ ClientAt(c) = "PLACE_SHIPS_WAITING" => HostAt(h) # "PLACE_SHIPS_P1"

\* The messages to the client lead it to where the host is.
Ends(h, c, hc, l) ==
  /\ Path(hc, Copy(c), l) /\ Mirror(h, l)
  /\ Rank(Copy(c).at) <= 1 => Rank(l.at) <= 2
  /\ Copy(c).at = "lobby" /\ l.at # "lobby" => c.tag = "WAITING_CONNECT"

Linked(h, c, hc, g) == Client \notin g => \E l : Ends(h, c, hc, l)

\* A message to the host makes the board b of it the board d.
Grows(b, msg, d) ==
  \/ /\ msg.type = "SHIP" /\ Len(b.ships) < NumShips /\ CanPlace(b, msg.cells)
     /\ msg.size \in Nat \ {0} /\ Cardinality(msg.cells) = msg.size
     /\ d = PlaceShip(b, msg.cells, msg.size)
  \/ msg.type # "SHIP" /\ d = b

GrowsAlong(t, q) ==
  \A i \in 1 .. Len(q) : Grows(t[i], q[i], t[i + 1]) /\ (q[i].type = "DONE" => t[i] = t[Len(q) + 1])

GrowsTo(q, b, d) == \E t : t[1] = b /\ t[Len(q) + 1] = d /\ GrowsAlong(t, q)

\* The messages to the host complete its copy of the client's fleet.
Growing(h, c, ch, g) ==
  HostAt(h) = "PLACE_SHIPS_WAITING" /\ ClientAt(c) = "PLACE_SHIPS_WAITING" /\ Host \notin g =>
    GrowsTo(ch, h.p2, c.p2)

InOrder(h, c, hc, ch, g) ==
  /\ HostOK(h) /\ ClientOK(c)
  /\ Wires(h, c, hc, ch, g) /\ Asked(h, c, ch) /\ Clean(h, c)
  /\ Linked(h, c, hc, g) /\ Growing(h, c, ch, g)

\* Both programs are in order, each message finds its receiver ready, and together the
\* messages under way make the client's copies what they should be.
DuelInv ==
  /\ DOMAIN con = Roles /\ DOMAIN net = Roles
  /\ InOrder(con[Host], con[Client], net[Client], net[Host], gone)

----------------------------------------------------------------------------
(* Lemmas                                                                  *)

\* A queue without its first message.
LEMMA TailOf ==
  ASSUME NEW S, NEW q \in Seq(S), q # << >>
  PROVE  /\ Tail(q) \in Seq(S) /\ Len(q) \in Nat \ {0} /\ Len(Tail(q)) = Len(q) - 1
         /\ Head(q) = q[1] /\ Head(q) \in S /\ 1 \in 1 .. Len(q)
         /\ \A i \in 1 .. Len(q) - 1 : Tail(q)[i] = q[i + 1]
  BY HeadTailProperties

\* A queue with one message more.
LEMMA AppendOf ==
  ASSUME NEW S, NEW q \in Seq(S), NEW msg \in S
  PROVE  /\ Append(q, msg) \in Seq(S) /\ Len(q) \in Nat /\ Len(Append(q, msg)) = Len(q) + 1
         /\ Append(q, msg)[Len(q) + 1] = msg
         /\ \A i \in 1 .. Len(q) : Append(q, msg)[i] = q[i]
  BY AppendProperties

\* Another message.
LEMMA GrowsOn ==
  ASSUME NEW S, NEW q \in Seq(S), NEW msg \in S, NEW b, NEW d, GrowsTo(q, b, d),
         NEW e, Grows(d, msg, e), msg.type = "DONE" => e = d,
         msg.type = "SHIP" => \A i \in 1 .. Len(q) : q[i].type # "DONE"
  PROVE  GrowsTo(Append(q, msg), b, e)
<1>1. PICK t : t[1] = b /\ t[Len(q) + 1] = d /\ GrowsAlong(t, q)
  BY DEF GrowsTo
<1> DEFINE a == Len(q)
           p == Append(q, msg)
           u == [i \in 1 .. a + 2 |-> IF i <= a + 1 THEN t[i] ELSE e]
<1>2. a \in Nat /\ Len(p) = a + 1 /\ p[a + 1] = msg /\ \A i \in 1 .. a : p[i] = q[i]
  BY AppendOf
<1>3. (\A i \in 1 .. a + 1 : u[i] = t[i]) /\ u[a + 2] = e /\ u[1] = b /\ u[a + 1] = d
  BY <1>1, <1>2
<1>4. msg.type # "SHIP" => e = d
  BY DEF Grows
<1> HIDE DEF u, p
<1>5. ASSUME NEW i \in 1 .. a + 1
      PROVE  Grows(u[i], p[i], u[i + 1]) /\ (p[i].type = "DONE" => u[i] = u[a + 2])
  <2>1. CASE i = a + 1
    <3>1. i + 1 = a + 2
      BY <1>2, <2>1
    <3> QED BY <1>2, <1>3, <2>1, <3>1
  <2>2. CASE i # a + 1
    <3>1. i \in 1 .. a /\ i \in 1 .. a + 1 /\ i + 1 \in 1 .. a + 1
      BY <1>2, <2>2
    <3>2. p[i] = q[i] /\ u[i] = t[i] /\ u[i + 1] = t[i + 1]
      BY <1>2, <1>3, <3>1
    <3>3. Grows(t[i], q[i], t[i + 1]) /\ (q[i].type = "DONE" => t[i] = t[a + 1])
      BY <1>1, <3>1 DEF GrowsAlong
    <3>4. q[i].type = "DONE" => e = d
      BY <1>4, <3>1
    <3> QED BY <1>1, <1>3, <3>2, <3>3, <3>4
  <2> QED BY <2>1, <2>2
<1>6. GrowsAlong(u, p)
  <2>1. Len(p) + 1 = a + 2
    BY <1>2
  <2> QED BY <1>2, <1>5, <2>1 DEF GrowsAlong
<1>7. u[Len(p) + 1] = e
  <2>1. Len(p) + 1 = a + 2
    BY <1>2
  <2> QED BY <1>3, <2>1
<1> QED BY <1>3, <1>6, <1>7 DEF GrowsTo, p

\* The first message.
LEMMA GrowsFirst ==
  ASSUME NEW S, NEW q \in Seq(S), q # << >>, NEW b, NEW d, GrowsTo(q, b, d)
  PROVE  \E e : Grows(b, Head(q), e) /\ GrowsTo(Tail(q), e, d) /\ (Head(q).type = "DONE" => b = d)
<1>1. PICK t : t[1] = b /\ t[Len(q) + 1] = d /\ GrowsAlong(t, q)
  BY DEF GrowsTo
<1> DEFINE a == Len(q)
           p == Tail(q)
           u == [i \in 1 .. a |-> t[i + 1]]
<1>2. a \in Nat \ {0} /\ Len(p) = a - 1 /\ Head(q) = q[1] /\ \A i \in 1 .. a - 1 : p[i] = q[i + 1]
  BY TailOf
<1>3. \A i \in 1 .. a : u[i] = t[i + 1]
  OBVIOUS
<1> HIDE DEF u, p
<1>4. Grows(b, Head(q), t[2]) /\ (Head(q).type = "DONE" => b = d)
  <2>1. 1 \in 1 .. a /\ 1 + 1 = 2
    BY <1>2
  <2>2. Grows(t[1], q[1], t[1 + 1]) /\ (q[1].type = "DONE" => t[1] = t[a + 1])
    BY <1>1, <2>1 DEF GrowsAlong
  <2> QED BY <1>1, <1>2, <2>1, <2>2
<1>5. u[1] = t[2]
  <2>1. 1 \in 1 .. a /\ 1 + 1 = 2
    BY <1>2
  <2> QED BY <1>3, <2>1
<1>6. Len(p) + 1 = a /\ u[a] = d
  <2>1. a \in 1 .. a /\ Len(p) + 1 = a
    BY <1>2
  <2> QED BY <1>1, <1>3, <2>1
<1>7. ASSUME NEW i \in 1 .. Len(p)
      PROVE  Grows(u[i], p[i], u[i + 1]) /\ (p[i].type = "DONE" => u[i] = u[a])
  <2>1. i \in 1 .. a /\ i + 1 \in 1 .. a /\ i \in 1 .. a - 1
    BY <1>2
  <2>2. u[i] = t[i + 1] /\ u[i + 1] = t[(i + 1) + 1] /\ p[i] = q[i + 1]
    BY <1>2, <1>3, <2>1
  <2>3. Grows(t[i + 1], q[i + 1], t[(i + 1) + 1]) /\ (q[i + 1].type = "DONE" => t[i + 1] = t[a + 1])
    BY <1>1, <2>1 DEF GrowsAlong
  <2> QED BY <1>1, <1>6, <2>2, <2>3
<1>8. GrowsAlong(u, p)
  BY <1>6, <1>7 DEF GrowsAlong
<1>9. GrowsTo(p, t[2], d)
  BY <1>5, <1>6, <1>8 DEF GrowsTo
<1> QED BY <1>4, <1>9 DEF p

\* What was sent is taken off the host.
LEMMA HostSpare ==
  ASSUME NEW n, HostOK(n), NEW e, e = Spare(n)
  PROVE  /\ HostOK(e) /\ e.out = << >> /\ HostAt(e) = HostAt(n) /\ e.p2 = n.p2 /\ e.over = n.over
         /\ (Settled(e) <=> Settled(n)) /\ \A k : Mirror(n, k) => Mirror(e, k)
         /\ \A f \in Fields \ {"out"} : e[f] = n[f]
<1>1. DOMAIN n = Fields
  BY DEF HostOK, HostShape
<1>2. DOMAIN e = Fields /\ e.out = << >> /\ \A f \in Fields \ {"out"} : e[f] = n[f]
  BY <1>1 DEF Spare, Fields
<1>3. /\ e.role = n.role /\ e.single = n.single /\ e.waiting = n.waiting /\ e.done = n.done
      /\ e.over = n.over /\ e.at = n.at /\ e.p1 = n.p1 /\ e.p2 = n.p2 /\ e.tag = n.tag
      /\ e.prev = n.prev /\ e.connected = n.connected /\ e.idx = n.idx /\ e.expl = n.expl
      /\ e.word = n.word /\ e.secs = n.secs /\ e.cticks = n.cticks /\ e.post = n.post
  BY <1>2 DEF Fields
<1>4. Screen(e) = Screen(n) /\ HostAt(e) = HostAt(n) /\ (Exploding(e) <=> Exploding(n))
  BY <1>3 DEF Screen, HostAt, Exploding
<1>5. HostOK(e)
  <2>1. HostShape(e)
    BY <1>2, <1>3 DEF HostOK, HostShape
  <2>2. Ranges(e)
    BY <1>3 DEF HostOK, Ranges
  <2>3. HostScreens(e)
    BY <1>3, <1>4 DEF HostOK, HostScreens
  <2>4. HostBoards(e)
    BY <1>3, <1>4 DEF HostOK, HostBoards, Blank
  <2>5. Patient => UnderWay(e)
    BY <1>3, <1>4 DEF HostOK, UnderWay
  <2> QED BY <2>1, <2>2, <2>3, <2>4, <2>5 DEF HostOK
<1>6. Alike(n, e)
  BY <1>3, <1>4 DEF Alike, Untold
<1>7. Settled(e) <=> Settled(n)
  BY <1>3, <1>4 DEF Settled
<1> QED BY <1>2, <1>3, <1>4, <1>5, <1>6, <1>7, AlikeMirrors

\* And off the client.
LEMMA ClientSpare ==
  ASSUME NEW n, ClientOK(n), NEW e, e = Spare(n)
  PROVE  /\ ClientOK(e) /\ e.out = << >> /\ ClientAt(e) = ClientAt(n) /\ Copy(e) = Copy(n)
         /\ e.tag = n.tag /\ e.p1 = n.p1 /\ e.p2 = n.p2 /\ e.over = n.over
         /\ \A f \in Fields \ {"out"} : e[f] = n[f]
<1>1. DOMAIN n = Fields
  BY ClientFields
<1>2. DOMAIN e = Fields /\ e.out = << >> /\ \A f \in Fields \ {"out"} : e[f] = n[f]
  BY <1>1 DEF Spare, Fields
<1>3. /\ e.role = n.role /\ e.single = n.single /\ e.waiting = n.waiting
      /\ e.over = n.over /\ e.p1 = n.p1 /\ e.p2 = n.p2 /\ e.tag = n.tag
      /\ e.prev = n.prev /\ e.idx = n.idx
      /\ e.word = n.word /\ e.secs = n.secs /\ e.cticks = n.cticks /\ e.post = n.post
  BY <1>2 DEF Fields
<1>4. Screen(e) = Screen(n) /\ ClientAt(e) = ClientAt(n)
  BY <1>3 DEF Screen, ClientAt
<1>5. Copy(e) = Copy(n)
  BY <1>3, <1>4 DEF Copy
<1>6. ClientOK(e)
  <2>0. ClientShape(n) /\ << >> \in Seq(ToHost)
    BY DEF ClientOK
  <2>1. ClientShape(e)
    BY <1>2, <1>3, <2>0 DEF ClientShape
  <2>2. Ranges(e)
    BY <1>3 DEF ClientOK, Ranges
  <2>3. ClientScreens(e)
    BY <1>3, <1>4 DEF ClientOK, ClientScreens, Blank
  <2> QED BY <2>1, <2>2, <2>3 DEF ClientOK
<1> QED BY <1>2, <1>3, <1>4, <1>5, <1>6

\* Where the host can be.
LEMMA HostWhere ==
  ASSUME NEW n, HostOK(n)
  PROVE  /\ HostAt(n) \in {"lobby", "PLACE_SHIPS_P1", "PLACE_SHIPS_WAITING"} \cup Fighting
         /\ HostAt(n) = "PLACE_SHIPS_P1" => n.p2 = EmptyBoard
         /\ HostAt(n) = "PLACE_SHIPS_WAITING" => n.tag = "PLACE_SHIPS_WAITING"
<1>1. n.tag \in Tags /\ n.tag # "PLACE_SHIPS_P2" /\ (n.tag = "PAUSED" => n.prev \in {"PLACE_SHIPS_P1", "TURN_P1"})
      /\ (Screen(n) = "PLACE_SHIPS_P1" => n.p2 = EmptyBoard)
  BY DEF HostOK, Ranges, HostScreens, HostBoards
<1>2. n.tag = "PAUSED" => Screen(n) = n.prev
  BY DEF Screen
<1>3. n.tag # "PAUSED" => Screen(n) = n.tag
  BY DEF Screen
<1>4. Screen(n) \in Tags \ {"PAUSED", "PLACE_SHIPS_P2"}
  BY <1>1, <1>2, <1>3 DEF Tags
<1> QED BY <1>1, <1>2, <1>3, <1>4 DEF HostAt, Lobby, Fighting, Tags

----------------------------------------------------------------------------
(* A program becomes another                                               *)

\* The host becomes n, having sent what n says and with the messages p still to come.
LEMMA HostBecomes ==
  ASSUME NEW h, NEW c, NEW hc, NEW ch, NEW g, InOrder(h, c, hc, ch, g), Host \notin g,
         NEW n, HostOK(n), NoExit(n.out), NEW p \in Seq(ToHost),
         Asked(n, c, p), Clean(n, c), Growing(n, c, p, g),
         Linked(n, c, hc \o n.out, g),
         NEW e, e = Spare(n), NEW q, q = Sent(Client, g, hc, n.out)
  PROVE  InOrder(e, c, q, p, g)
<1>1. /\ HostOK(e) /\ e.out = << >> /\ HostAt(e) = HostAt(n) /\ e.p2 = n.p2 /\ e.over = n.over
      /\ (Settled(e) <=> Settled(n)) /\ \A k : Mirror(n, k) => Mirror(e, k)
  BY HostSpare
<1>2. Wires(h, c, hc, ch, g) /\ ClientOK(c)
  BY DEF InOrder
<1>3. n.out \in Seq(ToClient)
  BY DEF HostOK, HostShape
<1>4. q \in Seq(ToClient) /\ \A i \in 1 .. Len(q) : q[i] # StateMsg("EXIT")
  <2>1. CASE Client \in g
    BY <2>1 DEF Sent
  <2>2. CASE Client \notin g
    <3>1. PICK s \in Seq(ToClient) : s = n.out
      BY <1>3
    <3>2. hc \in Seq(ToClient) /\ \A i \in 1 .. Len(hc) : hc[i] # StateMsg("EXIT")
      BY <1>2 DEF Wires
    <3>3. \A i \in 1 .. Len(s) : s[i] # StateMsg("EXIT")
      BY <3>1 DEF NoExit
    <3>4. q = hc \o s
      BY <2>2, <3>1 DEF Sent
    <3>5. hc \o s \in Seq(ToClient) /\ Len(hc \o s) = Len(hc) + Len(s)
          /\ \A i \in 1 .. Len(hc) + Len(s) : (hc \o s)[i] = IF i <= Len(hc) THEN hc[i] ELSE s[i - Len(hc)]
      BY <3>2, ConcatProperties
    <3>6. ASSUME NEW i \in 1 .. Len(q) PROVE q[i] # StateMsg("EXIT")
      <4>1. CASE i <= Len(hc)
        <5>1. i \in 1 .. Len(hc) /\ q[i] = hc[i]
          BY <3>2, <3>4, <3>5, <4>1
        <5> QED BY <3>2, <5>1
      <4>2. CASE i > Len(hc)
        <5>1. i - Len(hc) \in 1 .. Len(s) /\ q[i] = s[i - Len(hc)]
          BY <3>2, <3>4, <3>5, <4>2
        <5> QED BY <3>3, <5>1
      <4> QED BY <3>2, <4>1, <4>2
    <3> QED BY <3>4, <3>5, <3>6
  <2> QED BY <2>1, <2>2
<1>5. Wires(e, c, q, p, g)
  <2>1. g \subseteq Roles /\ c.out = << >> /\ (Client \in g => c.over = TRUE /\ q = << >>)
    BY <1>2 DEF Wires, Sent
  <2> QED BY <1>1, <1>4, <2>1 DEF Wires
<1>6. Asked(e, c, p)
  BY <1>1 DEF Asked, Awaited
<1>7. Clean(e, c)
  BY <1>1 DEF Clean
<1>8. Linked(e, c, q, g)
  <2> SUFFICES ASSUME Client \notin g PROVE \E l : Ends(e, c, q, l)
    BY DEF Linked
  <2>1. PICK l : Ends(n, c, q, l)
    BY DEF Linked, Sent
  <2>2. Ends(e, c, q, l)
    BY <1>1, <2>1 DEF Ends
  <2> QED BY <2>2
<1>9. Growing(e, c, p, g)
  BY <1>1 DEF Growing
<1> QED BY <1>1, <1>2, <1>5, <1>6, <1>7, <1>8, <1>9 DEF InOrder

\* The client becomes n, with the messages q still to come and the messages p to the host.
LEMMA ClientBecomes ==
  ASSUME NEW h, NEW c, NEW hc, NEW ch, NEW g, InOrder(h, c, hc, ch, g), Client \notin g,
         NEW n, ClientOK(n), NEW q \in Seq(ToClient),
         \A i \in 1 .. Len(q) : q[i] = StateMsg("EXIT") => i = Len(q) /\ Host \in g,
         NEW p \in Seq(ToHost), Host \in g => p = << >>,
         Asked(h, n, p), Clean(h, n), Growing(h, n, p, g), \E l : Ends(h, n, q, l),
         NEW e, e = Spare(n)
  PROVE  InOrder(h, e, q, p, g)
<1>1. /\ ClientOK(e) /\ e.out = << >> /\ ClientAt(e) = ClientAt(n) /\ Copy(e) = Copy(n)
      /\ e.tag = n.tag /\ e.p1 = n.p1 /\ e.p2 = n.p2 /\ e.over = n.over
  BY ClientSpare
<1>2. Wires(h, c, hc, ch, g) /\ HostOK(h)
  BY DEF InOrder
<1>3. Wires(h, e, q, p, g)
  BY <1>1, <1>2 DEF Wires
<1>4. Asked(h, e, p)
  BY <1>1 DEF Asked, Awaited
<1>5. Clean(h, e)
  BY <1>1 DEF Clean
<1>6. Linked(h, e, q, g)
  <2>1. PICK l : Ends(h, n, q, l)
    OBVIOUS
  <2>2. Ends(h, e, q, l)
    BY <1>1, <2>1 DEF Ends
  <2> QED BY <2>2 DEF Linked
<1>7. Growing(h, e, p, g)
  BY <1>1 DEF Growing
<1> QED BY <1>1, <1>2, <1>3, <1>4, <1>5, <1>6, <1>7 DEF InOrder

----------------------------------------------------------------------------
(* The host's steps                                                        *)

\* The messages so far and those of a step lead the client to where the host is now.
LEMMA LinkedOn ==
  ASSUME NEW h, NEW c, NEW hc \in Seq(ToClient), NEW l, Ends(h, c, hc, l),
         NEW n, NEW s \in Seq(ToClient), Reaches(h, n, s)
  PROVE  \E m : Ends(n, c, hc \o s, m)
<1>1. Path(hc, Copy(c), l) /\ Mirror(h, l)
      /\ (Rank(Copy(c).at) <= 1 => Rank(l.at) <= 2)
      /\ (Copy(c).at = "lobby" /\ l.at # "lobby" => c.tag = "WAITING_CONNECT")
  BY DEF Ends
<1>2. PICK m : Path(s, l, m) /\ Mirror(n, m) /\ (l.at = "lobby" => m.at = "lobby")
               /\ (Rank(l.at) <= 2 => Rank(m.at) <= 2)
  BY <1>1 DEF Reaches
<1>3. Path(hc \o s, Copy(c), m)
  BY <1>1, <1>2, PathJoin
<1>4. Ends(n, c, hc \o s, m)
  BY <1>1, <1>2, <1>3 DEF Ends
<1> QED BY <1>4

\* What the host waited for it still waits for.
LEMMA StillAsked ==
  ASSUME NEW h, HostOK(h), NEW c, NEW ch, Asked(h, c, ch), Clean(h, c), NEW g, Growing(h, c, ch, g),
         NEW n, HostOK(n), Goes(h, n), Patient => Rests(h, n) \/ \A i \in 1 .. Len(ch) : ch[i].type # "ATTACK"
  PROVE  Asked(n, c, ch) /\ Clean(n, c) /\ Growing(n, c, ch, g)
<1>1. /\ HostAt(n) = "lobby" /\ HostAt(h) \in {"lobby", "PLACE_SHIPS_P1", "PLACE_SHIPS_WAITING"} => HostAt(h) = "lobby"
      /\ HostAt(h) \in {"lobby", "PLACE_SHIPS_P1", "PLACE_SHIPS_WAITING"} =>
           HostAt(n) \in {"lobby", "PLACE_SHIPS_P1", "PLACE_SHIPS_WAITING"}
      /\ HostAt(h) = "PLACE_SHIPS_WAITING" => HostAt(n) = "PLACE_SHIPS_WAITING"
  BY DEF Goes
<1>2. HostAt(n) \in {"PLACE_SHIPS_P1", "PLACE_SHIPS_WAITING"} =>
        HostAt(h) \in {"PLACE_SHIPS_P1", "PLACE_SHIPS_WAITING"} /\ n.p2 = h.p2
        /\ (HostAt(n) = "PLACE_SHIPS_P1" => HostAt(h) = "PLACE_SHIPS_P1")
  BY HostWhere DEF Goes, Fighting
<1>3. Asked(n, c, ch)
  <2> SUFFICES ASSUME NEW i \in 1 .. Len(ch) PROVE Awaited(n, c, ch, i)
    BY DEF Asked
  <2>1. Awaited(h, c, ch, i)
    BY DEF Asked
  <2>2. Patient /\ ch[i].type = "ATTACK" => Rests(h, n)
    OBVIOUS
  <2> QED BY <1>1, <2>1, <2>2 DEF Awaited, Rests
<1>4. Clean(n, c)
  BY <1>2 DEF Clean
<1>5. Growing(n, c, ch, g)
  <2> SUFFICES ASSUME HostAt(n) = "PLACE_SHIPS_WAITING", ClientAt(c) = "PLACE_SHIPS_WAITING", Host \notin g
               PROVE  GrowsTo(ch, n.p2, c.p2)
    BY DEF Growing
  <2>1. HostAt(h) = "PLACE_SHIPS_WAITING" /\ n.p2 = h.p2
    BY <1>2 DEF Clean
  <2> QED BY <2>1 DEF Growing
<1> QED BY <1>3, <1>4, <1>5

\* A step of the host.
LEMMA HostMoves ==
  ASSUME NEW h, NEW c, NEW hc, NEW ch, NEW g, InOrder(h, c, hc, ch, g), Host \notin g,
         NEW n, HostStep(h, n), Patient => Rests(h, n) \/ \A i \in 1 .. Len(ch) : ch[i].type # "ATTACK",
         NEW e, e = Spare(n), NEW q, q = Sent(Client, g, hc, n.out)
  PROVE  InOrder(e, c, q, ch, g)
<1>1. /\ HostOK(h) /\ Wires(h, c, hc, ch, g) /\ Asked(h, c, ch) /\ Clean(h, c)
      /\ Linked(h, c, hc, g) /\ Growing(h, c, ch, g)
  BY DEF InOrder
<1>2. HostOK(n) /\ Tells(h, n) /\ Goes(h, n)
  BY DEF HostStep
<1>3. PICK s \in Seq(ToClient) : n.out = h.out \o s /\ NoExit(s) /\ Reaches(h, n, s)
  BY <1>2 DEF Tells
<1>4. n.out = s
  BY <1>1, <1>3 DEF Wires
<1>5. hc \in Seq(ToClient) /\ ch \in Seq(ToHost)
  BY <1>1 DEF Wires
<1>6. Asked(n, c, ch) /\ Clean(n, c) /\ Growing(n, c, ch, g)
  BY <1>1, <1>2, StillAsked
<1>7. Linked(n, c, hc \o n.out, g)
  BY <1>1, <1>3, <1>4, <1>5, LinkedOn DEF Linked
<1>8. NoExit(n.out)
  BY <1>3, <1>4
<1> QED BY <1>2, <1>5, <1>6, <1>7, <1>8, HostBecomes

----------------------------------------------------------------------------
(* A message reaches the host                                              *)

\* The messages behind the first one.
LEMMA AskedNext ==
  ASSUME NEW h, NEW c, NEW ch \in Seq(ToHost), ch # << >>, Asked(h, c, ch),
         NEW msg, msg = Head(ch), NEW p, p = Tail(ch)
  PROVE  /\ Asked(h, c, p)
         /\ msg.type = "HELLO" => HostAt(h) \in {"lobby", "PLACE_SHIPS_P1", "PLACE_SHIPS_WAITING"}
         /\ msg.type = "HELLO" /\ HostAt(h) = "lobby" => c.tag = "WAITING_CONNECT"
         /\ msg.type \in {"SHIP", "DONE"} =>
              HostAt(h) = "PLACE_SHIPS_WAITING" /\ ClientAt(c) = "PLACE_SHIPS_WAITING"
         /\ msg.type = "DONE" => c.tag = "PLACE_SHIPS_WAITING"
         /\ Patient /\ msg.type = "ATTACK" => Settled(h)
         /\ \A i \in 1 .. Len(p) :
              /\ p[i].type # "HELLO"
              /\ msg.type = "DONE" => p[i].type \notin {"SHIP", "DONE"}
              /\ Patient /\ msg.type = "ATTACK" => p[i].type # "ATTACK"
<1>1. /\ Len(ch) \in Nat \ {0} /\ Len(p) = Len(ch) - 1 /\ msg = ch[1] /\ 1 \in 1 .. Len(ch)
      /\ \A i \in 1 .. Len(ch) - 1 : p[i] = ch[i + 1]
  BY TailOf
<1>2. Awaited(h, c, ch, 1)
  BY <1>1 DEF Asked
<1>3. ASSUME NEW i \in 1 .. Len(p) PROVE Awaited(h, c, ch, i + 1) /\ p[i] = ch[i + 1] /\ i + 1 \in 1 .. Len(ch) /\ i + 1 # 1 /\ i + 1 > 1
  <2>1. i + 1 \in 1 .. Len(ch) /\ i \in 1 .. Len(ch) - 1 /\ i + 1 # 1 /\ i + 1 > 1
    BY <1>1
  <2> QED BY <1>1, <2>1 DEF Asked
<1>4. ASSUME NEW i \in 1 .. Len(p) PROVE Awaited(h, c, p, i)
  <2>1. Awaited(h, c, ch, i + 1) /\ p[i] = ch[i + 1] /\ i + 1 # 1
    BY <1>3
  <2>2. ASSUME NEW j \in 1 .. Len(p) PROVE p[j] = ch[j + 1] /\ j + 1 \in 1 .. Len(ch) /\ (j > i => j + 1 > i + 1) /\ (j + 1 = i + 1 => j = i)
    BY <1>3
  <2>3. p[i].type # "HELLO"
    BY <2>1 DEF Awaited
  <2>4. p[i].type \in {"SHIP", "DONE"} => HostAt(h) = "PLACE_SHIPS_WAITING" /\ ClientAt(c) = "PLACE_SHIPS_WAITING"
    BY <2>1 DEF Awaited
  <2>5. p[i].type = "DONE" => c.tag = "PLACE_SHIPS_WAITING"
    BY <2>1 DEF Awaited
  <2>6. p[i].type = "DONE" => \A j \in 1 .. Len(p) : j > i => p[j].type \notin {"SHIP", "DONE"}
    BY <2>1, <2>2 DEF Awaited
  <2>7. Patient /\ p[i].type = "ATTACK" => Settled(h) /\ \A j \in 1 .. Len(p) : p[j].type = "ATTACK" => j = i
    BY <2>1, <2>2 DEF Awaited
  <2> QED BY <2>3, <2>4, <2>5, <2>6, <2>7 DEF Awaited
<1>5. Asked(h, c, p)
  BY <1>4 DEF Asked
<1>6. /\ msg.type = "HELLO" => HostAt(h) \in {"lobby", "PLACE_SHIPS_P1", "PLACE_SHIPS_WAITING"}
      /\ msg.type = "HELLO" /\ HostAt(h) = "lobby" => c.tag = "WAITING_CONNECT"
      /\ msg.type \in {"SHIP", "DONE"} =>
           HostAt(h) = "PLACE_SHIPS_WAITING" /\ ClientAt(c) = "PLACE_SHIPS_WAITING"
      /\ msg.type = "DONE" => c.tag = "PLACE_SHIPS_WAITING"
      /\ Patient /\ msg.type = "ATTACK" => Settled(h)
  BY <1>1, <1>2 DEF Awaited
<1>7. ASSUME NEW i \in 1 .. Len(p)
      PROVE  /\ p[i].type # "HELLO"
             /\ msg.type = "DONE" => p[i].type \notin {"SHIP", "DONE"}
             /\ Patient /\ msg.type = "ATTACK" => p[i].type # "ATTACK"
  <2>1. p[i] = ch[i + 1] /\ i + 1 \in 1 .. Len(ch) /\ i + 1 # 1 /\ i + 1 > 1 /\ Awaited(h, c, ch, i + 1)
    BY <1>3
  <2>2. p[i].type # "HELLO"
    BY <2>1 DEF Awaited
  <2>3. msg.type = "DONE" => p[i].type \notin {"SHIP", "DONE"}
    BY <1>1, <1>2, <2>1 DEF Awaited
  <2>4. Patient /\ msg.type = "ATTACK" => p[i].type # "ATTACK"
    BY <1>1, <1>2, <2>1 DEF Awaited
  <2> QED BY <2>2, <2>3, <2>4
<1> QED BY <1>5, <1>6, <1>7

\* A message that is no ship can be taken off the cable.
LEMMA Popped ==
  ASSUME NEW h, NEW c, NEW hc, NEW ch, NEW g, InOrder(h, c, hc, ch, g), ch # << >>,
         Head(ch).type # "SHIP"
  PROVE  InOrder(h, c, hc, Tail(ch), g)
<1>1. /\ HostOK(h) /\ ClientOK(c) /\ Wires(h, c, hc, ch, g) /\ Asked(h, c, ch) /\ Clean(h, c)
      /\ Linked(h, c, hc, g) /\ Growing(h, c, ch, g)
  BY DEF InOrder
<1>2. ch \in Seq(ToHost) /\ Tail(ch) \in Seq(ToHost)
  BY <1>1, TailOf DEF Wires
<1>3. Wires(h, c, hc, Tail(ch), g)
  BY <1>1, <1>2 DEF Wires
<1>4. Asked(h, c, Tail(ch))
  BY <1>1, <1>2, AskedNext
<1>5. Growing(h, c, Tail(ch), g)
  <2> SUFFICES ASSUME HostAt(h) = "PLACE_SHIPS_WAITING", ClientAt(c) = "PLACE_SHIPS_WAITING", Host \notin g
               PROVE  GrowsTo(Tail(ch), h.p2, c.p2)
    BY DEF Growing
  <2>1. GrowsTo(ch, h.p2, c.p2)
    BY <1>1 DEF Growing
  <2>2. PICK e : Grows(h.p2, Head(ch), e) /\ GrowsTo(Tail(ch), e, c.p2)
    BY <1>2, <2>1, GrowsFirst
  <2>3. e = h.p2
    BY <2>2 DEF Grows
  <2> QED BY <2>2, <2>3
<1> QED BY <1>1, <1>3, <1>4, <1>5 DEF InOrder

\* The host answers the client's hello.
LEMMA HostWelcomes ==
  ASSUME NEW h, NEW c, NEW hc, NEW ch, NEW g, InOrder(h, c, hc, ch, g), Host \notin g, ch # << >>,
         NEW msg, msg = Head(ch), msg.type = "HELLO", NEW n, n = HostReceives(h, msg),
         NEW e, e = Spare(n), NEW q, q = Sent(Client, g, hc, n.out)
  PROVE  InOrder(e, c, q, Tail(ch), g)
<1>1. /\ HostOK(h) /\ ClientOK(c) /\ Wires(h, c, hc, ch, g) /\ Asked(h, c, ch) /\ Clean(h, c)
      /\ Linked(h, c, hc, g) /\ Growing(h, c, ch, g)
  BY DEF InOrder
<1>2. ch \in Seq(ToHost) /\ hc \in Seq(ToClient) /\ h.out = << >>
  BY <1>1 DEF Wires
<1>3. PICK p \in Seq(ToHost) : p = Tail(ch)
  BY <1>2, TailOf
<1>4. Welcomes(h, n)
  BY <1>1, HelloSteps
<1>5. HostOK(n) /\ Rests(h, n) /\ n.p2 = h.p2
      /\ (HostAt(n) = HostAt(h) \/ (HostAt(h) = "lobby" /\ HostAt(n) = "PLACE_SHIPS_P1"))
  BY <1>4 DEF Welcomes
<1>6. PICK s \in Seq(ToClient) : n.out = h.out \o s /\ NoExit(s) /\ Greets(h, n, s)
  BY <1>4 DEF Welcomes
<1>7. n.out = s
  BY <1>2, <1>6
<1>8. Asked(h, c, p) /\ (HostAt(h) = "lobby" => c.tag = "WAITING_CONNECT")
      /\ \A i \in 1 .. Len(p) : p[i].type # "HELLO"
  BY <1>1, <1>2, <1>3, AskedNext
<1>9. Growing(h, c, p, g)
  BY <1>3, Popped DEF InOrder
<1>10. HostAt(h) = "lobby" => ClientAt(c) = "lobby"
  BY <1>8 DEF ClientAt, Screen, Lobby
<1>11. Asked(n, c, p)
  <2> SUFFICES ASSUME NEW i \in 1 .. Len(p) PROVE Awaited(n, c, p, i)
    BY DEF Asked
  <2>1. Awaited(h, c, p, i) /\ p[i].type # "HELLO"
    BY <1>8 DEF Asked
  <2>2. HostAt(h) = "PLACE_SHIPS_WAITING" => HostAt(n) = "PLACE_SHIPS_WAITING"
    BY <1>5
  <2> QED BY <1>5, <2>1, <2>2 DEF Awaited, Rests
<1>12. Clean(n, c)
  <2>1. HostAt(n) = "PLACE_SHIPS_P1" => n.p2 = EmptyBoard
    BY <1>5, HostWhere
  <2> QED BY <1>1, <1>5, <1>10, <2>1 DEF Clean
<1>13. Growing(n, c, p, g)
  BY <1>5, <1>9 DEF Growing
<1>14. Linked(n, c, hc \o n.out, g)
  <2> SUFFICES ASSUME Client \notin g PROVE \E m : Ends(n, c, hc \o s, m)
    BY <1>7 DEF Linked
  <2>1. PICK l : Ends(h, c, hc, l)
    BY <1>1 DEF Linked
  <2>2. /\ Path(hc, Copy(c), l) /\ Mirror(h, l)
        /\ Rank(Copy(c).at) <= 1 => Rank(l.at) <= 2
        /\ Copy(c).at = "lobby" /\ l.at # "lobby" => c.tag = "WAITING_CONNECT"
    BY <2>1 DEF Ends
  <2>3. l.at # "left"
    <3>1. CASE HostAt(h) = "lobby"
      <4>1. Copy(c).at = "lobby"
        BY <1>1, <1>10, <3>1, ClientWhere
      <4>2. Rank(l.at) <= 2
        BY <2>2, <4>1 DEF Rank
      <4> QED BY <4>2, RankSays
    <3>2. CASE HostAt(h) # "lobby"
      BY <2>2, <3>2 DEF Mirror
    <3> QED BY <3>1, <3>2
  <2>4. PICK m : Path(s, l, m) /\ Mirror(n, m) /\ (Rank(l.at) <= 2 => Rank(m.at) <= 2)
    BY <1>6, <2>2, <2>3 DEF Greets
  <2>5. Path(hc \o s, Copy(c), m)
    BY <1>2, <2>2, <2>4, PathJoin
  <2>6. Copy(c).at = "lobby" => c.tag = "WAITING_CONNECT" \/ m.at = "lobby"
    <3>1. CASE HostAt(h) = "lobby"
      BY <1>8, <3>1
    <3>2. CASE HostAt(h) # "lobby"
      <4>1. l.at # "lobby"
        BY <2>2, <3>2 DEF Mirror
      <4> QED BY <2>2, <4>1
    <3> QED BY <3>1, <3>2
  <2>7. Ends(n, c, hc \o s, m)
    BY <2>2, <2>4, <2>5, <2>6 DEF Ends
  <2> QED BY <2>7
<1>15. NoExit(n.out)
  BY <1>6, <1>7
<1>16. HostOK(n)
  BY <1>5
<1>17. InOrder(e, c, q, p, g)
  BY <1>11, <1>12, <1>13, <1>14, <1>15, <1>16, HostBecomes
<1> QED BY <1>3, <1>17

\* The host learns of a ship of the client.
LEMMA HostHearsShip ==
  ASSUME NEW h, NEW c, NEW hc, NEW ch, NEW g, InOrder(h, c, hc, ch, g), Host \notin g, ch # << >>,
         NEW msg, msg = Head(ch), msg.type = "SHIP", NEW n, n = HostReceives(h, msg),
         NEW e, e = Spare(n), NEW q, q = Sent(Client, g, hc, n.out)
  PROVE  InOrder(e, c, q, Tail(ch), g)
<1>1. /\ HostOK(h) /\ ClientOK(c) /\ Wires(h, c, hc, ch, g) /\ Asked(h, c, ch) /\ Clean(h, c)
      /\ Linked(h, c, hc, g) /\ Growing(h, c, ch, g)
  BY DEF InOrder
<1>2. ch \in Seq(ToHost) /\ hc \in Seq(ToClient) /\ h.out = << >>
  BY <1>1 DEF Wires
<1>3. PICK p \in Seq(ToHost) : p = Tail(ch)
  BY <1>2, TailOf
<1>4. Asked(h, c, p) /\ HostAt(h) = "PLACE_SHIPS_WAITING" /\ ClientAt(c) = "PLACE_SHIPS_WAITING"
  BY <1>1, <1>2, <1>3, AskedNext
<1>5. GrowsTo(ch, h.p2, c.p2)
  BY <1>1, <1>4 DEF Growing
<1>6. PICK b : Grows(h.p2, msg, b) /\ GrowsTo(p, b, c.p2)
  BY <1>2, <1>3, <1>5, GrowsFirst
<1>7. /\ Len(h.p2.ships) < NumShips /\ CanPlace(h.p2, msg.cells)
      /\ msg.size \in Nat \ {0} /\ Cardinality(msg.cells) = msg.size
      /\ b = PlaceShip(h.p2, msg.cells, msg.size)
  BY <1>6 DEF Grows
<1>8. /\ HostOK(n) /\ Tells(h, n) /\ Rests(h, n) /\ HostAt(n) = HostAt(h) /\ n.out = h.out
      /\ n.p2 = PlaceShip(h.p2, msg.cells, msg.size)
  BY <1>1, <1>4, <1>7, ShipSteps
<1>9. n.p2 = b
  BY <1>7, <1>8
<1>10. Asked(n, c, p)
  BY <1>4, <1>8 DEF Asked, Awaited, Rests
<1>11. Clean(n, c)
  BY <1>4, <1>8 DEF Clean
<1>12. Growing(n, c, p, g)
  BY <1>6, <1>9 DEF Growing
<1>13. PICK s \in Seq(ToClient) : n.out = h.out \o s /\ NoExit(s) /\ Reaches(h, n, s)
  BY <1>8 DEF Tells
<1>14. n.out = s
  BY <1>2, <1>13
<1>15. Linked(n, c, hc \o n.out, g)
  BY <1>1, <1>2, <1>13, <1>14, LinkedOn DEF Linked
<1>16. NoExit(n.out)
  BY <1>13, <1>14
<1>17. InOrder(e, c, q, p, g)
  BY <1>8, <1>10, <1>11, <1>12, <1>15, <1>16, HostBecomes
<1> QED BY <1>3, <1>17

\* The host learns that the client is done, and begins the fight.
LEMMA HostHearsDone ==
  ASSUME NEW h, NEW c, NEW hc, NEW ch, NEW g, InOrder(h, c, hc, ch, g), Host \notin g, ch # << >>,
         NEW msg, msg = Head(ch), msg.type = "DONE", NEW n, n = HostReceives(h, msg),
         NEW e, e = Spare(n), NEW q, q = Sent(Client, g, hc, n.out)
  PROVE  InOrder(e, c, q, Tail(ch), g)
<1>1. /\ HostOK(h) /\ ClientOK(c) /\ Wires(h, c, hc, ch, g) /\ Asked(h, c, ch) /\ Clean(h, c)
      /\ Linked(h, c, hc, g) /\ Growing(h, c, ch, g)
  BY DEF InOrder
<1>2. ch \in Seq(ToHost) /\ hc \in Seq(ToClient) /\ h.out = << >>
  BY <1>1 DEF Wires
<1>3. PICK p \in Seq(ToHost) : p = Tail(ch)
  BY <1>2, TailOf
<1>4. /\ Asked(h, c, p) /\ HostAt(h) = "PLACE_SHIPS_WAITING" /\ ClientAt(c) = "PLACE_SHIPS_WAITING"
      /\ c.tag = "PLACE_SHIPS_WAITING"
      /\ \A i \in 1 .. Len(p) : p[i].type # "HELLO" /\ p[i].type \notin {"SHIP", "DONE"}
  BY <1>1, <1>2, <1>3, AskedNext
<1>5. GrowsTo(ch, h.p2, c.p2)
  BY <1>1, <1>4 DEF Growing
<1>6. h.p2 = c.p2
  BY <1>2, <1>5, GrowsFirst
<1>7. Len(h.p2.ships) = NumShips
  BY <1>1, <1>4, <1>6 DEF ClientOK, ClientScreens
<1>8. HostOK(n) /\ Rests(h, n) /\ HostAt(n) = "COUNTDOWN" /\ n.p2 = h.p2 /\ Reveals(h, n)
  BY <1>1, <1>4, <1>7, DoneSteps
<1>9. PICK s \in Seq(ToClient) :
        /\ n.out = h.out \o s /\ NoExit(s)
        /\ \E l : Path(s, Copied("PLACE_SHIPS_WAITING", EmptyBoard, h.p2), l) /\ Mirror(n, l)
  BY <1>8 DEF Reveals
<1>10. n.out = s
  BY <1>2, <1>9
<1>11. Asked(n, c, p)
  BY <1>4, <1>8 DEF Asked, Awaited, Rests
<1>12. Clean(n, c)
  BY <1>8 DEF Clean
<1>13. Growing(n, c, p, g)
  BY <1>8 DEF Growing
<1>14. Linked(n, c, hc \o n.out, g)
  <2> SUFFICES ASSUME Client \notin g PROVE \E m : Ends(n, c, hc \o s, m)
    BY <1>10 DEF Linked
  <2>1. PICK l : Ends(h, c, hc, l)
    BY <1>1 DEF Linked
  <2>2. Path(hc, Copy(c), l) /\ l.at = "PLACE_SHIPS_WAITING"
    BY <1>4, <2>1 DEF Ends, Mirror
  <2>3. hc = << >>
    <3> SUFFICES ASSUME hc # << >> PROVE FALSE
      OBVIOUS
    <3>1. PICK m : Hop(Copy(c), Head(hc), m) /\ Rank(m.at) <= Rank(l.at)
      BY <1>2, <2>2, PathHead
    <3>2. Head(hc) \in ToClient /\ Head(hc) = hc[1] /\ 1 \in 1 .. Len(hc)
      BY <1>2, TailOf
    <3>3. Rank(m.at) <= 2
      BY <2>2, <3>1 DEF Rank
    <3>4. Head(hc) = StateMsg("EXIT")
      BY <1>1, <1>4, <3>1, <3>2, <3>3, WaitsOn
    <3> QED BY <1>1, <3>2, <3>4 DEF Wires
  <2>4. Copy(c) = Copied("PLACE_SHIPS_WAITING", EmptyBoard, h.p2)
    <3>1. c.p1 = EmptyBoard /\ Copy(c) = Copied(ClientAt(c), c.p1, c.p2)
      BY <1>1, <1>4, ClientWhere
    <3> QED BY <1>4, <1>6, <3>1
  <2>5. PICK m : Path(s, Copy(c), m) /\ Mirror(n, m)
    BY <1>9, <2>4
  <2>6. hc \o s = s
    BY <2>3
  <2>7. ~(Rank(Copy(c).at) <= 1) /\ Copy(c).at # "lobby"
    BY <2>4 DEF Copied, Rank
  <2>8. Ends(n, c, hc \o s, m)
    BY <2>5, <2>6, <2>7 DEF Ends
  <2> QED BY <2>8
<1>15. NoExit(n.out)
  BY <1>9, <1>10
<1>16. HostOK(n)
  BY <1>8
<1>17. InOrder(e, c, q, p, g)
  BY <1>11, <1>12, <1>13, <1>14, <1>15, <1>16, HostBecomes
<1> QED BY <1>3, <1>17

\* A message reaches the host.
LEMMA HostHears ==
  ASSUME NEW h, NEW c, NEW hc, NEW ch, NEW g, InOrder(h, c, hc, ch, g), Host \notin g, ch # << >>,
         NEW n, n = HostReceives(h, Head(ch)),
         NEW e, e = Spare(n), NEW q, q = Sent(Client, g, hc, n.out)
  PROVE  InOrder(e, c, q, Tail(ch), g)
<1>1. HostOK(h) /\ Asked(h, c, ch) /\ ch \in Seq(ToHost)
  BY DEF InOrder, Wires
<1>2. PICK msg \in ToHost : msg = Head(ch)
  BY <1>1, TailOf
<1>3. msg.type \in {"HELLO", "DONE", "QUIT", "STATE", "SHIP", "ATTACK"} /\ (msg.type = "ATTACK" => msg.cell \in Cells)
  BY <1>2 DEF ToHost
<1>4. CASE msg.type = "HELLO"
  BY <1>2, <1>4, HostWelcomes
<1>5. CASE msg.type = "DONE"
  BY <1>2, <1>5, HostHearsDone
<1>6. CASE msg.type = "SHIP"
  BY <1>2, <1>6, HostHearsShip
<1>7. CASE msg.type \in {"QUIT", "STATE", "ATTACK"}
  <2>1. InOrder(h, c, hc, Tail(ch), g)
    BY <1>2, <1>7, Popped
  <2>2. HostStep(h, n) /\ (Patient => Rests(h, n) \/ \A i \in 1 .. Len(Tail(ch)) : Tail(ch)[i].type # "ATTACK")
    <3>1. CASE msg.type = "QUIT"
      BY <1>1, <1>2, <3>1, QuitSteps
    <3>2. CASE msg.type = "STATE"
      BY <1>1, <1>2, <3>2, IgnoredSteps
    <3>3. CASE msg.type = "ATTACK"
      <4>1. n = AttackAsked(h, msg.cell)
        BY <1>2, <3>3 DEF HostReceives
      <4>2. (Patient => Settled(h)) /\ (Patient => \A i \in 1 .. Len(Tail(ch)) : Tail(ch)[i].type # "ATTACK")
        BY <1>1, <1>2, <3>3, AskedNext
      <4>3. HostStep(h, n)
        BY <1>1, <1>3, <3>3, <4>1, <4>2, AttackSteps
      <4> QED BY <4>2, <4>3
    <3> QED BY <1>7, <3>1, <3>2, <3>3
  <2> QED BY <2>1, <2>2, HostMoves
<1> QED BY <1>3, <1>4, <1>5, <1>6, <1>7

----------------------------------------------------------------------------
(* The client's own steps                                                  *)

\* A message that the host will be ready for.
Timed(h, c, ch, msg) ==
  /\ msg.type = "HELLO" => ch = << >> /\ HostAt(h) \in {"lobby", "PLACE_SHIPS_P1", "PLACE_SHIPS_WAITING"}
  /\ msg.type = "HELLO" /\ HostAt(h) = "lobby" => c.tag = "WAITING_CONNECT"
  /\ msg.type \in {"SHIP", "DONE"} =>
       /\ HostAt(h) = "PLACE_SHIPS_WAITING" /\ ClientAt(c) = "PLACE_SHIPS_WAITING"
       /\ \A i \in 1 .. Len(ch) : ch[i].type # "DONE"
  /\ msg.type = "DONE" => c.tag = "PLACE_SHIPS_WAITING"
  /\ Patient /\ msg.type = "ATTACK" => Settled(h) /\ \A i \in 1 .. Len(ch) : ch[i].type # "ATTACK"

\* It can be sent.
LEMMA AskedMore ==
  ASSUME NEW h, NEW c, NEW ch \in Seq(ToHost), Asked(h, c, ch), NEW msg \in ToHost, Timed(h, c, ch, msg),
         NEW p, p = Append(ch, msg)
  PROVE  Asked(h, c, p)
<1>1. /\ p \in Seq(ToHost) /\ Len(ch) \in Nat /\ Len(p) = Len(ch) + 1 /\ p[Len(ch) + 1] = msg
      /\ \A i \in 1 .. Len(ch) : p[i] = ch[i]
  BY AppendOf
<1> SUFFICES ASSUME NEW i \in 1 .. Len(p) PROVE Awaited(h, c, p, i)
  BY DEF Asked
<1>2. \A j \in 1 .. Len(p) : j \in 1 .. Len(ch) \/ j = Len(ch) + 1
  BY <1>1
<1>3. CASE i \in 1 .. Len(ch)
  <2>1. Awaited(h, c, ch, i) /\ p[i] = ch[i] /\ i # Len(ch) + 1
    BY <1>1, <1>3 DEF Asked
  <2>2. ASSUME NEW j \in 1 .. Len(p)
        PROVE  \/ j \in 1 .. Len(ch) /\ p[j] = ch[j]
               \/ p[j] = msg
    BY <1>1, <1>2
  <2>3. msg.type \in {"SHIP", "DONE"} => ch[i].type # "DONE"
    BY <1>3 DEF Timed
  <2>4. Patient /\ msg.type = "ATTACK" => ch[i].type # "ATTACK"
    BY <1>3 DEF Timed
  <2>5. p[i].type = "DONE" => \A j \in 1 .. Len(p) : j > i => p[j].type \notin {"SHIP", "DONE"}
    BY <2>1, <2>2, <2>3 DEF Awaited
  <2>6. Patient /\ p[i].type = "ATTACK" => Settled(h) /\ \A j \in 1 .. Len(p) : p[j].type = "ATTACK" => j = i
    BY <2>1, <2>2, <2>4 DEF Awaited
  <2> QED BY <2>1, <2>5, <2>6 DEF Awaited
<1>4. CASE i = Len(ch) + 1
  <2>1. p[i] = msg
    BY <1>1, <1>4
  <2>2. msg.type = "HELLO" => i = 1
    BY <1>4 DEF Timed
  <2>3. \A j \in 1 .. Len(p) : ~(j > i)
    BY <1>1, <1>4
  <2>4. Patient /\ msg.type = "ATTACK" => \A j \in 1 .. Len(p) : p[j].type = "ATTACK" => j = i
    BY <1>1, <1>2, <1>4 DEF Timed
  <2> QED BY <2>1, <2>2, <2>3, <2>4 DEF Awaited, Timed
<1> QED BY <1>2, <1>3, <1>4

\* A client that stays where it is.
LEMMA StaysInOrder ==
  ASSUME NEW h, NEW c, NEW hc, NEW ch, NEW g, InOrder(h, c, hc, ch, g), Client \notin g,
         NEW n, ClientStep(c, n)
  PROVE  /\ ClientOK(n) /\ n.out \in Seq(ToHost) /\ Asked(h, n, ch) /\ Clean(h, n)
         /\ Growing(h, n, ch, g) /\ (\E l : Ends(h, n, hc, l)) /\ ClientAt(n) = ClientAt(c)
<1>1. /\ HostOK(h) /\ ClientOK(c) /\ Wires(h, c, hc, ch, g) /\ Asked(h, c, ch) /\ Clean(h, c)
      /\ Linked(h, c, hc, g) /\ Growing(h, c, ch, g)
  BY DEF InOrder
<1>2. ClientOK(n) /\ Copy(n) = Copy(c) /\ (c.tag \in {"WAITING_CONNECT", "PLACE_SHIPS_WAITING"} => n.tag = c.tag)
  BY DEF ClientStep
<1>3. n.out \in Seq(ToHost)
  BY <1>2 DEF ClientOK, ClientShape
<1>4. ClientAt(n) = ClientAt(c)
  BY <1>1, <1>2, ClientWhere
<1>5. ClientAt(c) = "PLACE_SHIPS_WAITING" => n.p2 = c.p2
  BY <1>1, <1>2, <1>4, ClientWhere
<1>6. Asked(h, n, ch)
  BY <1>1, <1>2, <1>4 DEF Asked, Awaited
<1>7. Clean(h, n)
  BY <1>1, <1>4 DEF Clean
<1>8. Growing(h, n, ch, g)
  BY <1>1, <1>4, <1>5 DEF Growing
<1>9. \E l : Ends(h, n, hc, l)
  <2>1. PICK l : Ends(h, c, hc, l)
    BY <1>1 DEF Linked
  <2>2. Ends(h, n, hc, l)
    BY <1>2, <2>1 DEF Ends
  <2> QED BY <2>2
<1> QED BY <1>2, <1>3, <1>4, <1>6, <1>7, <1>8, <1>9

\* A step of the client that says at most one word to the host.
LEMMA ClientMoves ==
  ASSUME NEW h, NEW c, NEW hc, NEW ch, NEW g, InOrder(h, c, hc, ch, g), Client \notin g,
         NEW n, ClientStep(c, n), NEW T, Says(c, n, T), T \subseteq {"HELLO", "QUIT", "STATE", "ATTACK"},
         Host \notin g /\ "HELLO" \in T => ch = << >> /\ c.tag = "WAITING_CONNECT",
         Host \notin g /\ "ATTACK" \in T /\ Patient => Settled(h) /\ \A i \in 1 .. Len(ch) : ch[i].type # "ATTACK",
         NEW e, e = Spare(n), NEW p, p = Sent(Host, g, ch, n.out)
  PROVE  InOrder(h, e, hc, p, g)
<1>1. /\ HostOK(h) /\ ClientOK(c) /\ Wires(h, c, hc, ch, g) /\ Linked(h, c, hc, g)
  BY DEF InOrder
<1>2. /\ ClientOK(n) /\ n.out \in Seq(ToHost) /\ Asked(h, n, ch) /\ Clean(h, n)
      /\ Growing(h, n, ch, g) /\ (\E l : Ends(h, n, hc, l)) /\ ClientAt(n) = ClientAt(c)
  BY StaysInOrder
<1>3. /\ hc \in Seq(ToClient) /\ ch \in Seq(ToHost) /\ c.out = << >>
      /\ \A i \in 1 .. Len(hc) : hc[i] = StateMsg("EXIT") => i = Len(hc) /\ Host \in g
  BY <1>1 DEF Wires
<1>4. CASE Host \in g
  <2>1. p = << >>
    BY <1>4 DEF Sent
  <2>2. p \in Seq(ToHost) /\ Asked(h, n, p)
    BY <2>1 DEF Asked
  <2>3. Growing(h, n, p, g)
    BY <1>4 DEF Growing
  <2> QED BY <1>2, <1>3, <2>1, <2>2, <2>3, ClientBecomes
<1>5. CASE Host \notin g /\ n.out = << >>
  <2>1. p = ch
    BY <1>3, <1>5 DEF Sent
  <2>2. p \in Seq(ToHost) /\ Asked(h, n, p) /\ Growing(h, n, p, g)
    BY <1>2, <1>3, <2>1
  <2> QED BY <1>2, <1>3, <1>5, <2>2, ClientBecomes
<1>6. CASE Host \notin g /\ n.out # << >>
  <2>1. PICK msg \in ToHost : msg.type \in T /\ n.out = Append(c.out, msg)
    BY <1>3, <1>6 DEF Says
  <2>2. p = Append(ch, msg)
    <3>1. n.out = <<msg>>
      BY <1>3, <2>1
    <3>2. p = ch \o <<msg>>
      BY <1>6, <3>1 DEF Sent
    <3> QED BY <1>3, <3>2
  <2>3. p \in Seq(ToHost)
    BY <1>3, <2>2, AppendOf
  <2>4. Timed(h, n, ch, msg)
    <3>1. msg.type \notin {"SHIP", "DONE"} /\ (msg.type = "HELLO" => "HELLO" \in T) /\ (msg.type = "ATTACK" => "ATTACK" \in T)
      BY <2>1
    <3>2. ASSUME msg.type = "HELLO"
          PROVE  n.tag = "WAITING_CONNECT" /\ HostAt(h) \in {"lobby", "PLACE_SHIPS_P1", "PLACE_SHIPS_WAITING"}
      <4>1. c.tag = "WAITING_CONNECT" /\ n.tag = "WAITING_CONNECT"
        BY <1>6, <3>1, <3>2 DEF ClientStep
      <4>2. PICK l : Ends(h, n, hc, l)
        BY <1>2
      <4>3. ClientAt(n) = "lobby"
        BY <4>1 DEF ClientAt, Screen, Lobby
      <4>4. Copy(n).at = "lobby"
        BY <1>2, <4>3, ClientWhere
      <4>5. Rank(l.at) <= 2 /\ Mirror(h, l)
        BY <4>2, <4>4 DEF Ends, Rank
      <4>6. l.at \in {"lobby", "PLACE_SHIPS_P1", "PLACE_SHIPS_WAITING"}
        BY <4>5, RankSays
      <4> QED BY <4>1, <4>5, <4>6 DEF Mirror
    <3>3. msg.type = "HELLO" => ch = << >>
      BY <1>6, <3>1
    <3>4. Patient /\ msg.type = "ATTACK" => Settled(h) /\ \A i \in 1 .. Len(ch) : ch[i].type # "ATTACK"
      BY <1>6, <3>1
    <3> QED BY <3>1, <3>2, <3>3, <3>4 DEF Timed
  <2>5. Asked(h, n, p)
    BY <1>2, <1>3, <2>2, <2>4, AskedMore
  <2>6. Growing(h, n, p, g)
    <3> SUFFICES ASSUME HostAt(h) = "PLACE_SHIPS_WAITING", ClientAt(n) = "PLACE_SHIPS_WAITING", Host \notin g
                 PROVE  GrowsTo(p, h.p2, n.p2)
      BY DEF Growing
    <3>1. GrowsTo(ch, h.p2, n.p2)
      BY <1>2 DEF Growing
    <3>2. msg.type # "SHIP"
      BY <2>1
    <3>3. Grows(n.p2, msg, n.p2)
      BY <3>2 DEF Grows
    <3> QED BY <1>3, <2>2, <3>1, <3>2, <3>3, GrowsOn
  <2> QED BY <1>2, <1>3, <1>6, <2>3, <2>5, <2>6, ClientBecomes
<1> QED BY <1>4, <1>5, <1>6

\* The only message that can be under way to a client that places its ships is a farewell.
LEMMA PlacesAlone ==
  ASSUME NEW h, NEW c, NEW hc, NEW ch, NEW g, InOrder(h, c, hc, ch, g), Client \notin g,
         ClientAt(c) = "PLACE_SHIPS_WAITING", Len(c.p2.ships) < NumShips
  PROVE  /\ HostAt(h) = "PLACE_SHIPS_WAITING"
         /\ \A k : Path(hc, k, k)
<1>1. /\ ClientOK(c) /\ Wires(h, c, hc, ch, g) /\ Linked(h, c, hc, g)
  BY DEF InOrder
<1>2. PICK l : Path(hc, Copy(c), l) /\ Mirror(h, l)
  BY <1>1 DEF Linked, Ends
<1>3. Copy(c).at = "PLACE_SHIPS_WAITING" /\ Copy(c).b2 = c.p2
  BY <1>1, ClientWhere
<1>4. /\ hc \in Seq(ToClient)
      /\ \A i \in 1 .. Len(hc) : hc[i] = StateMsg("EXIT") => i = Len(hc)
  BY <1>1 DEF Wires
<1>5. NumShips \in Nat
  BY BoardAssumption DEF NumShips
<1>6. CASE hc = << >>
  <2>1. l = Copy(c)
    <3>1. hc \in Seq(ToClient) /\ Path(hc, Copy(c), l)
      BY <1>2, <1>4
    <3> QED BY <1>6, <3>1, PathRank
  <2>2. \A k : Path(hc, k, k)
    BY <1>6, PathEmpty
  <2>3. HostAt(h) = "PLACE_SHIPS_WAITING"
    BY <1>2, <1>3, <2>1 DEF Mirror
  <2> QED BY <2>2, <2>3
<1>7. CASE hc # << >>
  <2>1. PICK m : Hop(Copy(c), Head(hc), m) /\ Path(Tail(hc), m, l)
    BY <1>2, <1>4, <1>7, PathHead
  <2>2. PICK msg \in ToClient : msg = Head(hc) /\ msg = hc[1]
    BY <1>4, <1>7, TailOf
  <2>3. Len(c.p2.ships) # NumShips
    BY <1>5
  <2>4. msg.type = "STATE" /\ msg.state = "EXIT" /\ m = Copy(c)
    <3>1. msg.type = "STATE" /\ Leads(Copy(c), msg.state, m)
      BY <1>3, <2>1, <2>2, <2>3 DEF Hop, Turns
    <3> QED BY <1>3, <3>1 DEF Leads, Gate, Turns
  <2>5. msg = StateMsg("EXIT")
    BY <2>2, <2>4 DEF ToClient, StateMsg
  <2>6. 1 = Len(hc)
    BY <1>4, <1>7, <2>2, <2>5, TailOf
  <2>7. Tail(hc) = << >> /\ Tail(hc) \in Seq(ToClient)
    <3>1. Tail(hc) \in Seq(ToClient) /\ Len(Tail(hc)) = Len(hc) - 1
      BY <1>4, <1>7, TailOf
    <3>2. PICK p \in Seq(ToClient) : p = Tail(hc)
      BY <3>1, Zenon
    <3>3. p = << >>
      BY <2>6, <3>1, <3>2
    <3> QED BY <3>2, <3>3
  <2>8. l = Copy(c)
    BY <2>1, <2>4, <2>7, PathRank
  <2>9. hc = <<msg>>
    BY <1>4, <2>2, <2>6
  <2>10. \A k : Path(hc, k, k)
    <3> SUFFICES ASSUME NEW k PROVE Path(<<msg>>, k, k)
      BY <2>9
    <3>1. Hop(k, msg, k)
      BY <2>4 DEF Hop, Leads
    <3>2. Rank(k.at) <= Rank(k.at)
      BY RankSays
    <3> QED BY <3>1, <3>2, PathOne
  <2>11. HostAt(h) = "PLACE_SHIPS_WAITING"
    BY <1>2, <1>3, <2>8 DEF Mirror
  <2> QED BY <2>10, <2>11
<1> QED BY <1>6, <1>7

\* Two messages appended.
LEMMA TwoAppended ==
  ASSUME NEW S, NEW q \in Seq(S), NEW a \in S, NEW b \in S
  PROVE  q \o Append(Append(<< >>, a), b) = Append(Append(q, a), b)
<1>1. Append(<< >>, a) \in Seq(S) /\ Append(q, a) \in Seq(S) /\ << >> \in Seq(S)
  BY AppendProperties
<1>2. Append(Append(<< >>, a), b) = Append(<< >>, a) \o <<b>>
  BY <1>1, AppendIsConcat
<1>3. Append(<< >>, a) = << >> \o <<a>>
  BY <1>1, AppendIsConcat
<1>4. << >> \o <<a>> = <<a>> /\ <<a>> \in Seq(S) /\ <<b>> \in Seq(S)
  BY ConcatEmptySeq
<1>5. Append(q, a) = q \o <<a>> /\ Append(Append(q, a), b) = Append(q, a) \o <<b>>
  BY <1>1, AppendIsConcat
<1>6. (q \o <<a>>) \o <<b>> = q \o (<<a>> \o <<b>>)
  BY <1>4, ConcatAssociative
<1> QED BY <1>2, <1>3, <1>4, <1>5, <1>6

\* The client puts a ship of its own on its board.
LEMMA ClientPuts ==
  ASSUME NEW h, NEW c, NEW hc, NEW ch, NEW g, InOrder(h, c, hc, ch, g), Client \notin g,
         c.tag = "PLACE_SHIPS_P2", NEW n, NEW ship, Placed(c, n, ship),
         NEW e, e = Spare(n), NEW p, p = Sent(Host, g, ch, n.out)
  PROVE  InOrder(h, e, hc, p, g)
<1>1. /\ HostOK(h) /\ ClientOK(c) /\ Wires(h, c, hc, ch, g) /\ Asked(h, c, ch) /\ Clean(h, c)
      /\ Linked(h, c, hc, g) /\ Growing(h, c, ch, g)
  BY DEF InOrder
<1>2. /\ hc \in Seq(ToClient) /\ ch \in Seq(ToHost) /\ c.out = << >>
      /\ \A i \in 1 .. Len(hc) : hc[i] = StateMsg("EXIT") => i = Len(hc) /\ Host \in g
  BY <1>1 DEF Wires
<1>3. /\ ship \in ToHost /\ ship.type = "SHIP" /\ CanPlace(c.p2, ship.cells) /\ Len(c.p2.ships) < NumShips
      /\ ship.size \in Nat \ {0} /\ Cardinality(ship.cells) = ship.size
      /\ ClientOK(n) /\ ClientAt(n) = "PLACE_SHIPS_WAITING" /\ n.p1 = c.p1
      /\ n.p2 = PlaceShip(c.p2, ship.cells, ship.size)
  BY DEF Placed
<1>4. ClientAt(c) = "PLACE_SHIPS_WAITING" /\ c.p1 = EmptyBoard
  <2>1. Screen(c) = "PLACE_SHIPS_P2"
    BY DEF Screen
  <2>2. c.p1 = EmptyBoard
    BY <1>1, <2>1 DEF ClientOK, ClientScreens
  <2> QED BY <2>1, <2>2 DEF ClientAt, Lobby, EmptyBoard
<1>5. HostAt(h) = "PLACE_SHIPS_WAITING" /\ \A k : Path(hc, k, k)
  BY <1>3, <1>4, PlacesAlone
<1>6. \E l : Ends(h, n, hc, l)
  <2>1. PICK k : k = Copy(n)
    OBVIOUS
  <2>2. k.at = "PLACE_SHIPS_WAITING" /\ k.b1 = EmptyBoard
    BY <1>3, <1>4, <2>1, ClientWhere
  <2>3. Mirror(h, k)
    BY <1>5, <2>2 DEF Mirror, Fighting
  <2>4. ~(Rank(k.at) <= 1)
    BY <2>2 DEF Rank
  <2>5. Ends(h, n, hc, k)
    BY <1>5, <2>1, <2>2, <2>3, <2>4 DEF Ends
  <2> QED BY <2>5
<1>7. Clean(h, n)
  BY <1>3, <1>5 DEF Clean
<1>8. CASE Host \in g
  <2>1. p = << >>
    BY <1>8 DEF Sent
  <2>2. p \in Seq(ToHost) /\ Asked(h, n, p)
    BY <2>1 DEF Asked
  <2>3. Growing(h, n, p, g)
    BY <1>8 DEF Growing
  <2> QED BY <1>2, <1>3, <1>6, <1>7, <2>1, <2>2, <2>3, ClientBecomes
<1>9. CASE Host \notin g
  <2>1. \A i \in 1 .. Len(ch) : ch[i].type # "DONE"
    BY <1>1 DEF Asked, Awaited
  <2>2. Asked(h, n, ch)
    BY <1>1, <1>3, <1>5, <2>1 DEF Asked, Awaited
  <2>3. GrowsTo(ch, h.p2, c.p2)
    BY <1>1, <1>4, <1>5, <1>9 DEF Growing
  <2>4. PICK q \in Seq(ToHost) : q = Append(ch, ship)
    <3>1. Append(ch, ship) \in Seq(ToHost)
      BY <1>2, <1>3, AppendOf
    <3> QED BY <3>1, Zenon
  <2>5. Timed(h, n, ch, ship)
    BY <1>3, <1>5, <2>1 DEF Timed
  <2>6. Asked(h, n, q)
    BY <1>2, <1>3, <2>2, <2>4, <2>5, AskedMore
  <2>7. Grows(c.p2, ship, n.p2)
    BY <1>3 DEF Grows
  <2>8. GrowsTo(q, h.p2, n.p2)
    BY <1>2, <1>3, <2>1, <2>3, <2>4, <2>7, GrowsOn
  <2>9. CASE n.out = Append(c.out, ship)
    <3>1. p = q
      <4>1. n.out = <<ship>>
        BY <1>2, <2>9
      <4>2. p = ch \o <<ship>>
        BY <1>9, <4>1 DEF Sent
      <4> QED BY <1>2, <2>4, <4>2
    <3>2. Growing(h, n, p, g)
      BY <2>8, <3>1 DEF Growing
    <3>3. p \in Seq(ToHost) /\ Asked(h, n, p)
      BY <2>6, <3>1
    <3> QED BY <1>2, <1>3, <1>6, <1>7, <1>9, <3>2, <3>3, ClientBecomes
  <2>10. CASE n.tag = "PLACE_SHIPS_WAITING" /\ n.out = Append(Append(c.out, ship), [type |-> "DONE"])
    <3>1. PICK done \in ToHost : done = [type |-> "DONE"]
      BY DEF ToHost
    <3>2. done.type = "DONE"
      BY <3>1
    <3>3. p = Append(q, done)
      <4>1. p = ch \o Append(Append(<< >>, ship), done)
        BY <1>2, <1>9, <2>10, <3>1 DEF Sent
      <4> QED BY <1>2, <1>3, <2>4, <4>1, TwoAppended
    <3>4. \A i \in 1 .. Len(q) : q[i].type # "DONE"
      <4>1. /\ Len(ch) \in Nat /\ Len(q) = Len(ch) + 1 /\ q[Len(ch) + 1] = ship
            /\ \A i \in 1 .. Len(ch) : q[i] = ch[i]
        BY <1>2, <1>3, <2>4, AppendOf
      <4> SUFFICES ASSUME NEW i \in 1 .. Len(q) PROVE q[i].type # "DONE"
        OBVIOUS
      <4>2. i \in 1 .. Len(ch) \/ i = Len(ch) + 1
        BY <4>1
      <4> QED BY <1>3, <2>1, <4>1, <4>2
    <3>5. Timed(h, n, q, done)
      BY <1>3, <1>5, <2>10, <3>2, <3>4 DEF Timed
    <3>6. Asked(h, n, p)
      BY <2>6, <3>3, <3>5, AskedMore
    <3>7. Grows(n.p2, done, n.p2)
      BY <3>2 DEF Grows
    <3>8. GrowsTo(p, h.p2, n.p2)
      BY <2>8, <3>2, <3>3, <3>7, GrowsOn
    <3>9. Growing(h, n, p, g)
      BY <3>8 DEF Growing
    <3>10. p \in Seq(ToHost)
      BY <3>3, AppendOf
    <3> QED BY <1>2, <1>3, <1>6, <1>7, <1>9, <3>6, <3>9, <3>10, ClientBecomes
  <2> QED BY <2>9, <2>10 DEF Placed
<1> QED BY <1>8, <1>9

\* Messages about something else change no board.
LEMMA GrowsIdly ==
  ASSUME NEW S, NEW q \in Seq(S), \A i \in 1 .. Len(q) : q[i].type \notin {"SHIP", "DONE"}, NEW b
  PROVE  GrowsTo(q, b, b)
<1> DEFINE t == [i \in 1 .. Len(q) + 1 |-> b]
<1>1. \A i \in 1 .. Len(q) : t[i] = b /\ t[i + 1] = b
  OBVIOUS
<1>2. t[1] = b /\ t[Len(q) + 1] = b
  OBVIOUS
<1> HIDE DEF t
<1>3. GrowsAlong(t, q)
  BY <1>1, <1>2 DEF GrowsAlong, Grows
<1> QED BY <1>2, <1>3 DEF GrowsTo

----------------------------------------------------------------------------
(* A message reaches the client                                            *)

\* A message finds the client ready and leaves the rest to do the same.
LEMMA HearsNext ==
  ASSUME NEW h, HostOK(h), NEW c, ClientOK(c), NEW hc \in Seq(ToClient), hc # << >>,
         NEW l, Ends(h, c, hc, l), NEW n, n = ClientReceives(c, Head(hc))
  PROVE  \E m : /\ Hop(Copy(c), Head(hc), m) /\ Arrives(c, n, m)
                /\ Rank(Copy(c).at) <= Rank(m.at) /\ Rank(m.at) <= Rank(l.at)
                /\ m.at = "left" => HostAt(h) = "lobby"
                /\ \E d : Ends(h, n, Tail(hc), d)
<1>1. /\ Path(hc, Copy(c), l) /\ Mirror(h, l)
      /\ Rank(Copy(c).at) <= 1 => Rank(l.at) <= 2
      /\ Copy(c).at = "lobby" /\ l.at # "lobby" => c.tag = "WAITING_CONNECT"
  BY DEF Ends
<1>2. PICK msg \in ToClient : msg = Head(hc)
  BY TailOf
<1>3. PICK q \in Seq(ToClient) : q = Tail(hc)
  BY TailOf
<1>4. PICK m : /\ Hop(Copy(c), msg, m) /\ Path(q, m, l)
               /\ Rank(Copy(c).at) <= Rank(m.at) /\ Rank(m.at) <= Rank(l.at)
  BY <1>1, <1>2, <1>3, PathHead
<1>5. Copy(c).at = ClientAt(c) /\ Rank(Copy(c).at) \in Int /\ Rank(m.at) \in Int /\ Rank(l.at) \in Int
  BY ClientWhere, RankSays
<1>6. m.at # "lobby" => l.at # "lobby"
  <2>1. l.at = "lobby" => Rank(l.at) = 0
    BY DEF Rank
  <2>2. Rank(m.at) \in 0 .. 5 /\ (Rank(m.at) = 0 => m.at = "lobby")
    BY RankSays
  <2> QED BY <1>4, <2>1, <2>2
<1>7. Arrives(c, n, m)
  BY <1>1, <1>2, <1>4, <1>5, <1>6, Hears
<1>8. ClientOK(n) /\ (Copy(n) = IF m.at = "left" THEN Idle("lobby") ELSE m)
      /\ (c.tag = "WAITING_CONNECT" /\ ClientAt(n) = "lobby" => n.tag = c.tag)
  BY <1>7 DEF Arrives
<1>9. Copy(n).at = ClientAt(n)
  BY <1>8, ClientWhere
<1>10. CASE m.at # "left"
  <2>1. Copy(n) = m
    BY <1>8, <1>10
  <2>2. m.at = "lobby" /\ l.at # "lobby" => n.tag = "WAITING_CONNECT"
    <3> SUFFICES ASSUME m.at = "lobby", l.at # "lobby" PROVE n.tag = "WAITING_CONNECT"
      OBVIOUS
    <3>1. Rank(m.at) = 0
      BY DEF Rank
    <3>2. Copy(c).at = "lobby"
      BY <1>4, <3>1, RankSays
    <3> QED BY <1>1, <1>8, <1>9, <2>1, <3>2
  <2>3. Rank(m.at) <= 1 => Rank(l.at) <= 2
    BY <1>1, <1>4, <1>5
  <2>4. Ends(h, n, q, l)
    BY <1>1, <1>4, <2>1, <2>2, <2>3 DEF Ends
  <2> QED BY <1>2, <1>3, <1>4, <1>7, <1>10, <2>4
<1>11. CASE m.at = "left"
  <2>1. Rank(l.at) = 5
    BY <1>4, <1>11, RankSays
  <2>2. HostAt(h) = "lobby"
    <3> SUFFICES ASSUME HostAt(h) # "lobby" PROVE FALSE
      OBVIOUS
    <3>1. l.at = HostAt(h)
      BY <1>1 DEF Mirror
    <3>2. l.at \in {"PLACE_SHIPS_P1", "PLACE_SHIPS_WAITING"} \cup Fighting
      BY <3>1, HostWhere
    <3> QED BY <2>1, <3>2 DEF Rank, Fighting
  <2>3. l.at = "left"
    <3>1. l.at \in {"lobby", "left"}
      BY <1>1, <2>2 DEF Mirror
    <3> QED BY <2>1, <3>1 DEF Rank
  <2>4. PICK z : z = Idle("lobby")
    OBVIOUS
  <2>5. z.at = "lobby" /\ z.b1 = EmptyBoard /\ z.b2 = EmptyBoard /\ Copy(n) = z
    BY <1>8, <1>11, <2>4 DEF Idle, Copied
  <2>6. Path(q, z, z)
    BY <1>4, <1>11, <2>3, <2>4, PathLeft
  <2>7. Mirror(h, z)
    BY <2>2, <2>5 DEF Mirror, Fighting
  <2>8. Rank(z.at) <= 2
    BY <2>5 DEF Rank
  <2>9. Ends(h, n, q, z)
    BY <2>5, <2>6, <2>7, <2>8 DEF Ends
  <2> QED BY <1>2, <1>3, <1>4, <1>7, <2>2, <2>9
<1> QED BY <1>10, <1>11

\* A message reaches the client.
LEMMA ClientHears ==
  ASSUME NEW h, NEW c, NEW hc, NEW ch, NEW g, InOrder(h, c, hc, ch, g), Client \notin g, hc # << >>,
         NEW n, n = ClientReceives(c, Head(hc)),
         NEW e, e = Spare(n), NEW p, p = Sent(Host, g, ch, n.out)
  PROVE  InOrder(h, e, Tail(hc), p, g)
<1>1. /\ HostOK(h) /\ ClientOK(c) /\ Wires(h, c, hc, ch, g) /\ Asked(h, c, ch) /\ Clean(h, c)
      /\ Linked(h, c, hc, g) /\ Growing(h, c, ch, g)
  BY DEF InOrder
<1>2. /\ hc \in Seq(ToClient) /\ ch \in Seq(ToHost) /\ c.out = << >> /\ (Host \in g => ch = << >>)
      /\ \A i \in 1 .. Len(hc) : hc[i] = StateMsg("EXIT") => i = Len(hc) /\ Host \in g
  BY <1>1 DEF Wires
<1>3. PICK l : Ends(h, c, hc, l)
  BY <1>1 DEF Linked
<1>4. PICK m : /\ Hop(Copy(c), Head(hc), m) /\ Arrives(c, n, m)
               /\ Rank(Copy(c).at) <= Rank(m.at) /\ Rank(m.at) <= Rank(l.at)
               /\ m.at = "left" => HostAt(h) = "lobby"
               /\ \E d : Ends(h, n, Tail(hc), d)
  BY <1>1, <1>2, <1>3, HearsNext
<1>5. /\ ClientOK(n) /\ n.out = << >>
      /\ Copy(n) = IF m.at = "left" THEN Idle("lobby") ELSE m
      /\ (c.tag = "WAITING_CONNECT" /\ ClientAt(n) = "lobby" => n.tag = c.tag)
  BY <1>2, <1>4 DEF Arrives
<1>6. /\ Copy(c).at = ClientAt(c) /\ Copy(n).at = ClientAt(n) /\ Rank(Copy(c).at) \in Int
      /\ Rank(m.at) \in Int /\ Rank(l.at) \in Int /\ Mirror(h, l)
  BY <1>1, <1>3, <1>5, ClientWhere, RankSays DEF Ends
<1>7. p = ch
  BY <1>2, <1>5 DEF Sent
<1>8. PICK q \in Seq(ToClient) : q = Tail(hc)
  BY <1>2, TailOf
<1>9. \A i \in 1 .. Len(q) : q[i] = StateMsg("EXIT") => i = Len(q) /\ Host \in g
  <2> SUFFICES ASSUME NEW i \in 1 .. Len(q), q[i] = StateMsg("EXIT") PROVE i = Len(q) /\ Host \in g
    OBVIOUS
  <2>1. Len(hc) \in Nat /\ Len(q) = Len(hc) - 1 /\ \A j \in 1 .. Len(hc) - 1 : q[j] = hc[j + 1]
    BY <1>2, <1>8, TailOf
  <2>2. i + 1 \in 1 .. Len(hc) /\ hc[i + 1] = StateMsg("EXIT")
    BY <2>1
  <2> QED BY <1>2, <2>1, <2>2
<1>10. HostAt(h) = "PLACE_SHIPS_WAITING" /\ ClientAt(c) = "PLACE_SHIPS_WAITING" => Host \in g
  <2> SUFFICES ASSUME HostAt(h) = "PLACE_SHIPS_WAITING", ClientAt(c) = "PLACE_SHIPS_WAITING" PROVE Host \in g
    OBVIOUS
  <2>1. l.at = "PLACE_SHIPS_WAITING"
    BY <1>6 DEF Mirror
  <2>2. Rank(m.at) <= 2
    BY <1>4, <2>1 DEF Rank
  <2>3. Head(hc) \in ToClient /\ Head(hc) = hc[1] /\ 1 \in 1 .. Len(hc)
    BY <1>2, TailOf
  <2>4. Head(hc) = StateMsg("EXIT")
    BY <1>1, <1>4, <2>2, <2>3, WaitsOn
  <2> QED BY <1>2, <2>3, <2>4
<1>11. Asked(h, n, ch)
  <2> SUFFICES ASSUME NEW i \in 1 .. Len(ch) PROVE Awaited(h, n, ch, i)
    BY DEF Asked
  <2>1. Awaited(h, c, ch, i) /\ Host \notin g
    BY <1>1, <1>2 DEF Asked
  <2>2. ch[i].type \notin {"SHIP", "DONE"}
    BY <1>10, <2>1 DEF Awaited
  <2>3. ch[i].type = "HELLO" /\ HostAt(h) = "lobby" => n.tag = "WAITING_CONNECT"
    <3> SUFFICES ASSUME ch[i].type = "HELLO", HostAt(h) = "lobby" PROVE n.tag = "WAITING_CONNECT"
      OBVIOUS
    <3>1. c.tag = "WAITING_CONNECT"
      BY <2>1 DEF Awaited
    <3>2. Copy(c).at = "lobby"
      BY <1>6, <3>1 DEF ClientAt, Screen, Lobby
    <3>3. Rank(l.at) <= 2 /\ l.at \in {"lobby", "left"}
      BY <1>3, <1>6, <3>2 DEF Ends, Rank, Mirror
    <3>4. Rank(l.at) = 0
      BY <3>3 DEF Rank, Fighting
    <3>5. Rank(m.at) = 0
      BY <1>4, <3>4, RankSays
    <3>6. m.at = "lobby"
      BY <3>5, RankSays
    <3> QED BY <1>5, <1>6, <3>1, <3>6
  <2> QED BY <2>1, <2>2, <2>3 DEF Awaited
<1>12. HostAt(h) \in {"PLACE_SHIPS_P1", "PLACE_SHIPS_WAITING"} =>
         l.at = HostAt(h) /\ Copy(n) = m /\ Rank(l.at) <= 2 /\ (HostAt(h) = "PLACE_SHIPS_P1" => Rank(l.at) = 1)
  BY <1>4, <1>5, <1>6 DEF Mirror, Rank
<1>13. HostAt(h) \in {"PLACE_SHIPS_P1", "PLACE_SHIPS_WAITING"} /\ ClientAt(n) \in {"lobby", "PLACE_SHIPS_P1"} =>
         ClientAt(c) \in {"lobby", "PLACE_SHIPS_P1"}
  <2> SUFFICES ASSUME HostAt(h) \in {"PLACE_SHIPS_P1", "PLACE_SHIPS_WAITING"}, ClientAt(n) \in {"lobby", "PLACE_SHIPS_P1"}
               PROVE  ClientAt(c) \in {"lobby", "PLACE_SHIPS_P1"}
    OBVIOUS
  <2>1. Rank(m.at) <= 1
    BY <1>6, <1>12 DEF Rank
  <2>2. Rank(ClientAt(c)) <= 1
    BY <1>4, <1>6, <2>1
  <2>3. Rank(ClientAt(c)) = 0 \/ Rank(ClientAt(c)) = 1
    BY <2>2, RankSays
  <2> QED BY <2>3, RankSays
<1>14. Clean(h, n)
  <2>1. ClientAt(n) = "PLACE_SHIPS_WAITING" => HostAt(h) # "PLACE_SHIPS_P1"
    <3> SUFFICES ASSUME ClientAt(n) = "PLACE_SHIPS_WAITING", HostAt(h) = "PLACE_SHIPS_P1" PROVE FALSE
      OBVIOUS
    <3>1. Rank(m.at) = 2
      BY <1>6, <1>12 DEF Rank
    <3> QED BY <1>4, <1>12, <3>1
  <2> QED BY <1>1, <1>13, <2>1 DEF Clean
<1>15. Growing(h, n, ch, g)
  <2> SUFFICES ASSUME HostAt(h) = "PLACE_SHIPS_WAITING", ClientAt(n) = "PLACE_SHIPS_WAITING", Host \notin g
               PROVE  GrowsTo(ch, h.p2, n.p2)
    BY DEF Growing
  <2>1. ClientAt(c) # "PLACE_SHIPS_WAITING"
    BY <1>10
  <2>2. m.at = "PLACE_SHIPS_WAITING" /\ n.p2 = m.b2
    BY <1>5, <1>6, <1>12, ClientWhere
  <2>3. ClientAt(c) = "PLACE_SHIPS_P1" /\ m.b2 = c.p2
    <3>1. Rank(Copy(c).at) <= 2
      BY <1>4, <1>6, <2>2 DEF Rank
    <3>2. Rank(ClientAt(c)) \in {0, 1, 2}
      BY <1>6, <3>1, RankSays
    <3>3. Copy(c).at \in {"lobby", "PLACE_SHIPS_P1"}
      BY <1>6, <2>1, <3>2, RankSays
    <3>4. Copy(c).at = "PLACE_SHIPS_P1" /\ m.b2 = Copy(c).b2
      BY <1>4, <2>2, <3>3 DEF Hop, Leads, Gate, Copied, Idle, Turns
    <3> QED BY <1>1, <1>6, <3>4, ClientWhere
  <2>4. c.tag = "PLACE_SHIPS_P1"
    BY <1>1, <2>3, ClientWhere
  <2>5. n.p2 = EmptyBoard
    BY <1>1, <2>2, <2>3, <2>4, ClientWhere DEF Blank
  <2>6. h.p2 = EmptyBoard
    BY <1>1, <2>3 DEF Clean
  <2>7. \A i \in 1 .. Len(ch) : ch[i].type \notin {"SHIP", "DONE"}
    BY <1>1, <2>1 DEF Asked, Awaited
  <2> QED BY <1>2, <2>5, <2>6, <2>7, GrowsIdly
<1>16. \E d : Ends(h, n, q, d)
  BY <1>4, <1>8
<1>17. InOrder(h, e, q, p, g)
  BY <1>2, <1>5, <1>7, <1>9, <1>11, <1>14, <1>15, <1>16, ClientBecomes
<1> QED BY <1>8, <1>17

----------------------------------------------------------------------------
(* A program leaves                                                        *)

\* The host's last message.
LEMMA HostLeaves ==
  ASSUME NEW h, NEW c, NEW hc, NEW ch, NEW g, InOrder(h, c, hc, ch, g), Host \notin g, h.over = TRUE,
         NEW q, q = Sent(Client, g, hc, <<StateMsg("EXIT")>>)
  PROVE  InOrder(h, c, q, << >>, g \cup {Host})
<1>1. /\ HostOK(h) /\ ClientOK(c) /\ Wires(h, c, hc, ch, g) /\ Clean(h, c) /\ Linked(h, c, hc, g)
  BY DEF InOrder
<1>2. /\ hc \in Seq(ToClient) /\ c.out = << >> /\ h.out = << >> /\ g \subseteq Roles
      /\ Client \in g => c.over = TRUE
      /\ \A i \in 1 .. Len(hc) : hc[i] # StateMsg("EXIT")
  BY <1>1 DEF Wires
<1>3. Client \in g \cup {Host} <=> Client \in g
  BY DEF Host, Client
<1>4. PICK msg \in ToClient : msg = StateMsg("EXIT")
  BY DEF StateMsg, ToClient
<1>5. /\ q \in Seq(ToClient)
      /\ \A i \in 1 .. Len(q) : q[i] = StateMsg("EXIT") => i = Len(q)
      /\ Client \in g => q = << >>
  <2>1. CASE Client \in g
    BY <2>1 DEF Sent
  <2>2. CASE Client \notin g
    <3>1. q = Append(hc, msg)
      BY <1>2, <1>4, <2>2, AppendIsConcat DEF Sent
    <3>2. /\ q \in Seq(ToClient) /\ Len(hc) \in Nat /\ Len(q) = Len(hc) + 1
          /\ \A i \in 1 .. Len(hc) : q[i] = hc[i]
      <4>1. /\ Append(hc, msg) \in Seq(ToClient) /\ Len(hc) \in Nat /\ Len(Append(hc, msg)) = Len(hc) + 1
            /\ \A i \in 1 .. Len(hc) : Append(hc, msg)[i] = hc[i]
        BY <1>2, AppendOf
      <4> QED BY <3>1, <4>1
    <3>3. \A i \in 1 .. Len(q) : i \in 1 .. Len(hc) \/ i = Len(q)
      BY <3>2
    <3> QED BY <1>2, <2>2, <3>2, <3>3
  <2> QED BY <2>1, <2>2
<1>6. Wires(h, c, q, << >>, g \cup {Host})
  <2>1. g \cup {Host} \subseteq Roles
    BY <1>2 DEF Roles
  <2> QED BY <1>2, <1>3, <1>5, <2>1 DEF Wires
<1>7. Asked(h, c, << >>)
  BY DEF Asked
<1>8. Linked(h, c, q, g \cup {Host})
  <2> SUFFICES ASSUME Client \notin g PROVE \E l : Ends(h, c, q, l)
    BY <1>3 DEF Linked
  <2>1. PICK l : Ends(h, c, hc, l)
    BY <1>1 DEF Linked
  <2>2. Hop(l, msg, l) /\ Rank(l.at) <= Rank(l.at)
    BY <1>4, RankSays DEF Hop, Leads, StateMsg
  <2>3. Path(<<msg>>, l, l)
    BY <2>2, PathOne
  <2>4. <<msg>> \in Seq(ToClient) /\ q = hc \o <<msg>>
    BY <1>4 DEF Sent
  <2>5. Path(q, Copy(c), l)
    BY <1>2, <2>1, <2>3, <2>4, PathJoin DEF Ends
  <2>6. Ends(h, c, q, l)
    BY <2>1, <2>5 DEF Ends
  <2> QED BY <2>6
<1>9. Growing(h, c, << >>, g \cup {Host})
  BY DEF Growing
<1> QED BY <1>1, <1>6, <1>7, <1>8, <1>9 DEF InOrder

\* The client's last message.
LEMMA ClientLeaves ==
  ASSUME NEW h, NEW c, NEW hc, NEW ch, NEW g, InOrder(h, c, hc, ch, g), Client \notin g, c.over = TRUE,
         NEW p, p = Sent(Host, g, ch, <<StateMsg("EXIT")>>)
  PROVE  InOrder(h, c, << >>, p, g \cup {Client})
<1>1. /\ HostOK(h) /\ ClientOK(c) /\ Wires(h, c, hc, ch, g) /\ Clean(h, c) /\ Asked(h, c, ch)
      /\ Growing(h, c, ch, g)
  BY DEF InOrder
<1>2. /\ ch \in Seq(ToHost) /\ c.out = << >> /\ h.out = << >> /\ g \subseteq Roles
      /\ Host \in g => h.over = TRUE
  BY <1>1 DEF Wires
<1>3. Host \in g \cup {Client} <=> Host \in g
  BY DEF Host, Client
<1>4. PICK msg \in ToHost : msg = StateMsg("EXIT")
  BY DEF StateMsg, ToHost
<1>5. msg.type = "STATE"
  BY <1>4 DEF StateMsg
<1>6. Host \notin g => p = Append(ch, msg)
  BY <1>2, <1>4, AppendIsConcat DEF Sent
<1>7. p \in Seq(ToHost) /\ (Host \in g => p = << >>)
  <2>1. CASE Host \in g
    BY <2>1 DEF Sent
  <2>2. CASE Host \notin g
    BY <1>2, <1>6, <2>2, AppendOf
  <2> QED BY <2>1, <2>2
<1>8. Wires(h, c, << >>, p, g \cup {Client})
  <2>1. g \cup {Client} \subseteq Roles /\ << >> \in Seq(ToClient) /\ Len(<< >>) = 0
    BY <1>2 DEF Roles
  <2> QED BY <1>2, <1>3, <1>7, <2>1 DEF Wires
<1>9. Asked(h, c, p)
  <2>1. CASE Host \in g
    BY <1>7, <2>1 DEF Asked
  <2>2. CASE Host \notin g
    BY <1>1, <1>2, <1>5, <1>6, <2>2, AskedMore DEF Timed
  <2> QED BY <2>1, <2>2
<1>10. Linked(h, c, << >>, g \cup {Client})
  BY DEF Linked
<1>11. Growing(h, c, p, g \cup {Client})
  <2> SUFFICES ASSUME HostAt(h) = "PLACE_SHIPS_WAITING", ClientAt(c) = "PLACE_SHIPS_WAITING", Host \notin g
               PROVE  GrowsTo(p, h.p2, c.p2)
    BY <1>3 DEF Growing
  <2>1. GrowsTo(ch, h.p2, c.p2) /\ Grows(c.p2, msg, c.p2)
    BY <1>1, <1>5 DEF Growing, Grows
  <2> QED BY <1>2, <1>5, <1>6, <2>1, GrowsOn
<1> QED BY <1>1, <1>8, <1>9, <1>10, <1>11 DEF InOrder

----------------------------------------------------------------------------
(* The steps of the two programs                                           *)

\* What the two programs are, and what is under way.
LEMMA DuelSays ==
  ASSUME DuelInv
  PROVE  /\ InOrder(con[Host], con[Client], net[Client], net[Host], gone)
         /\ HostOK(con[Host]) /\ ClientOK(con[Client])
         /\ Running(Host) => Host \notin gone
         /\ Running(Client) => Client \notin gone
         /\ con[Host].role = Host /\ con[Client].role = Client
  BY DEF DuelInv, InOrder, Wires, Running, HostOK, HostShape, ClientOK, ClientShape

\* The host becomes another.
LEMMA HostBecame ==
  ASSUME DuelInv, NEW n, Become(Host, n),
         InOrder(Spare(n), con[Client], Sent(Client, gone, net[Client], n.out), net[Host], gone)
  PROVE  DuelInv'
<1>1. DOMAIN con = Roles /\ DOMAIN net = Roles /\ Host \in Roles /\ Client \in Roles /\ Host # Client
  BY DEF DuelInv, Roles, Host, Client
<1>2. Peer(Host) = Client
  BY DEF Peer
<1>3. /\ DOMAIN con' = Roles /\ con'[Host] = Spare(n) /\ con'[Client] = con[Client]
      /\ DOMAIN net' = Roles /\ net'[Client] = Posted(Client, n.out) /\ net'[Host] = net[Host]
      /\ gone' = gone
  BY <1>1, <1>2 DEF Become
<1>4. net'[Client] = Sent(Client, gone, net[Client], n.out)
  BY <1>3 DEF Posted, Sent
<1> QED BY <1>3, <1>4 DEF DuelInv

\* The client becomes another.
LEMMA ClientBecame ==
  ASSUME DuelInv, NEW n, Become(Client, n),
         InOrder(con[Host], Spare(n), net[Client], Sent(Host, gone, net[Host], n.out), gone)
  PROVE  DuelInv'
<1>1. DOMAIN con = Roles /\ DOMAIN net = Roles /\ Host \in Roles /\ Client \in Roles /\ Host # Client
  BY DEF DuelInv, Roles, Host, Client
<1>2. Peer(Client) = Host
  BY <1>1 DEF Peer
<1>3. /\ DOMAIN con' = Roles /\ con'[Client] = Spare(n) /\ con'[Host] = con[Host]
      /\ DOMAIN net' = Roles /\ net'[Host] = Posted(Host, n.out) /\ net'[Client] = net[Client]
      /\ gone' = gone
  BY <1>1, <1>2 DEF Become
<1>4. net'[Host] = Sent(Host, gone, net[Host], n.out)
  BY <1>3 DEF Posted, Sent
<1> QED BY <1>3, <1>4 DEF DuelInv

\* A step of the host alone.
LEMMA HostAlone ==
  ASSUME DuelInv, Running(Host), NEW n, HostStep(con[Host], n), Become(Host, n),
         Patient => Rests(con[Host], n) \/ \A i \in 1 .. Len(net[Host]) : net[Host][i].type # "ATTACK"
  PROVE  DuelInv'
<1>1. InOrder(con[Host], con[Client], net[Client], net[Host], gone) /\ Host \notin gone
  BY DuelSays
<1>2. InOrder(Spare(n), con[Client], Sent(Client, gone, net[Client], n.out), net[Host], gone)
  BY <1>1, HostMoves
<1> QED BY <1>2, HostBecame

\* A step of the client alone.
LEMMA ClientAlone ==
  ASSUME DuelInv, Running(Client), NEW n, ClientStep(con[Client], n), Become(Client, n),
         NEW T, Says(con[Client], n, T), T \subseteq {"HELLO", "QUIT", "STATE", "ATTACK"},
         Host \notin gone /\ "HELLO" \in T => net[Host] = << >> /\ con[Client].tag = "WAITING_CONNECT",
         Host \notin gone /\ "ATTACK" \in T /\ Patient =>
           Settled(con[Host]) /\ \A i \in 1 .. Len(net[Host]) : net[Host][i].type # "ATTACK"
  PROVE  DuelInv'
<1>1. InOrder(con[Host], con[Client], net[Client], net[Host], gone) /\ Client \notin gone
  BY DuelSays
<1>2. InOrder(con[Host], Spare(n), net[Client], Sent(Host, gone, net[Host], n.out), gone)
  BY <1>1, ClientMoves
<1> QED BY <1>2, ClientBecame

----------------------------------------------------------------------------
(* The players of the two programs                                         *)

\* What a player of the host does.
LEMMA HostPlays == ASSUME DuelInv, Player(Host) PROVE DuelInv'
<1>1. HostOK(con[Host]) /\ con[Host].role = Host
  BY DuelSays
<1>2. CASE Menu(Host)
  <2>1. PICK option \in 1 .. 3 : Become(Host, MenuChoose(con[Host], option))
    BY <1>2 DEF Menu
  <2>2. PICK n : n = MenuChoose(con[Host], option)
    OBVIOUS
  <2>3. HostStep(con[Host], n) /\ Rests(con[Host], n)
    BY <1>1, <1>2, <2>2, MenuSteps DEF Menu
  <2> QED BY <1>2, <2>1, <2>2, <2>3, HostAlone DEF Menu
<1>3. CASE LeaveInstructions(Host)
  <2>1. PICK n : n = Transition(con[Host], "MAIN_MENU")
    OBVIOUS
  <2>2. HostStep(con[Host], n) /\ Rests(con[Host], n)
    BY <1>1, <1>3, <2>1, InstructionsStep DEF LeaveInstructions
  <2> QED BY <1>3, <2>1, <2>2, HostAlone DEF LeaveInstructions
<1>4. CASE Place(Host)
  <2>1. PICK cells \in Footprints(ShipSizes[con[Host].idx + 1]) : Become(Host, PutShip(con[Host], cells))
    BY <1>4 DEF Place
  <2>2. PICK n : n = PutShip(con[Host], cells)
    OBVIOUS
  <2>3. con[Host].tag = "PLACE_SHIPS_P1"
    <3>1. con[Host].tag # "PLACE_SHIPS_P2"
      BY <1>1 DEF HostOK, HostScreens
    <3> QED BY <1>1, <1>4, <3>1 DEF Place, PlacesByKey, PlacesByMouse
  <2>4. HostStep(con[Host], n) /\ Rests(con[Host], n)
    BY <1>1, <2>2, <2>3, PlaceSteps
  <2> QED BY <1>4, <2>1, <2>2, <2>4, HostAlone DEF Place
<1>5. CASE Fire(Host)
  <2>1. PICK x \in Cells : Become(Host, FireAt(con[Host], x))
    BY <1>5 DEF Fire
  <2>2. PICK n : n = FireAt(con[Host], x)
    OBVIOUS
  <2>3. Patient => Settled(con[Host]) /\ \A i \in 1 .. Len(net[Host]) : net[Host][i].type # "ATTACK"
    <3>1. Patient => ~ShotOpen
      BY <1>5 DEF Fire, Patient
    <3>2. net[Host] \in Seq(ToHost)
      BY DEF DuelInv, InOrder, Wires
    <3>3. DOMAIN net[Host] = 1 .. Len(net[Host])
      BY <3>2
    <3> QED BY <3>1, <3>3 DEF ShotOpen
  <2>4. HostStep(con[Host], n)
    BY <1>1, <1>5, <2>2, <2>3, FireSteps DEF Fire
  <2> QED BY <1>5, <2>1, <2>2, <2>3, <2>4, HostAlone DEF Fire
<1>6. CASE Pause(Host)
  <2>1. PICK n : n = Transition(con[Host], "PAUSED")
    OBVIOUS
  <2>2. HostStep(con[Host], n) /\ Rests(con[Host], n)
    BY <1>1, <1>6, <2>1, PauseSteps DEF Pause
  <2> QED BY <1>6, <2>1, <2>2, HostAlone DEF Pause
<1>7. CASE PauseEnter(Host)
  <2>1. PICK option \in 0 .. 1 : Become(Host, PauseChoose(con[Host], option))
    BY <1>7 DEF PauseEnter
  <2>2. PICK n : n = PauseChoose(con[Host], option)
    OBVIOUS
  <2>3. HostStep(con[Host], n) /\ Rests(con[Host], n)
    BY <1>1, <1>7, <2>2, PauseEnterSteps DEF PauseEnter
  <2> QED BY <1>7, <2>1, <2>2, <2>3, HostAlone DEF PauseEnter
<1>8. CASE PauseArrow(Host)
  <2>1. PICK n : n = Arrow(con[Host], "down")
    OBVIOUS
  <2>2. HostStep(con[Host], n) /\ Rests(con[Host], n)
    BY <1>1, <1>8, <2>1, ArrowSteps DEF PauseArrow
  <2> QED BY <1>8, <2>1, <2>2, HostAlone DEF PauseArrow
<1>9. CASE GameOverEnter(Host)
  <2>1. PICK n : n = Rematch(con[Host])
    OBVIOUS
  <2>2. HostStep(con[Host], n) /\ Rests(con[Host], n)
    BY <1>1, <1>9, <2>1, RematchSteps DEF GameOverEnter
  <2> QED BY <1>9, <2>1, <2>2, HostAlone DEF GameOverEnter
<1>10. CASE GameOverEsc(Host)
  <2>1. PICK n : n = [con[Host] EXCEPT !.over = TRUE]
    OBVIOUS
  <2>2. HostStep(con[Host], n) /\ Rests(con[Host], n)
    BY <1>1, <2>1, OverSteps
  <2> QED BY <1>10, <2>1, <2>2, HostAlone DEF GameOverEsc
<1> QED BY <1>2, <1>3, <1>4, <1>5, <1>6, <1>7, <1>8, <1>9, <1>10 DEF Player

\* A client that does nothing.
LEMMA ClientIdles == ASSUME NEW n, ClientOK(n) PROVE ClientStep(n, n) /\ \A T : Says(n, n, T)
  BY DEF ClientStep, Says

\* What a player of the client does.
LEMMA ClientPlays == ASSUME DuelInv, Player(Client) PROVE DuelInv'
<1>1. ClientOK(con[Client]) /\ con[Client].role = Client
  BY DuelSays
<1>2. CASE Menu(Client)
  <2>1. PICK option \in 1 .. 3 : Become(Client, MenuChoose(con[Client], option))
    BY <1>2 DEF Menu
  <2>2. PICK n : n = MenuChoose(con[Client], option)
    OBVIOUS
  <2>3. ClientStep(con[Client], n) /\ Says(con[Client], n, {"QUIT"})
    BY <1>1, <1>2, <2>2, ClientMenu DEF Menu
  <2> QED BY <1>2, <2>1, <2>2, <2>3, ClientAlone DEF Menu
<1>3. CASE LeaveInstructions(Client)
  <2>1. PICK n : n = Transition(con[Client], "MAIN_MENU")
    OBVIOUS
  <2>2. ClientStep(con[Client], n) /\ Says(con[Client], n, {})
    BY <1>1, <1>3, <2>1, ClientReads DEF LeaveInstructions, Says
  <2> QED BY <1>3, <2>1, <2>2, ClientAlone DEF LeaveInstructions
<1>4. CASE Place(Client)
  <2>1. PICK cells \in Footprints(ShipSizes[con[Client].idx + 1]) : Become(Client, PutShip(con[Client], cells))
    BY <1>4 DEF Place
  <2>2. PICK n : n = PutShip(con[Client], cells)
    OBVIOUS
  <2>3. con[Client].tag = "PLACE_SHIPS_P2"
    BY <1>1, <1>4 DEF Place, PlacesByKey, PlacesByMouse, Host, Client
  <2>4. n = con[Client] \/ \E ship : Placed(con[Client], n, ship)
    BY <1>1, <2>2, <2>3, ClientPlaces
  <2>5. CASE n = con[Client]
    <3>1. ClientStep(con[Client], n) /\ Says(con[Client], n, {})
      BY <1>1, <2>5, ClientIdles
    <3> QED BY <1>4, <2>1, <2>2, <3>1, ClientAlone DEF Place
  <2>6. CASE \E ship : Placed(con[Client], n, ship)
    <3>1. PICK ship : Placed(con[Client], n, ship)
      BY <2>6
    <3>2. InOrder(con[Host], con[Client], net[Client], net[Host], gone) /\ Client \notin gone
      BY <1>4, DuelSays DEF Place
    <3>3. InOrder(con[Host], Spare(n), net[Client], Sent(Host, gone, net[Host], n.out), gone)
      BY <2>3, <3>1, <3>2, ClientPuts
    <3> QED BY <2>1, <2>2, <3>3, ClientBecame
  <2> QED BY <2>4, <2>5, <2>6
<1>5. CASE Fire(Client)
  <2>1. PICK x \in Cells : Become(Client, FireAt(con[Client], x))
    BY <1>5 DEF Fire
  <2>2. PICK n : n = FireAt(con[Client], x)
    OBVIOUS
  <2>3. Patient => Settled(con[Host]) /\ \A i \in 1 .. Len(net[Host]) : net[Host][i].type # "ATTACK"
    <3>1. Patient => ~ShotOpen
      BY <1>5 DEF Fire, Patient
    <3>2. net[Host] \in Seq(ToHost)
      BY DEF DuelInv, InOrder, Wires
    <3>3. DOMAIN net[Host] = 1 .. Len(net[Host])
      BY <3>2
    <3> QED BY <3>1, <3>3 DEF ShotOpen
  <2>4. ClientStep(con[Client], n) /\ Says(con[Client], n, {"ATTACK"})
    BY <1>1, <2>2, ClientFires
  <2> QED BY <1>5, <2>1, <2>2, <2>3, <2>4, ClientAlone DEF Fire
<1>6. CASE Pause(Client)
  <2>1. PICK n : n = Transition(con[Client], "PAUSED")
    OBVIOUS
  <2>2. ClientStep(con[Client], n) /\ Says(con[Client], n, {})
    BY <1>1, <1>6, <2>1, ClientPauses DEF Pause, Says
  <2> QED BY <1>6, <2>1, <2>2, ClientAlone DEF Pause
<1>7. CASE PauseEnter(Client)
  <2>1. PICK option \in 0 .. 1 : Become(Client, PauseChoose(con[Client], option))
    BY <1>7 DEF PauseEnter
  <2>2. PICK n : n = PauseChoose(con[Client], option)
    OBVIOUS
  <2>3. ClientStep(con[Client], n) /\ Says(con[Client], n, {"QUIT"})
    BY <1>1, <1>7, <2>2, ClientResumes DEF PauseEnter
  <2> QED BY <1>7, <2>1, <2>2, <2>3, ClientAlone DEF PauseEnter
<1>8. CASE PauseArrow(Client)
  <2>1. PICK n : n = Arrow(con[Client], "down")
    OBVIOUS
  <2>2. ClientStep(con[Client], n) /\ Says(con[Client], n, {})
    BY <1>1, <1>8, <2>1, ClientArrows DEF PauseArrow, Says
  <2> QED BY <1>8, <2>1, <2>2, ClientAlone DEF PauseArrow
<1>9. CASE GameOverEnter(Client)
  <2>1. PICK n : n = Rematch(con[Client])
    OBVIOUS
  <2>2. ClientStep(con[Client], n) /\ Says(con[Client], n, {"STATE"})
    BY <1>1, <1>9, <2>1, ClientRematch DEF GameOverEnter
  <2> QED BY <1>9, <2>1, <2>2, ClientAlone DEF GameOverEnter
<1>10. CASE GameOverEsc(Client)
  <2>1. PICK n : n = [con[Client] EXCEPT !.over = TRUE]
    OBVIOUS
  <2>2. DOMAIN con[Client] = Fields
    BY <1>1, ClientFields
  <2>3. DOMAIN n = Fields /\ n.over = TRUE /\ \A f \in Fields \ {"over", "out"} : n[f] = con[Client][f]
    BY <2>1, <2>2 DEF Fields
  <2>4. n.out = con[Client].out
    BY <2>1, <2>2 DEF Fields
  <2>5. ClientStep(con[Client], n) /\ Says(con[Client], n, {"QUIT"})
    BY <1>1, <2>3, <2>4, ClientEnds
  <2> QED BY <1>10, <2>1, <2>5, ClientAlone DEF GameOverEsc
<1> QED BY <1>2, <1>3, <1>4, <1>5, <1>6, <1>7, <1>8, <1>9, <1>10 DEF Player

----------------------------------------------------------------------------
(* The machines                                                            *)

\* A message is delivered.
LEMMA MessageDelivered == ASSUME DuelInv, NEW r \in Roles, Deliver(r) PROVE DuelInv'
<1>1. /\ InOrder(con[Host], con[Client], net[Client], net[Host], gone)
      /\ con[Host].role = Host /\ con[Client].role = Client /\ Running(r) /\ net[r] # << >>
      /\ Running(Host) => Host \notin gone
      /\ Running(Client) => Client \notin gone
  BY DuelSays DEF Deliver
<1>2. DOMAIN con = Roles /\ DOMAIN net = Roles /\ Host \in Roles /\ Client \in Roles /\ Host # Client
  BY DEF DuelInv, Roles, Host, Client
<1>3. PICK n : n = Receive(con[r], Head(net[r]))
  OBVIOUS
<1>4. /\ con' = [con EXCEPT ![r] = Spare(n)] /\ gone' = gone
      /\ net' = [net EXCEPT ![r] = Tail(@), ![Peer(r)] = Posted(Peer(r), n.out)]
  BY <1>3 DEF Deliver
<1>5. CASE r = Host
  <2>1. n = HostReceives(con[Host], Head(net[Host])) /\ Host \notin gone /\ net[Host] # << >>
    BY <1>1, <1>3, <1>5 DEF Receive
  <2>2. InOrder(Spare(n), con[Client], Sent(Client, gone, net[Client], n.out), Tail(net[Host]), gone)
    BY <1>1, <2>1, HostHears
  <2>3. Peer(r) = Client
    BY <1>5 DEF Peer
  <2>4. /\ DOMAIN con' = Roles /\ con'[Host] = Spare(n) /\ con'[Client] = con[Client]
        /\ DOMAIN net' = Roles /\ net'[Host] = Tail(net[Host]) /\ net'[Client] = Posted(Client, n.out)
    BY <1>2, <1>4, <1>5, <2>3
  <2>5. net'[Client] = Sent(Client, gone, net[Client], n.out)
    BY <2>4 DEF Posted, Sent
  <2> QED BY <1>4, <2>2, <2>4, <2>5 DEF DuelInv
<1>6. CASE r = Client
  <2>1. n = ClientReceives(con[Client], Head(net[Client])) /\ Client \notin gone /\ net[Client] # << >>
    BY <1>1, <1>2, <1>3, <1>6 DEF Receive
  <2>2. InOrder(con[Host], Spare(n), Tail(net[Client]), Sent(Host, gone, net[Host], n.out), gone)
    BY <1>1, <2>1, ClientHears
  <2>3. Peer(r) = Host
    BY <1>2, <1>6 DEF Peer
  <2>4. /\ DOMAIN con' = Roles /\ con'[Client] = Spare(n) /\ con'[Host] = con[Host]
        /\ DOMAIN net' = Roles /\ net'[Client] = Tail(net[Client]) /\ net'[Host] = Posted(Host, n.out)
    BY <1>2, <1>4, <1>6, <2>3
  <2>5. net'[Host] = Sent(Host, gone, net[Host], n.out)
    BY <2>4 DEF Posted, Sent
  <2> QED BY <1>4, <2>2, <2>4, <2>5 DEF DuelInv
<1> QED BY <1>5, <1>6 DEF Roles

\* A timer interrupt on one machine.
LEMMA OneTicks == ASSUME DuelInv, NEW r \in Roles, TickAlone(r) PROVE DuelInv'
<1>1. HostOK(con[Host]) /\ ClientOK(con[Client]) /\ Running(r)
  BY DuelSays DEF TickAlone
<1>2. PICK n \in Tick(con[r]) : Become(r, n)
  BY DEF TickAlone
<1>3. CASE r = Host
  <2>1. HostStep(con[Host], n) /\ Rests(con[Host], n)
    BY <1>1, <1>2, <1>3, HostTicks
  <2> QED BY <1>1, <1>2, <1>3, <2>1, HostAlone
<1>4. CASE r = Client
  <2>1. ClientStep(con[Client], n) /\ Says(con[Client], n, {})
    BY <1>1, <1>2, <1>4, ClientTicks DEF Says
  <2> QED BY <1>1, <1>2, <1>4, <2>1, ClientAlone
<1> QED BY <1>3, <1>4 DEF Roles

\* A program leaves.
LEMMA OneLeaves == ASSUME DuelInv, NEW r \in Roles, Leave(r) PROVE DuelInv'
<1>1. InOrder(con[Host], con[Client], net[Client], net[Host], gone)
  BY DuelSays
<1>2. DOMAIN con = Roles /\ DOMAIN net = Roles /\ Host \in Roles /\ Client \in Roles /\ Host # Client
      /\ con[Host].over \in BOOLEAN /\ con[Client].over \in BOOLEAN
  BY DuelSays DEF DuelInv, Roles, Host, Client, HostOK, HostShape, ClientOK, ClientShape
<1>3. /\ con[r].over /\ r \notin gone /\ gone' = gone \cup {r} /\ con' = con
      /\ net' = [net EXCEPT ![r] = << >>, ![Peer(r)] = Posted(Peer(r), <<StateMsg("EXIT")>>)]
  BY DEF Leave
<1>4. CASE r = Host
  <2>1. con[Host].over = TRUE
    BY <1>2, <1>3, <1>4
  <2>2. InOrder(con[Host], con[Client], Sent(Client, gone, net[Client], <<StateMsg("EXIT")>>), << >>,
                gone \cup {Host})
    BY <1>1, <1>3, <1>4, <2>1, HostLeaves
  <2>3. Peer(r) = Client
    BY <1>4 DEF Peer
  <2>4. DOMAIN net' = Roles /\ net'[Host] = << >> /\ net'[Client] = Posted(Client, <<StateMsg("EXIT")>>)
    BY <1>2, <1>3, <1>4, <2>3
  <2>5. net'[Client] = Sent(Client, gone, net[Client], <<StateMsg("EXIT")>>)
    BY <2>4 DEF Posted, Sent
  <2> QED BY <1>2, <1>3, <1>4, <2>2, <2>4, <2>5 DEF DuelInv
<1>5. CASE r = Client
  <2>1. con[Client].over = TRUE
    BY <1>2, <1>3, <1>5
  <2>2. InOrder(con[Host], con[Client], << >>, Sent(Host, gone, net[Host], <<StateMsg("EXIT")>>),
                gone \cup {Client})
    BY <1>1, <1>3, <1>5, <2>1, ClientLeaves
  <2>3. Peer(r) = Host
    BY <1>2, <1>5 DEF Peer
  <2>4. DOMAIN net' = Roles /\ net'[Client] = << >> /\ net'[Host] = Posted(Host, <<StateMsg("EXIT")>>)
    BY <1>2, <1>3, <1>5, <2>3
  <2>5. net'[Host] = Sent(Host, gone, net[Host], <<StateMsg("EXIT")>>)
    BY <2>4 DEF Posted, Sent
  <2> QED BY <1>2, <1>3, <1>5, <2>2, <2>4, <2>5 DEF DuelInv
<1> QED BY <1>4, <1>5 DEF Roles

\* The client says hello.
LEMMA HelloSaid == ASSUME DuelInv, SayHello PROVE DuelInv'
<1>1. ClientOK(con[Client])
  BY DuelSays
<1>2. PICK n : n = Send(con[Client], [type |-> "HELLO"])
  OBVIOUS
<1>3. ClientStep(con[Client], n) /\ Says(con[Client], n, {"HELLO"})
  BY <1>1, <1>2, ClientGreets DEF Says
<1> QED BY <1>2, <1>3, ClientAlone DEF SayHello

\* Timer interrupts on both machines.
LEMMA BothTick == ASSUME DuelInv, TickTogether PROVE DuelInv'
<1>1. /\ InOrder(con[Host], con[Client], net[Client], net[Host], gone)
      /\ HostOK(con[Host]) /\ ClientOK(con[Client])
      /\ Running(Host) => Host \notin gone
      /\ Running(Client) => Client \notin gone
  BY DuelSays
<1>2. DOMAIN con = Roles /\ DOMAIN net = Roles /\ Host \in Roles /\ Client \in Roles /\ Host # Client
  BY DEF DuelInv, Roles, Host, Client
<1>3. PICK h \in Tick(con[Host]), c \in Tick(con[Client]) :
        /\ con' = [r \in Roles |-> IF ~Running(r) THEN con[r] ELSE Spare(IF r = Host THEN h ELSE c)]
        /\ net' = [net EXCEPT ![Client] = IF Running(Host) THEN Posted(Client, h.out) ELSE @,
                              ![Host]   = IF Running(Client) THEN Posted(Host, c.out) ELSE @]
        /\ gone' = gone
  BY DEF TickTogether
<1> DEFINE h1 == IF Running(Host) THEN Spare(h) ELSE con[Host]
           q1 == IF Running(Host) THEN Posted(Client, h.out) ELSE net[Client]
           c1 == IF Running(Client) THEN Spare(c) ELSE con[Client]
           p1 == IF Running(Client) THEN Posted(Host, c.out) ELSE net[Host]
<1>4. InOrder(h1, con[Client], q1, net[Host], gone)
  <2>1. CASE ~Running(Host)
    BY <1>1, <2>1
  <2>2. CASE Running(Host)
    <3>1. HostStep(con[Host], h) /\ Rests(con[Host], h)
      BY <1>1, HostTicks
    <3>2. InOrder(Spare(h), con[Client], Sent(Client, gone, net[Client], h.out), net[Host], gone)
      BY <1>1, <2>2, <3>1, HostMoves
    <3> QED BY <2>2, <3>2 DEF Posted, Sent
  <2> QED BY <2>1, <2>2
<1>5. InOrder(h1, c1, q1, p1, gone)
  <2> HIDE DEF h1, q1
  <2>1. CASE ~Running(Client)
    BY <1>4, <2>1
  <2>2. CASE Running(Client)
    <3>1. ClientStep(con[Client], c) /\ Says(con[Client], c, {})
      BY <1>1, ClientTicks DEF Says
    <3>2. InOrder(h1, Spare(c), q1, Sent(Host, gone, net[Host], c.out), gone)
      BY <1>1, <1>4, <2>2, <3>1, ClientMoves
    <3> QED BY <2>2, <3>2 DEF Posted, Sent
  <2> QED BY <2>1, <2>2
<1>6. DOMAIN con' = Roles /\ con'[Host] = h1 /\ con'[Client] = c1
  BY <1>2, <1>3
<1>7. DOMAIN net' = Roles /\ net'[Client] = q1 /\ net'[Host] = p1
  BY <1>2, <1>3
<1> HIDE DEF h1, q1, c1, p1
<1> QED BY <1>3, <1>5, <1>6, <1>7 DEF DuelInv

----------------------------------------------------------------------------
(* The invariant                                                           *)

\* Two programs that have just started.
LEMMA DuelBegins == ASSUME Init PROVE DuelInv
<1>1. PICK h : h = Fresh(Host)
  OBVIOUS
<1>2. PICK c : c = Fresh(Client)
  OBVIOUS
<1>3. DOMAIN con = Roles /\ DOMAIN net = Roles /\ con[Host] = h /\ con[Client] = c
      /\ net[Host] = << >> /\ net[Client] = << >> /\ gone = {}
  BY <1>1, <1>2 DEF Init, Roles, Host, Client
<1>4. Good(EmptyBoard) /\ BoardType(EmptyBoard)
  BY EmptyIsGood DEF Good
<1>5. HostOK(h)
  <2>1. /\ DOMAIN h = Fields /\ h.role = Host /\ h.tag = "MAIN_MENU" /\ h.prev = "MAIN_MENU" /\ h.over = FALSE
        /\ h.single = FALSE /\ h.connected = FALSE /\ h.word = 0 /\ h.idx = 0
        /\ h.p1 = EmptyBoard /\ h.p2 = EmptyBoard /\ h.secs = 0 /\ h.cticks = 0 /\ h.waiting = FALSE
        /\ h.post = 0 /\ h.expl = "none" /\ h.done = FALSE /\ h.at = <<0, 0>> /\ h.out = << >>
    BY <1>1 DEF Fresh, Fields
  <2>2. Screen(h) = "MAIN_MENU" /\ HostAt(h) = "lobby"
    BY <2>1 DEF Screen, HostAt, Lobby
  <2>3. HostShape(h)
    <3>1. << >> \in Seq(ToClient) /\ h.at \in Cells
      BY <2>1, OriginIsCell
    <3> QED BY <1>4, <2>1, <3>1 DEF HostShape
  <2>4. Ranges(h)
    BY <2>1, TimingAssumption DEF Ranges, Tags
  <2>5. HostScreens(h) /\ HostBoards(h) /\ UnderWay(h)
    BY <2>1, <2>2 DEF HostScreens, HostBoards, UnderWay, Exploding, Fighting, Turns
  <2> QED BY <2>3, <2>4, <2>5 DEF HostOK
<1>6. /\ DOMAIN c = Fields /\ c.role = Client /\ c.tag = "MAIN_MENU" /\ c.prev = "MAIN_MENU" /\ c.over = FALSE
      /\ c.single = FALSE /\ c.word = 0 /\ c.p1 = EmptyBoard /\ c.p2 = EmptyBoard
      /\ c.secs = 0 /\ c.cticks = 0 /\ c.waiting = FALSE /\ c.post = 0 /\ c.out = << >>
  BY <1>2 DEF Fresh, Fields
<1>7. Screen(c) = "MAIN_MENU" /\ ClientAt(c) = "lobby"
  BY <1>6 DEF Screen, ClientAt, Lobby
<1>8. ClientOK(c)
  <2>1. ClientShape(c)
    <3>1. << >> \in Seq(ToHost)
      OBVIOUS
    <3> QED BY <1>4, <1>6, <3>1 DEF ClientShape
  <2>2. Ranges(c)
    BY <1>6, TimingAssumption DEF Ranges, Tags
  <2>3. ClientScreens(c)
    BY <1>6, <1>7 DEF ClientScreens
  <2> QED BY <2>1, <2>2, <2>3 DEF ClientOK
<1>9. h.out = << >> /\ HostAt(h) = "lobby"
  BY <1>1 DEF Fresh, HostAt, Screen, Lobby
<1>10. Wires(h, c, << >>, << >>, {})
  <2>1. << >> \in Seq(ToClient) /\ << >> \in Seq(ToHost) /\ Len(<< >>) = 0
    OBVIOUS
  <2> QED BY <1>6, <1>9, <2>1 DEF Wires
<1>11. Asked(h, c, << >>)
  BY DEF Asked
<1>12. Clean(h, c) /\ Growing(h, c, << >>, {})
  BY <1>7, <1>9 DEF Clean, Growing
<1>13. Linked(h, c, << >>, {})
  <2>1. PICK k : k = Copy(c)
    OBVIOUS
  <2>2. k.at = "lobby" /\ k.b1 = EmptyBoard /\ k.b2 = EmptyBoard
    BY <1>7, <2>1 DEF Copy, Idle, Copied
  <2>3. Mirror(h, k)
    BY <1>9, <2>2 DEF Mirror, Fighting
  <2>4. Path(<< >>, k, k)
    BY PathEmpty
  <2>5. Rank(k.at) <= 2
    BY <2>2 DEF Rank
  <2>6. Ends(h, c, << >>, k)
    BY <2>1, <2>2, <2>3, <2>4, <2>5 DEF Ends
  <2> QED BY <2>6 DEF Linked
<1>14. InOrder(h, c, << >>, << >>, {})
  BY <1>5, <1>8, <1>10, <1>11, <1>12, <1>13 DEF InOrder
<1> QED BY <1>3, <1>14 DEF DuelInv

\* A step of the system.
LEMMA DuelGoesOn == ASSUME DuelInv, [Next]_vars PROVE DuelInv'
<1>1. CASE Next
  <2>1. ASSUME NEW r \in Roles, Player(r) PROVE DuelInv'
    <3>1. r = Host \/ r = Client
      BY DEF Roles
    <3> QED BY <2>1, <3>1, HostPlays, ClientPlays
  <2>2. ASSUME NEW r \in Roles, Machine(r) PROVE DuelInv'
    BY <2>2, MessageDelivered, OneTicks, OneLeaves DEF Machine
  <2>3. CASE SayHello
    BY <2>3, HelloSaid
  <2>4. CASE TickTogether
    BY <2>4, BothTick
  <2> QED BY <1>1, <2>1, <2>2, <2>3, <2>4 DEF Next
<1>2. CASE UNCHANGED vars
  BY <1>2 DEF vars, DuelInv
<1> QED BY <1>1, <1>2

\* Whatever the clocks do and however long the messages take, both programs stay in
\* order and every message finds its receiver ready for it.
THEOREM DuelStaysInOrder == Spec => []DuelInv
<1>1. Init => DuelInv
  BY DuelBegins
<1>2. DuelInv /\ [Next]_vars => DuelInv'
  BY DuelGoesOn
<1> QED BY <1>1, <1>2, PTL DEF Spec

----------------------------------------------------------------------------
(* The theorems                                                            *)

\* The fields of both programs stay in their ranges: in particular no more ships are
\* kept than there are, though the messages place them on the other machine.
THEOREM DuelTypes == Spec => []TypeOK
<1>1. ASSUME DuelInv PROVE TypeOK
  <2>1. HostOK(con[Host]) /\ ClientOK(con[Client]) /\ gone \subseteq Roles
        /\ con[Host].out = << >> /\ con[Client].out = << >>
    BY <1>1 DEF DuelInv, InOrder, Wires
  <2>2. \A r \in Roles : Ranges(con[r]) /\ con[r].role = r /\ con[r].out = << >>
    BY <2>1 DEF Roles, HostOK, HostShape, ClientOK, ClientShape
  <2>3. \A r \in Roles : BoardType(con[r].p1) /\ BoardType(con[r].p2)
    BY <2>1 DEF Roles, HostOK, HostShape, ClientOK, ClientShape, Good
  <2> QED BY <2>1, <2>2, <2>3 DEF TypeOK, Ranges, BoardType
<1> QED BY <1>1, DuelStaysInOrder, PTL

\* With nothing under way the client is where the host is.
LEMMA QuietMirrors ==
  ASSUME DuelInv, Quiet
  PROVE  /\ HostOK(HostView) /\ ClientOK(ClientView) /\ Mirror(HostView, Copy(ClientView))
         /\ Copy(ClientView).at = ClientAt(ClientView)
<1>1. HostOK(HostView) /\ ClientOK(ClientView)
  BY DuelSays DEF HostView, ClientView
<1>2. net[Client] = << >> /\ Client \notin gone
  BY DEF Quiet, Roles
<1>3. PICK l : Ends(HostView, ClientView, net[Client], l)
  BY <1>2 DEF DuelInv, InOrder, Linked, HostView, ClientView
<1>4. net[Client] \in Seq(ToClient)
  BY DEF DuelInv, InOrder, Wires
<1>5. Path(net[Client], Copy(ClientView), l) /\ Mirror(HostView, l)
  BY <1>3 DEF Ends
<1>6. l = Copy(ClientView)
  BY <1>2, <1>4, <1>5, PathRank
<1> QED BY <1>1, <1>5, <1>6, ClientWhere

\* The host tells the client of every change of screen in a game, in time and in order:
\* when nothing is under way both are on the same one.
THEOREM DuelInStep == Spec => []InStep
<1>1. ASSUME DuelInv PROVE InStep
  <2> SUFFICES ASSUME Quiet, Screen(HostView) \in Fighting \cup {"PLACE_SHIPS_P1", "PLACE_SHIPS_WAITING"}
               PROVE  \/ Screen(ClientView) = Screen(HostView)
                      \/ Screen(HostView) = "PLACE_SHIPS_WAITING" /\ Screen(ClientView) = "PLACE_SHIPS_P2"
    BY DEF InStep
  <2>1. Mirror(HostView, Copy(ClientView)) /\ Copy(ClientView).at = ClientAt(ClientView)
    BY <1>1, QuietMirrors
  <2>2. HostAt(HostView) = Screen(HostView) /\ HostAt(HostView) # "lobby"
    BY DEF HostAt, Lobby, Fighting
  <2>3. ClientAt(ClientView) = Screen(HostView)
    BY <2>1, <2>2 DEF Mirror
  <2> QED BY <2>2, <2>3 DEF ClientAt, Fighting
<1> QED BY <1>1, DuelStaysInOrder, PTL

\* A result told once, in order, keeps the client's copies of both boards exact, for
\* players who wait for each result.
THEOREM DuelCopiesAgree == ASSUME Hasty = {} PROVE Spec => []CopiesAgree
<1>1. ASSUME DuelInv PROVE CopiesAgree
  <2> SUFFICES ASSUME Quiet, Settled(HostView), Screen(HostView) \in Fighting, Screen(ClientView) \in Fighting
               PROVE  /\ ClientView.p1.grid = HostView.p1.grid
                      /\ ClientView.p2.grid = HostView.p2.grid
                      /\ ClientView.p1.sunk = HostView.p1.sunk
                      /\ ClientView.p2.sunk = HostView.p2.sunk
    BY DEF CopiesAgree
  <2>1. ClientOK(ClientView) /\ Mirror(HostView, Copy(ClientView)) /\ Copy(ClientView).at = ClientAt(ClientView)
    BY <1>1, QuietMirrors
  <2>2. ClientAt(ClientView) = Screen(ClientView) /\ ClientAt(ClientView) # "lobby"
    BY DEF ClientAt, Lobby, Fighting
  <2>3. Copy(ClientView).b1 = ClientView.p1 /\ Copy(ClientView).b2 = ClientView.p2
    BY <2>1, <2>2, ClientWhere
  <2>4. Told(HostView, Copy(ClientView))
    BY <2>1, <2>2 DEF Mirror, Patient
  <2>5. ~Untold(HostView)
    BY DEF Settled, Untold
  <2> QED BY <2>3, <2>4, <2>5 DEF Told, Agree
<1> QED BY <1>1, DuelStaysInOrder, PTL
=============================================================================
