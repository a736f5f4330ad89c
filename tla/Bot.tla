-------------------------------- MODULE Bot --------------------------------
(***************************************************************************)
(* The "Hunt and Target" opponent of src/project/src/controller/bot.c, as   *)
(* operators on a record of its file-static variables.  rand() is a choice  *)
(* from a set.  The probing loop of bot_choose_attack, which walks over hit *)
(* cells and turns when it is blocked, is stated as a list of probes: each  *)
(* is a direction and a starting cell, and the first open one is taken.     *)
(***************************************************************************)
EXTENDS Board

Modes == {"random", "search", "destroy"}

BotReset == [mode |-> "random", first |-> <<0, 0>>, curr |-> <<0, 0>>, dir |-> 0, tried |-> 0]

BotType == [mode : Modes, first : Cells, curr : Cells, dir : 0 .. 3, tried : 0 .. 4]

\* The fleets it may draw: every ship fits on what is free when its turn comes.
Fleets(b) ==
  {f \in [1 .. NumShips -> UNION {Footprints(ShipSizes[i]) : i \in 1 .. NumShips}] :
     \A i \in 1 .. NumShips :
       /\ f[i] \in Footprints(ShipSizes[i])
       /\ CanPlace(b, f[i])
       /\ \A j \in 1 .. i - 1 : f[i] \cap f[j] = {}}

\* bot_place_ships: one board_place_ship for each of them.
PlaceFleet(b) ==
  {[b EXCEPT !.grid  = [x \in Cells |-> IF \E i \in 1 .. NumShips : x \in f[i]
                                        THEN "ship" ELSE b.grid[x]],
             !.ships = b.ships \o [i \in 1 .. NumShips |->
                                     [cells |-> f[i], size |-> ShipSizes[i],
                                      hits |-> 0, sunk |-> FALSE]]] : f \in Fleets(b)}

----------------------------------------------------------------------------
(* bot_choose_attack                                                       *)

\* hunt_dir: 0 up, 1 right, 2 down, 3 left.
Ahead(x, dir, k) ==
  CASE dir = 0 -> <<x[1], x[2] - k>>
    [] dir = 1 -> <<x[1] + k, x[2]>>
    [] dir = 2 -> <<x[1], x[2] + k>>
    [] dir = 3 -> <<x[1] - k, x[2]>>

\* The first cell in a direction that is not a hit one ("continue" in the loop).
Reach(b, x, dir) ==
  LET walked(k) == Ahead(x, dir, k) \in Cells /\ b.grid[Ahead(x, dir, k)] = "hit"
      k == CHOOSE n \in 1 .. Cols + Rows : ~walked(n) /\ \A j \in 1 .. n - 1 : walked(j)
  IN  Ahead(x, dir, k)

\* A plausible bug: opposite sides are not tried in MODE_DESTROY.
QuarterTurn(bot) == 1

\* How far a blocked probe turns the hunting direction.
Turn(bot) == IF bot.mode = "search" THEN 1 ELSE 2

\* Probe k starts from the last cell fired at, later ones from the first hit.
ProbeDir(bot, k) == (bot.dir + k * Turn(bot)) % 4
ProbeCell(bot, b, k) == Reach(b, IF k = 0 THEN bot.curr ELSE bot.first, ProbeDir(bot, k))

\* search_dirs_tried stops MODE_SEARCH_DIR, fallback_attempts MODE_DESTROY.
Probes(bot) == IF bot.mode = "search" THEN 4 - bot.tried ELSE 4

OpenProbes(bot, b) ==
  {k \in 0 .. Probes(bot) - 1 :
     ProbeCell(bot, b, k) \in Cells /\ ~AlreadyAttacked(b, ProbeCell(bot, b, k))}

\* A plausible bug: the direction is not taken modulo four.
BlockedTurnsOver(bot, k) ==
  [bot EXCEPT !.dir = @ + k * Turn(bot), !.tried = IF bot.mode = "search" THEN @ + k ELSE @]

\* After k blocked probes the direction has turned k times.
Blocked(bot, k) ==
  [bot EXCEPT !.dir = ProbeDir(bot, k), !.tried = IF bot.mode = "search" THEN @ + k ELSE @]

Random(bot, b) ==
  {[bot EXCEPT !.mode = "random", !.curr = x] : x \in {c \in Cells : ~AlreadyAttacked(b, c)}}

\* A plausible bug: no fallback to MODE_RANDOM when every probe is blocked.
ChooseNoFallback(bot, b) ==
  LET open == OpenProbes(bot, b)
      k    == CHOOSE n \in open : \A j \in open : n <= j
  IN  IF bot.mode = "random" THEN Random(bot, b)
      ELSE IF open = {} THEN {}
      ELSE {[Blocked(bot, k) EXCEPT !.curr = ProbeCell(bot, b, k)]}

\* bot_choose_attack: the bots that may result, each with its target in curr.
Choose(bot, b) ==
  LET open == OpenProbes(bot, b)
      k    == CHOOSE n \in open : \A j \in open : n <= j
  IN  IF bot.mode = "random" THEN Random(bot, b)
      ELSE IF open = {} THEN Random(Blocked(bot, Probes(bot)), b)
      ELSE {[Blocked(bot, k) EXCEPT !.curr = ProbeCell(bot, b, k)]}

----------------------------------------------------------------------------
(* bot_register_result                                                     *)

\* A plausible bug: a sunk ship does not end the hunt.
RegisterKeepsHunting(bot, result) ==
  CASE bot.mode = "random" /\ result # "miss" ->
         [bot EXCEPT !.mode = "search", !.first = bot.curr, !.dir = 0, !.tried = 0]
    [] bot.mode = "search" /\ result # "miss" -> [bot EXCEPT !.mode = "destroy"]
    [] bot.mode = "search" /\ result = "miss" ->
         [bot EXCEPT !.dir = (@ + 1) % 4, !.tried = @ + 1, !.curr = bot.first,
                     !.mode = IF bot.tried + 1 >= 4 THEN "random" ELSE @]
    [] bot.mode = "destroy" /\ result = "miss" ->
         [bot EXCEPT !.dir = (@ + 2) % 4, !.curr = bot.first]
    [] OTHER -> bot

\* A plausible bug: the search stops one direction early.
RegisterThreeTries(bot, result) ==
  IF result = "sunk" \/ (bot.mode = "search" /\ result = "miss" /\ bot.tried + 1 >= 3)
  THEN [bot EXCEPT !.mode = "random"]
  ELSE RegisterKeepsHunting(bot, result)

Register(bot, result) ==
  CASE result = "sunk" -> [bot EXCEPT !.mode = "random"]
    [] bot.mode = "random" /\ result = "hit" ->
         [bot EXCEPT !.mode = "search", !.first = bot.curr, !.dir = 0, !.tried = 0]
    [] bot.mode = "search" /\ result = "hit" -> [bot EXCEPT !.mode = "destroy"]
    [] bot.mode = "search" /\ result = "miss" ->
         [bot EXCEPT !.dir = (@ + 1) % 4, !.tried = @ + 1, !.curr = bot.first,
                     !.mode = IF bot.tried + 1 >= 4 THEN "random" ELSE @]
    [] bot.mode = "destroy" /\ result = "miss" ->
         [bot EXCEPT !.dir = (@ + 2) % 4, !.curr = bot.first]
    [] OTHER -> bot
=============================================================================
