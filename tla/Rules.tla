------------------------------- MODULE Rules -------------------------------
(***************************************************************************)
(* The game as the README's "Game flow" and "Turn rule" tell it: player 1   *)
(* begins, a hit or a sunk ship gives the same player another shot, only a  *)
(* miss ends the turn, and the game ends with the shot that sinks the last  *)
(* ship.  No clocks, screens, animations or messages.                       *)
(***************************************************************************)
EXTENDS Naturals

CONSTANT Sea

VARIABLES turn,    \* whose turn it is, 0 outside a fight
          missed,  \* the player in turn has missed: the turn is to pass
          fleet,   \* the cells of each player's ships
          shots,   \* the cells of each player's sea shot at by the other
          winner   \* 0 until the game is decided

vars == <<turn, missed, fleet, shots, winner>>

Players == {1, 2}
Other(p) == 3 - p
Beaten(p) == fleet[p] \subseteq shots[p]

Init ==
  /\ turn = 0
  /\ missed = FALSE
  /\ fleet = [p \in Players |-> {}]
  /\ shots = [p \in Players |-> {}]
  /\ winner = 0

\* Outside a fight: ships are placed, a decided game is left.
Prepare ==
  /\ turn = 0
  /\ \A p \in Players : fleet'[p] \subseteq Sea
  /\ shots' = [p \in Players |-> {}]
  /\ winner' = 0
  /\ UNCHANGED <<turn, missed>>

Begin ==
  /\ turn = 0
  /\ winner = 0
  /\ \A p \in Players : ~Beaten(p)
  /\ turn' = 1
  /\ UNCHANGED <<missed, fleet, shots, winner>>

\* The player in turn shoots at a fresh cell, as long as there was no miss.
Shoot ==
  /\ turn \in Players
  /\ ~missed
  /\ ~Beaten(Other(turn))
  /\ \E x \in Sea \ shots[Other(turn)] :
       /\ shots' = [shots EXCEPT ![Other(turn)] = @ \cup {x}]
       /\ missed' = (x \notin fleet[Other(turn)])
  /\ UNCHANGED <<turn, fleet, winner>>

Pass ==
  /\ turn \in Players
  /\ missed
  /\ turn' = Other(turn)
  /\ missed' = FALSE
  /\ UNCHANGED <<fleet, shots, winner>>

Win ==
  /\ turn \in Players
  /\ ~missed
  /\ Beaten(Other(turn))
  /\ winner' = turn
  /\ turn' = 0
  /\ UNCHANGED <<missed, fleet, shots>>

Next == Prepare \/ Begin \/ Shoot \/ Pass \/ Win

Spec == Init /\ [][Next]_vars
=============================================================================
