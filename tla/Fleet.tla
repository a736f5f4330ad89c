------------------------------- MODULE Fleet -------------------------------
(***************************************************************************)
(* What a board promises, without counters or painted cells: a fleet of     *)
(* disjoint ships on the sea and the set of cells shot at.  What a player   *)
(* sees of a cell, and whether the fleet is lost, follow from the two.      *)
(***************************************************************************)
EXTENDS Naturals, Sequences

CONSTANTS Sea,       \* the cells
          FleetSize  \* how many ships make a fleet

VARIABLES fleet,     \* the ships: a sequence of sets of cells
          shots      \* the cells shot at

vars == <<fleet, shots>>

At(x) == {i \in DOMAIN fleet : x \in fleet[i]}

\* A ship is down when every cell of it was shot at.
Down(i) == fleet[i] \subseteq shots

\* What a cell shows.
Colour(x) ==
  IF x \notin shots THEN IF At(x) = {} THEN "empty" ELSE "ship"
  ELSE IF At(x) = {} THEN "miss"
  ELSE IF \E i \in At(x) : Down(i) THEN "sunk" ELSE "hit"

Complete == Len(fleet) = FleetSize

Lost == Complete /\ \A i \in DOMAIN fleet : Down(i)

Init == fleet = << >> /\ shots = {}

\* A ship joins the fleet on free water, before any shot.
Deploy ==
  /\ Len(fleet) < FleetSize
  /\ \E s \in (SUBSET Sea) \ {{}} :
       /\ \A i \in DOMAIN fleet : fleet[i] \cap s = {}
       /\ fleet' = Append(fleet, s)
  /\ UNCHANGED shots

\* A complete fleet is shot at, never twice at the same cell.
Shoot ==
  /\ Complete
  /\ \E x \in Sea \ shots : shots' = shots \cup {x}
  /\ UNCHANGED fleet

Clear == fleet' = << >> /\ shots' = {}

Next == Deploy \/ Shoot \/ Clear

Spec == Init /\ [][Next]_vars
=============================================================================
