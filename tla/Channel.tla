------------------------------ MODULE Channel ------------------------------
(***************************************************************************)
(* What the serial connection promises one direction of the game: what is   *)
(* delivered is what was sent, in the order it was sent.  Once a byte is     *)
(* damaged or lost the promise ends; what was delivered before stands.       *)
(***************************************************************************)
EXTENDS Naturals, Sequences

CONSTANT Message

VARIABLES sent, got, damaged

vars == <<sent, got, damaged>>

Init == sent = << >> /\ got = << >> /\ damaged = FALSE

Send == \E msg \in Message : sent' = Append(sent, msg) /\ UNCHANGED <<got, damaged>>

\* One or more of the messages under way arrive.
Deliver ==
  /\ ~damaged
  /\ \E n \in Len(got) + 1 .. Len(sent) : got' = SubSeq(sent, 1, n)
  /\ UNCHANGED <<sent, damaged>>

Damage == damaged' = TRUE /\ UNCHANGED <<sent, got>>

DeliverAny ==
  /\ damaged
  /\ Len(got') > Len(got) /\ SubSeq(got', 1, Len(got)) = got
  /\ UNCHANGED <<sent, damaged>>

Next == Send \/ Deliver \/ Damage \/ DeliverAny

Spec == Init /\ [][Next]_vars
=============================================================================
