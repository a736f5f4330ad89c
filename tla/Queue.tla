------------------------------- MODULE Queue -------------------------------
(***************************************************************************)
(* What a receive buffer promises: the bytes come out in the order they     *)
(* went in, at most Capacity of them wait, and "dropped" says that some were *)
(* refused or thrown away since it was last asked.  That is the promise of   *)
(* uart.c:12, on which handle_serial rests; uart.h:192-193 has it since the  *)
(* last uart_init, and no answer would ever be FALSE again.                  *)
(***************************************************************************)
EXTENDS Naturals, Sequences

CONSTANTS Byte, Capacity

VARIABLES waiting, dropped

vars == <<waiting, dropped>>

Init == waiting = << >> /\ dropped = FALSE

Accept ==
  /\ Len(waiting) < Capacity
  /\ \E b \in Byte : waiting' = Append(waiting, b)
  /\ UNCHANGED dropped

Refuse ==
  /\ Len(waiting) = Capacity
  /\ dropped' = TRUE
  /\ UNCHANGED waiting

Remove ==
  /\ waiting # << >>
  /\ waiting' = Tail(waiting)
  /\ UNCHANGED dropped

Discard == waiting' = << >> /\ dropped' = TRUE

Ask == dropped' = FALSE /\ UNCHANGED waiting

Next == Accept \/ Refuse \/ Remove \/ Discard \/ Ask

Spec == Init /\ [][Next]_vars
=============================================================================
