-------------------------------- MODULE Ring --------------------------------
(***************************************************************************)
(* The software receive buffer of src/project/src/serial/uart.c: an array    *)
(* with two indices kept in range by a mask, one slot always free.  A ring   *)
(* is a record of the four file-static variables; the size is a power of     *)
(* two, so that the mask is the remainder.                                   *)
(***************************************************************************)
EXTENDS Naturals, Sequences

CONSTANTS Byte,     \* what a byte may be
          Zero,     \* what the array is filled with when the program starts
          RingSize  \* UART_RXBUF_SIZE

ASSUME RingAssumption ==
  /\ Zero \in Byte
  /\ RingSize \in Nat
  /\ RingSize > 1

Slots == 0 .. RingSize - 1

EmptyRing == [data |-> [i \in Slots |-> Zero], head |-> 0, tail |-> 0, overflowed |-> FALSE]

\* The index after i, under the mask.
After(i) == (i + 1) % RingSize

\* rxbuf_push: a byte that finds the ring full is dropped, and that is noted.
Push(r, b) ==
  IF After(r.head) # r.tail
  THEN [r EXCEPT !.data[r.head] = b, !.head = After(r.head)]
  ELSE [r EXCEPT !.overflowed = TRUE]

NonEmpty(r) == r.tail # r.head

\* rxbuf_pop, when there is a byte.
Pop(r) == [r EXCEPT !.tail = After(r.tail)]

\* rxbuf_discard_all.  Alone it is a plausible bug:
DiscardAll(r) == [r EXCEPT !.head = r.tail]

\* uart_ih never calls it without a note that bytes are missing.
Spoilt(r) == [DiscardAll(r) EXCEPT !.overflowed = TRUE]

\* What is left when a loop has popped every byte.
Emptied(r) == [r EXCEPT !.tail = r.head]

\* uart_rx_overflow forgets what it tells.
AskedOverflow(r) == [r EXCEPT !.overflowed = FALSE]

\* The bytes of the ring in the order rxbuf_pop returns them.
Held(r) == IF r.head >= r.tail THEN r.head - r.tail ELSE r.head + RingSize - r.tail
Queued(r) == [k \in 1 .. Held(r) |-> r.data[(r.tail + k - 1) % RingSize]]
=============================================================================
