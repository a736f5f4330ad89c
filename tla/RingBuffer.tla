----------------------------- MODULE RingBuffer -----------------------------
(***************************************************************************)
(* The receive ring under any order of the calls uart.c makes on it; in     *)
(* SerialLink the same ring stands in its place between two machines.       *)
(***************************************************************************)
EXTENDS Ring

VARIABLE ring

RingTypeOK == ring \in [data : [Slots -> Byte], head : Slots, tail : Slots, overflowed : BOOLEAN]

RingInit == ring = EmptyRing

PushByte == \E b \in Byte : ring' = Push(ring, b)

PopByte == NonEmpty(ring) /\ ring' = Pop(ring)

Discard == ring' = Spoilt(ring)

AskOverflow == ring' = AskedOverflow(ring)

RingNext == PushByte \/ PopByte \/ Discard \/ AskOverflow

RingSpec == RingInit /\ [][RingNext]_ring

----------------------------------------------------------------------------
(* Properties                                                              *)

Q == INSTANCE Queue WITH Capacity <- RingSize - 1,
       waiting <- Queued(ring), dropped <- ring.overflowed

\* The ring is a bounded first-in first-out queue (uart.c:15-34): wherever the two
\* indices are, no byte is repeated, reordered or overwritten, none is lost
\* without a note, and one is refused exactly when all slots but one are taken.  The
\* note lasts until it is read (uart.c:12, 188-192), not until the next uart_init as
\* uart.h:192-193 says.
ImplementsQueue == Q!Spec
=============================================================================
