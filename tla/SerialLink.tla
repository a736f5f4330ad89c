----------------------------- MODULE SerialLink -----------------------------
(***************************************************************************)
(* One direction of the serial connection, from the handler that sends a     *)
(* message to the one that handles it: proto_send_*, uart_send_buf, the two  *)
(* UARTs and the cable, uart_ih with its ring, handle_serial and the parser. *)
(* The UARTs are external: a byte waits in the sender's holding register     *)
(* until it arrives in the receiver's hardware FIFO, intact or not, or finds *)
(* that full.                                                                *)
(***************************************************************************)
EXTENDS Protocol, RingBuffer

CONSTANTS Message,    \* the messages sent, each the sequence of its bytes
          FifoSize,   \* the receiver's hardware FIFO: 16 bytes
          Burst,      \* bound on the bytes that arrive while one interrupt is served
          MaxSent,    \* bound on the messages sent
          MaxMishaps, \* bound on the bytes damaged or lost and the messages given up
          Impatient   \* ten looks at the sender's line status may be too few, once

ASSUME LinkAssumption ==
  /\ Message \subseteq Seq(Byte)
  /\ \A msg \in Message : Head(msg) \in Types /\ Len(msg) = 1 + PayloadLen[Head(msg)]
  /\ FifoSize \in Nat \ {0} /\ Burst \in Nat /\ RingSize >= 2 * (FifoSize + Burst)
  /\ MaxSent \in Nat /\ MaxMishaps \in Nat /\ Impatient \in BOOLEAN

\* and ring, the receive ring of RingBuffer
VARIABLES out,      \* the bytes uart_send_buf has still to send
          thr,      \* the sender's holding register and the cable
          fifo,     \* the receiver's FIFO: bytes, each damaged or not
          overrun,  \* the receiver's overrun bit
          cause,    \* what uart_ih read in the IIR: RLS, RDA, or "none" outside it
          lsr,      \* what uart_ih last read in the LSR
          during,   \* how many bytes arrived since it read the IIR
          rx,       \* the parser
          sent, got,  \* the messages handed to proto_send_* and to the game
          errors,   \* how many bytes were damaged or lost
          cut,      \* a message was given up halfway
          missed    \* errors the interrupt was not there for: "late", "unseen"

sender == <<out, thr, sent, cut>>
handler == <<cause, lsr>>

vars == <<out, thr, fifo, overrun, cause, lsr, during, ring, rx, sent, got, errors, cut, missed>>

Init ==
  /\ out = << >> /\ thr = << >>
  /\ fifo = << >> /\ overrun = FALSE
  /\ cause = "none" /\ lsr = "unread" /\ during = 0
  /\ ring = EmptyRing /\ rx = Resting
  /\ sent = << >> /\ got = << >>
  /\ errors = 0 /\ cut = FALSE /\ missed = {}

Mishaps == errors + IF cut THEN 1 ELSE 0

----------------------------------------------------------------------------
(* The sender                                                              *)

\* proto_send_*: the message's bytes are put in a buffer.
StartMessage ==
  /\ out = << >> /\ Len(sent) < MaxSent
  /\ \E msg \in Message : out' = msg /\ sent' = Append(sent, msg)
  /\ UNCHANGED <<thr, fifo, overrun, handler, during, ring, rx, got, errors, cut, missed>>

\* uart_send_byte finds the holding register empty.
PutByte ==
  /\ out # << >> /\ thr = << >>
  /\ thr' = <<Head(out)>> /\ out' = Tail(out)
  /\ UNCHANGED <<fifo, overrun, handler, during, ring, rx, sent, got, errors, cut, missed>>

\* uart_send_byte gives up, and with it uart_send_buf; nobody looks at the result.
GiveUp ==
  /\ Impatient /\ ~cut /\ Mishaps < MaxMishaps
  /\ out # << >> /\ thr # << >>
  /\ out' = << >> /\ cut' = TRUE
  /\ UNCHANGED <<thr, fifo, overrun, handler, during, ring, rx, sent, got, errors, missed>>

----------------------------------------------------------------------------
(* The cable.  Bytes arrive while an interrupt is served, too.             *)

Reaches ==
  /\ thr # << >> /\ thr' = << >>
  /\ cause = "none" \/ during < Burst
  /\ during' = IF cause = "none" THEN during ELSE during + 1
  /\ UNCHANGED <<out, handler, ring, rx, sent, got, cut>>

Arrive ==
  /\ Reaches /\ Len(fifo) < FifoSize
  /\ fifo' = Append(fifo, [byte |-> Head(thr), bad |-> FALSE])
  /\ UNCHANGED <<overrun, errors, missed>>

\* A framing or parity error: the byte arrives and is marked.
ArriveBad ==
  /\ Reaches /\ Len(fifo) < FifoSize /\ Mishaps < MaxMishaps
  /\ fifo' = Append(fifo, [byte |-> Head(thr), bad |-> TRUE])
  /\ errors' = errors + 1
  /\ UNCHANGED <<overrun, missed>>

\* Nothing holds the sender back: a full FIFO loses the byte.  The Receiver Line
\* Status interrupt that tells of it comes too late if uart_ih has read its cause.
Overrun ==
  /\ Reaches /\ Len(fifo) = FifoSize /\ Mishaps < MaxMishaps
  /\ overrun' = TRUE
  /\ errors' = errors + 1
  /\ missed' = IF cause = "RDA" THEN missed \cup {"late"} ELSE missed
  /\ UNCHANGED fifo

----------------------------------------------------------------------------
(* The receiver                                                            *)

\* The line is in error: the overrun bit, or the mark of the FIFO's first byte.
LineStatus == overrun \/ (fifo # << >> /\ Head(fifo).bad)

\* Reading the LSR forgets its errors, also when the receiver's own uart_send_byte
\* reads it to see whether there is room: a damaged byte then passes for any other.
LookToSend ==
  /\ cause = "none" /\ LineStatus
  /\ overrun' = FALSE
  /\ IF Head(fifo).bad
     THEN \E b \in Byte : fifo' = [fifo EXCEPT ![1] = [byte |-> b, bad |-> FALSE]]
     ELSE fifo' = fifo
  /\ missed' = missed \cup {"unseen"}
  /\ UNCHANGED <<sender, handler, during, ring, rx, got, errors>>

\* handle_serial calls uart_ih.  The line status comes before the data.
ReadIir ==
  /\ cause = "none" /\ (overrun \/ fifo # << >>)
  /\ cause' = IF LineStatus THEN "RLS" ELSE "RDA"
  /\ UNCHANGED <<sender, fifo, overrun, lsr, during, ring, rx, got, errors, missed>>

\* There is data.  On a line status interrupt all that was received is discarded.
ReadLsr ==
  /\ cause # "none" /\ lsr = "unread" /\ fifo # << >>
  /\ lsr' = IF LineStatus THEN "error" ELSE "data"
  /\ overrun' = FALSE
  /\ ring' = IF cause = "RLS" /\ LineStatus THEN Spoilt(ring) ELSE ring
  /\ UNCHANGED <<sender, fifo, cause, during, rx, got, errors, missed>>

\* A plausible bug: a damaged byte is left out, what came before it is kept.
TakeRest(r, b) ==
  CASE cause = "RLS" -> r
    [] cause = "RDA" /\ lsr = "error" -> [r EXCEPT !.overflowed = TRUE]
    [] cause = "RDA" /\ lsr = "data" -> Push(r, b)

\* What becomes of a byte: in a line status interrupt it is thrown away, in the other
\* it goes into the ring unless the line was in error.
Take(r, b) ==
  CASE cause = "RLS" -> r
    [] cause = "RDA" /\ lsr = "error" -> Spoilt(r)
    [] cause = "RDA" /\ lsr = "data" -> Push(r, b)

ReadRbr ==
  /\ lsr # "unread"
  /\ fifo' = Tail(fifo) /\ lsr' = "unread"
  /\ ring' = Take(ring, Head(fifo).byte)
  /\ UNCHANGED <<sender, overrun, cause, during, rx, got, errors, missed>>

\* The LSR says that there is no more data, and handle_serial goes on: after an
\* overflow the parser starts again and the ring is left as it is; otherwise the ring
\* is emptied into the parser.
Finish ==
  /\ cause # "none" /\ lsr = "unread" /\ fifo = << >>
  /\ overrun' = FALSE /\ cause' = "none" /\ during' = 0
  /\ \E fed \in {Fed(rx, Queued(ring))} :
       IF ring.overflowed
       THEN ring' = AskedOverflow(ring) /\ rx' = RxReset(rx) /\ got' = got
       ELSE ring' = Emptied(ring) /\ rx' = [fed EXCEPT !.msgs = << >>] /\ got' = got \o fed.msgs
  /\ UNCHANGED <<sender, fifo, lsr, errors, missed>>

HandleSerial == ReadIir \/ ReadLsr \/ ReadRbr \/ Finish

Next ==
  \/ StartMessage \/ PutByte \/ GiveUp
  \/ Arrive \/ ArriveBad \/ Overrun
  \/ LookToSend
  \/ ReadIir \/ ReadLsr \/ ReadRbr \/ Finish

\* A handler that began to send goes on, bytes arrive, interrupts are served.
Spec == Init /\ [][Next]_vars /\ WF_vars(PutByte) /\ WF_vars(Arrive) /\ WF_vars(HandleSerial)

----------------------------------------------------------------------------
(* Properties                                                              *)

\* The parser never writes past its four byte buffer, whatever bytes it is fed
\* (protocol.c:46), and the ring's indices stay in range.
TypeOK ==
  /\ rx.type \in Types \cup {"none"}
  /\ Len(rx.buf) < IF rx.type = "none" THEN 1 ELSE PayloadLen[rx.type]
  /\ Len(rx.buf) < MaxPayload
  /\ RingTypeOK
  /\ Len(fifo) <= FifoSize /\ during <= Burst
  /\ cause \in {"none", "RLS", "RDA"} /\ lsr \in {"unread", "data", "error"}

IB == INSTANCE Inbox WITH Capacity <- RingSize - 1,
       waiting <- Queued(ring), dropped <- ring.overflowed, serving <- cause # "none"

\* Wherever uart_ih and the ring's indices stand (uart.c:14-34, 114-163), no byte is
\* repeated, reordered or overwritten on its way to the parser, and none is dropped
\* without the parser being told of it before it reads on (handlers.c:87-98).
ImplementsInbox == IB!InboxSpec

C == INSTANCE Channel WITH damaged <- errors > 0 \/ cut

\* As long as no byte is damaged, lost or given up, the game at one end gets what
\* the other end's game sent, in that order and nothing else, whatever the payloads
\* are: what Duel takes for granted.
ImplementsChannel == C!Spec

\* On such a line everything sent is delivered.
AllDelivered ==
  \A n \in 1 .. MaxSent : (Len(sent) = n) ~> (Len(got) >= n \/ errors > 0 \/ cut)

\* What was handed to the game was sent by the other end's, in that order.
OnlyWhatWasSent ==
  \E origin \in [DOMAIN got -> DOMAIN sent] :
    /\ \A i \in DOMAIN got : got[i] = sent[origin[i]]
    /\ \A i, j \in DOMAIN got : i < j => origin[i] < origin[j]

\* A payload value that is the type byte of some message: the scancodes of the
\* arrow keys, forwarded in MSG_KEY, are.
Ambiguous(msg) == \E i \in 2 .. Len(msg) : msg[i] \in Types

\* No payload that is sent looks like a message, and none is cut off.
Plainly == (\A i \in DOMAIN sent : ~Ambiguous(sent[i])) /\ ~cut

\* Whatever is damaged or lost on the way, no message is handed to the game that
\* the other end did not send, and none twice or out of order: after an error the
\* parser never takes the rest of one message for another (uart.c:128-135).  That
\* is so for an error uart_ih finds on entering; not for an overrun while it drains
\* the FIFO, nor for an error that uart_send_byte's look at the LSR has wiped out.
NothingForged == Plainly /\ missed = {} => OnlyWhatWasSent

\* An overrun while uart_ih drains the FIFO makes the parser start again too, as
\* uart.c:153 says: "Bad byte: discard accumulated buffer, force resync".
ForcesResync == Plainly /\ missed \subseteq {"late"} => OnlyWhatWasSent

\* A line that damages nothing makes up nothing, if sending a byte blocks until
\* there is room for it as uart.h:165 says.
WholeMessages == errors = 0 => OnlyWhatWasSent

\* Between interrupts the ring always has room for what the next can bring: it cannot
\* be left full, which would stop the connection for good, since a ring that
\* overflows is not emptied (handlers.c:87-90).
RingHasRoom == cause = "none" => Held(ring) + FifoSize + Burst < RingSize
=============================================================================
