------------------------------ MODULE Protocol ------------------------------
(***************************************************************************)
(* The framing of src/project/src/serial/protocol.c: a type byte and as many *)
(* payload bytes as the type says, put together again one byte at a time.    *)
(* A message is the sequence of its bytes; the union it is decoded into, the *)
(* same bytes under other names, is left out.                                *)
(***************************************************************************)
EXTENDS Naturals, Sequences

\* The type bytes MSG_HELLO, MSG_HELLO_ACK and so on, each by its letter.
Types == {"H", "A", "F", "Q", "K", "S", "D", "W", "C", "M", "T", "P"}

\* payload_len_for, on the bytes that are a type.
PayloadLen ==
  [b \in Types |-> CASE b \in {"H", "A", "F", "Q"} -> 0
                     [] b \in {"K", "S", "D", "W"} -> 1
                     [] b = "C" -> 2
                     [] b \in {"M", "T"} -> 3
                     [] b = "P" -> 4]

MaxPayload == 4

\* proto_rx_state_t: the type byte received, if any, and the payload so far, with
\* the messages completed since they were last taken.
Resting == [type |-> "none", buf |-> << >>, msgs |-> << >>]

\* A plausible bug: an overflow leaves the parser where it was.
RxKept(rx) == rx

\* proto_rx_reset
RxReset(rx) == [rx EXCEPT !.type = "none", !.buf = << >>]

\* The parser waits for a type again.
Completed(rx, msg) ==
  [rx EXCEPT !.type = "none", !.buf = << >>, !.msgs = Append(@, msg)]

\* A plausible bug: a type byte begins a message wherever it is met.
FeedRestarts(rx, b) ==
  CASE b \in Types /\ PayloadLen[b] = 0 -> Completed(rx, <<b>>)
    [] b \in Types /\ PayloadLen[b] > 0 -> [rx EXCEPT !.type = b, !.buf = << >>]
    [] b \notin Types /\ rx.type = "none" -> rx
    [] b \notin Types /\ rx.type # "none" ->
         IF Len(rx.buf) + 1 < PayloadLen[rx.type] THEN [rx EXCEPT !.buf = Append(@, b)]
         ELSE Completed(rx, <<rx.type>> \o Append(rx.buf, b))

\* A plausible bug: the payload is compared with its length before it grows.
FeedLate(rx, b) ==
  IF rx.type = "none"
  THEN IF b \notin Types THEN rx
       ELSE IF PayloadLen[b] = 0 THEN Completed(rx, <<b>>)
       ELSE [rx EXCEPT !.type = b, !.buf = << >>]
  ELSE IF Len(rx.buf) < PayloadLen[rx.type] THEN [rx EXCEPT !.buf = Append(@, b)]
  ELSE Completed(rx, <<rx.type>> \o Append(rx.buf, b))

\* proto_feed_byte: between messages an unknown byte is skipped, inside one every
\* byte is payload.
Feed(rx, b) ==
  IF rx.type = "none"
  THEN IF b \notin Types THEN rx
       ELSE IF PayloadLen[b] = 0 THEN Completed(rx, <<b>>)
       ELSE [rx EXCEPT !.type = b, !.buf = << >>]
  ELSE IF Len(rx.buf) + 1 < PayloadLen[rx.type] THEN [rx EXCEPT !.buf = Append(@, b)]
  ELSE Completed(rx, <<rx.type>> \o Append(rx.buf, b))

\* The parser after a sequence of bytes, in the order they are fed.
Fed(rx, bytes) ==
  LET after[k \in 0 .. Len(bytes)] ==
        IF k = 0 THEN rx ELSE Feed(after[k - 1], bytes[k])
  IN  after[Len(bytes)]
=============================================================================
