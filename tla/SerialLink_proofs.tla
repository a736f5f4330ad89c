-------------------------- MODULE SerialLink_proofs --------------------------
(***************************************************************************)
(* The serial line, for every set of messages, every size of the FIFO, every *)
(* number of bytes that arrive during an interrupt and a ring at least twice *)
(* their sum, and any number of messages and mishaps.  The invariant gives   *)
(* every byte on the way its place in what was sent and says where the       *)
(* parser stands, also in the middle of an interrupt; from it the parser's   *)
(* bounds, the room in the ring, that nothing is forged as long as errors    *)
(* are met in time, and that an undamaged line is a channel in order.  The   *)
(* loop of handle_serial is a recursive function, so that what it computes   *)
(* is proved by induction over a set of numbers.                             *)
(***************************************************************************)
EXTENDS SerialLink, RingBuffer_proofs, SequenceTheorems, WellFoundedInduction

----------------------------------------------------------------------------
(* Induction, and the loops turn by turn                                   *)

\* The order of the naturals as a set of pairs.
Below == {p \in Nat \X Nat : p[1] < p[2]}

\* The least number of a set: the naturals are well-founded.
LEMMA LeastNumber ==
  ASSUME NEW S \in SUBSET Nat, S # {}
  PROVE  \E n \in S : \A j \in S : n <= j
<1>1. IsWellFoundedOn(Below, Nat)
  BY NatLessThanWellFounded DEF OpToRel, Below
<1>2. PICK n \in S : \A j \in S : ~(<<j, n>> \in Below)
  BY <1>1, WFMin
<1>3. \A j \in S : n \in Nat /\ j \in Nat /\ ~(j < n)
  BY <1>2 DEF Below
<1> QED BY <1>3

\* A set that has 0 and with every number below n the next one has n.
LEMMA Ascends ==
  ASSUME NEW n \in Nat, NEW S, 0 \in S,
         \A k \in Nat : k < n /\ k \in S => k + 1 \in S
  PROVE  n \in S
<1> SUFFICES ASSUME n \notin S PROVE FALSE
  OBVIOUS
<1> DEFINE Out == {k \in Nat : k <= n /\ k \notin S}
<1>1. PICK k \in Out : \A j \in Out : k <= j
  <2>1. n \in Out /\ Out \in SUBSET Nat
    OBVIOUS
  <2> HIDE DEF Out
  <2> QED BY <2>1, LeastNumber
<1>2. k # 0 /\ k - 1 \in Nat /\ k - 1 < n
  BY <1>1
<1>3. k - 1 \in S
  BY <1>1, <1>2
<1> QED BY <1>1, <1>2, <1>3

----------------------------------------------------------------------------
(* The loop of handle_serial, turn by turn                                 *)

\* The loop of handle_serial feeds the parser one byte at a time.
LEMMA FedTrace ==
  ASSUME NEW p, NEW bytes, Len(bytes) \in Nat
  PROVE  \E t : /\ t[0] = p
                /\ \A k \in 1 .. Len(bytes) : t[k] = Feed(t[k - 1], bytes[k])
                /\ Fed(p, bytes) = t[Len(bytes)]
<1> DEFINE Turns(g, n) == [k \in 0 .. n |-> IF k = 0 THEN p ELSE Feed(g[k - 1], bytes[k])]
           S == {n \in Nat : \E g : g = Turns(g, n)}
<1>1. 0 \in S
  <2>1. [k \in 0 .. 0 |-> p] = Turns([k \in 0 .. 0 |-> p], 0)
    OBVIOUS
  <2> QED BY <2>1
<1>2. ASSUME NEW n \in Nat, n \in S PROVE n + 1 \in S
  <2>1. PICK w : w = Turns(w, n)
    BY <1>2
  <2> DEFINE h == Turns(w, n + 1)
  <2>2. ASSUME NEW k \in 0 .. n PROVE h[k] = w[k]
    <3>1. w[k] = IF k = 0 THEN p ELSE Feed(w[k - 1], bytes[k])
      BY <2>1
    <3> QED BY <3>1
  <2>3. \A k \in 0 .. n + 1 : k # 0 => k - 1 \in 0 .. n
    OBVIOUS
  <2>4. \A k \in 0 .. n + 1 : k # 0 => h[k - 1] = w[k - 1]
    BY <2>2, <2>3
  <2>5. h = Turns(h, n + 1)
    BY <2>4
  <2>6. \E g : g = Turns(g, n + 1)
    <3> HIDE DEF h
    <3> DEFINE F(g) == Turns(g, n + 1)
    <3>1. h = F(h)
      BY <2>5
    <3> HIDE DEF F
    <3>2. \E g : g = F(g)
      BY <3>1
    <3> QED BY <3>2 DEF F
  <2> QED BY <2>6
<1>3. Len(bytes) \in S
  <2> HIDE DEF S
  <2> QED BY <1>1, <1>2, Ascends
<1> DEFINE t == CHOOSE g : g = Turns(g, Len(bytes))
<1>4. t = Turns(t, Len(bytes))
  BY <1>3
<1>5. Fed(p, bytes) = t[Len(bytes)]
  BY DEF Fed
<1> HIDE DEF t
<1>6. t[0] = p /\ \A k \in 1 .. Len(bytes) : t[k] = Feed(t[k - 1], bytes[k])
  BY <1>4
<1> QED BY <1>5, <1>6

----------------------------------------------------------------------------
(* The ring                                                                *)

FifoByte == [byte : Byte, bad : BOOLEAN]

\* A byte finds room as long as one slot more than the free one is not taken.
LEMMA PushFits ==
  ASSUME NEW r \in RingType, NEW b \in Byte, Held(r) < RingSize - 1
  PROVE  /\ Push(r, b) \in RingType
         /\ Push(r, b).overflowed = r.overflowed
         /\ Held(Push(r, b)) = Held(r) + 1
         /\ \A j \in 1 .. Held(r) : Queued(Push(r, b))[j] = Queued(r)[j]
         /\ Queued(Push(r, b))[Held(r) + 1] = b
<1>1. After(r.head) # r.tail
  BY FullIsCapacity, HeldBounds, RingAssumption
<1>2. Push(r, b) \in RingType
  <2>1. r.head \in Slots /\ r.tail \in Slots /\ After(r.head) \in Slots
    BY AfterSlot, RingAssumption DEF RingType, Slots
  <2> QED BY <1>1, <2>1 DEF Push, RingType
<1>3. Queued(Push(r, b)) = Append(Queued(r), b) /\ Push(r, b).overflowed = r.overflowed
  BY <1>1, PushAppends
<1>4. /\ Queued(r) \in Seq(Byte) /\ Len(Queued(r)) = Held(r)
      /\ Queued(Push(r, b)) \in Seq(Byte) /\ Len(Queued(Push(r, b))) = Held(Push(r, b))
  BY <1>2, QueuedIsSeq
<1> QED BY <1>2, <1>3, <1>4

\* Throwing away everything leaves nothing but the note.
LEMMA SpoiltIsEmpty ==
  ASSUME NEW r \in RingType
  PROVE  Spoilt(r) \in RingType /\ Spoilt(r).overflowed /\ Held(Spoilt(r)) = 0
<1>1. /\ Spoilt(r) \in RingType /\ Spoilt(r).overflowed
      /\ Spoilt(r).head = r.tail /\ Spoilt(r).tail = r.tail /\ r.tail \in Nat
  <2>1. /\ DiscardAll(r) \in RingType /\ DiscardAll(r).head = r.tail
        /\ DiscardAll(r).tail = r.tail /\ r.tail \in Nat
    BY RingAssumption DEF DiscardAll, RingType, Slots
  <2> QED BY <2>1 DEF Spoilt, RingType
<1> QED BY <1>1 DEF Held

\* Reading everything leaves nothing, and asking clears the note.
LEMMA EmptiedIsEmpty ==
  ASSUME NEW r \in RingType
  PROVE  Emptied(r) \in RingType /\ Emptied(r).overflowed = r.overflowed /\ Held(Emptied(r)) = 0
<1>1. /\ Emptied(r) \in RingType /\ Emptied(r).overflowed = r.overflowed
      /\ Emptied(r).head = r.head /\ Emptied(r).tail = r.head /\ r.head \in Nat
  BY RingAssumption DEF Emptied, RingType, Slots
<1> QED BY <1>1 DEF Held

\* Asking for the note changes nothing else (uart.c:188-192).
LEMMA AskedKeeps ==
  ASSUME NEW r \in RingType
  PROVE  /\ AskedOverflow(r) \in RingType /\ ~AskedOverflow(r).overflowed
         /\ Held(AskedOverflow(r)) = Held(r)
         /\ Queued(AskedOverflow(r)) = Queued(r)
<1>1. /\ AskedOverflow(r) \in RingType /\ ~AskedOverflow(r).overflowed
      /\ AskedOverflow(r).head = r.head /\ AskedOverflow(r).tail = r.tail
      /\ AskedOverflow(r).data = r.data
  BY DEF AskedOverflow, RingType
<1> QED BY <1>1 DEF Held, Queued

\* The bytes of the ring and after them those of the FIFO.
Item(r, bytes, j) == IF j <= Held(r) THEN Queued(r)[j] ELSE bytes[j - Held(r)].byte

----------------------------------------------------------------------------
(* The parser                                                              *)

\* What the parser may hold: less of a payload than the type byte announces.
ParserType ==
  {p \in [type : Types \cup {"none"}, buf : Seq(Byte), msgs : Seq(Seq(Byte))] :
     /\ p.type = "none" => p.buf = << >>
     /\ p.type # "none" => p.type \in Byte /\ Len(p.buf) < PayloadLen[p.type]}

\* No payload is longer than the buffer (protocol.h:96).
LEMMA Payloads ==
  \A b \in Types : PayloadLen[b] \in 0 .. MaxPayload /\ b # "none"
BY DEF Types, PayloadLen, MaxPayload

\* The parser holds at most three bytes of a payload after any byte (protocol.c:46-47).
LEMMA FeedTyped ==
  ASSUME NEW p \in ParserType, NEW b \in Byte
  PROVE  Feed(p, b) \in ParserType
<1>1. /\ p \in [type : Types \cup {"none"}, buf : Seq(Byte), msgs : Seq(Seq(Byte))]
      /\ p.buf \in Seq(Byte) /\ p.msgs \in Seq(Seq(Byte)) /\ p.type \in Types \cup {"none"}
  BY DEF ParserType
<1>2. ASSUME NEW msg \in Seq(Byte) PROVE Completed(p, msg) \in ParserType
  <2>1. Append(p.msgs, msg) \in Seq(Seq(Byte)) /\ << >> \in Seq(Byte)
    BY <1>1, <1>2
  <2> QED BY <1>1, <2>1 DEF Completed, ParserType
<1>3. CASE p.type = "none"
  <2>1. CASE b \notin Types
    BY <1>3, <2>1 DEF Feed
  <2>2. CASE b \in Types /\ PayloadLen[b] = 0
    <3>1. <<b>> \in Seq(Byte) /\ Feed(p, b) = Completed(p, <<b>>)
      BY <1>3, <2>2 DEF Feed
    <3> QED BY <1>2, <3>1
  <2>3. CASE b \in Types /\ PayloadLen[b] # 0
    <3>1. Feed(p, b) = [p EXCEPT !.type = b, !.buf = << >>]
      BY <1>3, <2>3 DEF Feed
    <3>2. PayloadLen[b] > 0 /\ b # "none" /\ << >> \in Seq(Byte) /\ Len(<< >>) = 0
      BY <2>3, Payloads
    <3> QED BY <1>1, <2>3, <3>1, <3>2 DEF ParserType
  <2> QED BY <2>1, <2>2, <2>3
<1>4. CASE p.type # "none"
  <2>1. p.type \in Types /\ p.type \in Byte /\ Append(p.buf, b) \in Seq(Byte)
        /\ Len(Append(p.buf, b)) = Len(p.buf) + 1
    BY <1>1, <1>4 DEF ParserType
  <2>2. CASE Len(p.buf) + 1 < PayloadLen[p.type]
    <3>1. Feed(p, b) = [p EXCEPT !.buf = Append(@, b)]
      BY <1>4, <2>2 DEF Feed
    <3>2. /\ Feed(p, b) \in [type : Types \cup {"none"}, buf : Seq(Byte), msgs : Seq(Seq(Byte))]
          /\ Feed(p, b).type = p.type /\ Feed(p, b).buf = Append(p.buf, b)
      BY <1>1, <2>1, <3>1
    <3> QED BY <1>4, <2>1, <2>2, <3>2 DEF ParserType
  <2>3. CASE ~(Len(p.buf) + 1 < PayloadLen[p.type])
    <3>1. Feed(p, b) = Completed(p, <<p.type>> \o Append(p.buf, b))
      BY <1>4, <2>3 DEF Feed
    <3>2. <<p.type>> \o Append(p.buf, b) \in Seq(Byte)
      BY <2>1
    <3> QED BY <1>2, <3>1, <3>2
  <2> QED BY <2>2, <2>3
<1> QED BY <1>3, <1>4

\* So does a sequence of bytes.
LEMMA FedTyped ==
  ASSUME NEW p \in ParserType, NEW bytes \in Seq(Byte)
  PROVE  Fed(p, bytes) \in ParserType
<1>1. Len(bytes) \in Nat
  OBVIOUS
<1>2. PICK t : /\ t[0] = p
               /\ \A k \in 1 .. Len(bytes) : t[k] = Feed(t[k - 1], bytes[k])
               /\ Fed(p, bytes) = t[Len(bytes)]
  BY <1>1, FedTrace
<1> DEFINE S == {k \in 0 .. Len(bytes) : t[k] \in ParserType}
<1>3. 0 \in S
  BY <1>1, <1>2
<1>4. ASSUME NEW k \in Nat, k < Len(bytes), k \in S PROVE k + 1 \in S
  <2>1. k + 1 \in 1 .. Len(bytes) /\ (k + 1) - 1 = k /\ k + 1 \in 0 .. Len(bytes)
    BY <1>1, <1>4
  <2>2. t[k] \in ParserType /\ t[k + 1] = Feed(t[k], bytes[k + 1]) /\ bytes[k + 1] \in Byte
    BY <1>2, <1>4, <2>1
  <2> QED BY <2>1, <2>2, FeedTyped
<1>5. Len(bytes) \in S
  <2> HIDE DEF S
  <2> QED BY <1>1, <1>3, <1>4, Ascends
<1> QED BY <1>2, <1>5

----------------------------------------------------------------------------
(* The parser on the bytes of messages                                     *)

\* A message begins with its type byte, and that says its length.
LEMMA MessageFacts ==
  ASSUME NEW msg \in Message
  PROVE  /\ msg \in Seq(Byte) /\ msg[1] \in Types /\ msg[1] \in Byte /\ msg[1] # "none"
         /\ Len(msg) = 1 + PayloadLen[msg[1]] /\ Len(msg) \in Nat \ {0}
<1>1. msg \in Seq(Byte) /\ Head(msg) \in Types /\ Len(msg) = 1 + PayloadLen[Head(msg)]
  BY LinkAssumption
<1>2. PayloadLen[Head(msg)] \in Nat /\ Head(msg) # "none"
  BY <1>1, Payloads
<1>3. Head(msg) = msg[1] /\ 1 \in 1 .. Len(msg)
  BY <1>1, <1>2
<1> QED BY <1>1, <1>2, <1>3

\* The parser has read the bytes before the i-th of the message msg, and nothing else.
Reading(p, msg, i) ==
  IF i = 1 THEN p.type = "none"
  ELSE /\ p.type = msg[1]
       /\ Len(p.buf) = i - 2
       /\ \A j \in 1 .. Len(p.buf) : p.buf[j] = msg[j + 1]

\* A byte of the message more, or the message whole.
LEMMA FeedReads ==
  ASSUME NEW p \in ParserType, NEW msg \in Message, NEW i \in 1 .. Len(msg),
         Reading(p, msg, i), NEW q, q = Feed(p, msg[i])
  PROVE  IF i < Len(msg) THEN Reading(q, msg, i + 1) /\ q.msgs = p.msgs
         ELSE q.type = "none" /\ q.msgs = Append(p.msgs, msg)
<1>1. /\ msg \in Seq(Byte) /\ msg[1] \in Types /\ msg[1] # "none"
      /\ Len(msg) = 1 + PayloadLen[msg[1]] /\ Len(msg) \in Nat \ {0}
  BY MessageFacts
<1>2. /\ p \in [type : Types \cup {"none"}, buf : Seq(Byte), msgs : Seq(Seq(Byte))]
      /\ p.buf \in Seq(Byte) /\ Len(p.buf) \in Nat /\ p.msgs \in Seq(Seq(Byte))
  BY DEF ParserType
<1>3. CASE i = 1
  <2>1. p.type = "none" /\ msg[i] = msg[1]
    BY <1>3 DEF Reading
  <2>2. CASE Len(msg) = 1
    <3>0. PayloadLen[msg[1]] = 0
      BY <1>1, <2>2, Payloads
    <3>1. q = Completed(p, <<msg[1]>>)
      BY <1>1, <2>1, <3>0 DEF Feed
    <3>2. <<msg[1]>> = msg
      BY <1>1, <2>2
    <3>3. q.type = "none" /\ q.msgs = Append(p.msgs, <<msg[1]>>)
      BY <1>2, <3>1 DEF Completed
    <3> QED BY <1>3, <2>2, <3>2, <3>3
  <2>3. CASE Len(msg) # 1
    <3>0. PayloadLen[msg[1]] # 0
      BY <1>1, <2>3
    <3>1. q = [p EXCEPT !.type = msg[1], !.buf = << >>]
      BY <1>1, <2>1, <3>0 DEF Feed
    <3>2. q.type = msg[1] /\ q.buf = << >> /\ q.msgs = p.msgs
      BY <1>2, <3>1
    <3>3. Reading(q, msg, 2)
      BY <3>2 DEF Reading
    <3> QED BY <1>1, <1>3, <2>3, <3>2, <3>3
  <2> QED BY <2>2, <2>3
<1>4. CASE i # 1
  <2>1. /\ p.type = msg[1] /\ p.type # "none" /\ Len(p.buf) = i - 2
        /\ \A j \in 1 .. Len(p.buf) : p.buf[j] = msg[j + 1]
        /\ msg[i] \in Byte
    BY <1>1, <1>4 DEF Reading
  <2>2. /\ Append(p.buf, msg[i]) \in Seq(Byte) /\ Len(Append(p.buf, msg[i])) = i - 1
        /\ \A j \in 1 .. i - 1 : Append(p.buf, msg[i])[j] = msg[j + 1]
    BY <1>1, <1>2, <2>1
  <2>3. CASE i < Len(msg)
    <3>0. Len(p.buf) + 1 < PayloadLen[p.type]
      BY <1>1, <2>1, <2>3, Payloads
    <3>1. q = [p EXCEPT !.buf = Append(@, msg[i])]
      BY <2>1, <3>0 DEF Feed
    <3>2. q.type = msg[1] /\ q.buf = Append(p.buf, msg[i]) /\ q.msgs = p.msgs
      BY <1>2, <2>1, <3>1
    <3>3. Reading(q, msg, i + 1)
      BY <2>2, <3>2 DEF Reading
    <3> QED BY <2>3, <3>2, <3>3
  <2>4. CASE i = Len(msg)
    <3>0. ~(Len(p.buf) + 1 < PayloadLen[p.type])
      BY <1>1, <2>1, <2>4, Payloads
    <3>1. q = Completed(p, <<p.type>> \o Append(p.buf, msg[i]))
      BY <2>1, <3>0 DEF Feed
    <3>2. <<p.type>> \o Append(p.buf, msg[i]) = msg
      <4>1. PICK a : a = Append(p.buf, msg[i])
        OBVIOUS
      <4>2. a \in Seq(Byte) /\ Len(a) = Len(msg) - 1 /\ \A j \in 1 .. Len(a) : a[j] = msg[j + 1]
        BY <2>2, <2>4, <4>1
      <4>3. <<msg[1]>> \o a = msg
        BY <1>1, <4>2
      <4> QED BY <2>1, <4>1, <4>3
    <3>3. q.type = "none" /\ q.msgs = Append(p.msgs, msg)
      BY <1>2, <3>1, <3>2 DEF Completed
    <3> QED BY <2>4, <3>3
  <2> QED BY <2>3, <2>4
<1> QED BY <1>3, <1>4

\* Between messages a byte that is no type changes nothing.
LEMMA FeedSkips ==
  ASSUME NEW p \in ParserType, p.type = "none", NEW b, b \notin Types
  PROVE  Feed(p, b) = p
BY DEF Feed

----------------------------------------------------------------------------
(* The places of bytes in what was sent                                    *)

\* No byte but the first of a message looks like the type of one.
Plain(s) == \A k \in 1 .. Len(s) : \A i \in 2 .. Len(s[k]) : s[k][i] \notin Types

\* The n-th byte on the way is the I[n]-th of the K[n]-th message sent, nothing is
\* missing between one and the next, and after the last one comes the next message.
Carries(K, I, line, s) ==
  /\ K \in [1 .. Len(line) + 1 -> Nat] /\ I \in [1 .. Len(line) + 1 -> Nat]
  /\ K[Len(line) + 1] = Len(s) + 1 /\ I[Len(line) + 1] = 1
  /\ \A n \in 1 .. Len(line) :
       /\ K[n] \in 1 .. Len(s) /\ I[n] \in 1 .. Len(s[K[n]])
       /\ line[n] = s[K[n]][I[n]]
       /\ IF I[n] < Len(s[K[n]]) THEN K[n + 1] = K[n] /\ I[n + 1] = I[n] + 1
          ELSE K[n + 1] = K[n] + 1 /\ I[n + 1] = 1
  /\ \A n, m \in 1 .. Len(line) + 1 : n <= m => K[n] <= K[m]

\* The messages before the k-th were delivered, and the parser is at the i-th byte of that.
Follows(p, g, k, i, s) ==
  /\ Reading(p, s[k], i)
  /\ Len(g) = k - 1 /\ \A j \in 1 .. Len(g) : g[j] = s[j]

\* What was delivered is some of the messages before the k-th, in their order.
Ordered(g, k, s) ==
  \E o \in [1 .. Len(g) -> 1 .. k - 1] :
    /\ \A j \in 1 .. Len(g) : o[j] \in 1 .. Len(s) /\ g[j] = s[o[j]]
    /\ \A j, l \in 1 .. Len(g) : j < l => o[j] < o[l]

\* After damage: that, and the parser is at the i-th byte or waits for a type.
Resumes(p, g, k, i, s) ==
  Ordered(g, k, s) /\ (p.type = "none" \/ Reading(p, s[k], i))

\* What is some of the messages before the k-th is some of those before a later one.
LEMMA OrderedLater ==
  ASSUME NEW g, NEW s, NEW k \in Nat, NEW l \in Nat, k <= l, Ordered(g, k, s)
  PROVE  Ordered(g, l, s)
<1>1. PICK o \in [1 .. Len(g) -> 1 .. k - 1] :
        /\ \A j \in 1 .. Len(g) : o[j] \in 1 .. Len(s) /\ g[j] = s[o[j]]
        /\ \A j, m \in 1 .. Len(g) : j < m => o[j] < o[m]
  BY DEF Ordered
<1>2. o \in [1 .. Len(g) -> 1 .. l - 1]
  BY <1>1
<1> QED BY <1>1, <1>2 DEF Ordered

\* The next message delivered comes after them.
LEMMA OrderedNext ==
  ASSUME NEW g \in Seq(Seq(Byte)), NEW s, Len(s) \in Nat, NEW k \in 1 .. Len(s), Ordered(g, k, s),
         NEW msg, msg = s[k]
  PROVE  Ordered(Append(g, msg), k + 1, s)
<1>1. PICK o \in [1 .. Len(g) -> 1 .. k - 1] :
        /\ \A j \in 1 .. Len(g) : o[j] \in 1 .. Len(s) /\ g[j] = s[o[j]]
        /\ \A j, m \in 1 .. Len(g) : j < m => o[j] < o[m]
  BY DEF Ordered
<1> DEFINE h == Append(g, msg)
           w == [j \in 1 .. Len(h) |-> IF j <= Len(g) THEN o[j] ELSE k]
<1>2. /\ Len(h) = Len(g) + 1 /\ Len(g) \in Nat /\ h[Len(g) + 1] = msg
      /\ \A j \in 1 .. Len(g) : h[j] = g[j]
  OBVIOUS
<1> HIDE DEF h
<1>3. w \in [1 .. Len(h) -> 1 .. (k + 1) - 1]
  <2>1. ASSUME NEW j \in 1 .. Len(h)
        PROVE  (IF j <= Len(g) THEN o[j] ELSE k) \in 1 .. (k + 1) - 1
    <3>1. CASE j <= Len(g)
      <4>1. j \in 1 .. Len(g)
        BY <1>2, <3>1
      <4>2. o[j] \in 1 .. k - 1
        BY <1>1, <4>1
      <4> QED BY <3>1, <4>2
    <3>2. CASE ~(j <= Len(g))
      BY <3>2
    <3> QED BY <3>1, <3>2
  <2> QED BY <2>1
<1>4. \A j \in 1 .. Len(h) : w[j] \in 1 .. Len(s) /\ h[j] = s[w[j]]
  <2>1. ASSUME NEW j \in 1 .. Len(h) PROVE w[j] \in 1 .. Len(s) /\ h[j] = s[w[j]]
    <3>1. CASE j <= Len(g)
      <4>1. j \in 1 .. Len(g)
        BY <1>2, <3>1
      <4> QED BY <1>1, <1>2, <3>1, <4>1
    <3>2. CASE ~(j <= Len(g))
      <4>1. j = Len(g) + 1 /\ w[j] = k
        BY <1>2, <3>2
      <4> QED BY <1>2, <4>1
    <3> QED BY <3>1, <3>2
  <2> QED BY <2>1
<1>5. \A j, m \in 1 .. Len(h) : j < m => w[j] < w[m]
  <2> SUFFICES ASSUME NEW j \in 1 .. Len(h), NEW m \in 1 .. Len(h), j < m PROVE w[j] < w[m]
    OBVIOUS
  <2>1. j \in 1 .. Len(g) /\ w[j] = o[j] /\ o[j] \in 1 .. k - 1
    <3>1. j \in 1 .. Len(g)
      BY <1>2
    <3>2. w[j] = o[j]
      BY <3>1
    <3> HIDE DEF w
    <3> QED BY <1>1, <3>1, <3>2
  <2>2. m \in 1 .. Len(g) => w[m] = o[m]
    BY <1>2
  <2>3. m \notin 1 .. Len(g) => w[m] = k
    BY <1>2
  <2> HIDE DEF w
  <2> QED BY <1>1, <2>1, <2>2, <2>3
<1> HIDE DEF w
<1>6. Ordered(h, k + 1, s)
  BY <1>3, <1>4, <1>5 DEF Ordered
<1> QED BY <1>6 DEF h

\* To append to the second of two sequences is to append to both.
LEMMA Joined ==
  ASSUME NEW g \in Seq(Seq(Byte)), NEW h \in Seq(Seq(Byte)), NEW x \in Seq(Byte)
  PROVE  g \o Append(h, x) = Append(g \o h, x) /\ g \o h \in Seq(Seq(Byte))
OBVIOUS

\* q is the parser p one byte later, from the i-th byte of the k-th message to the
\* m-th of the l-th.
NextByte(p, q, k, i, l, m, s) ==
  /\ k \in 1 .. Len(s) /\ i \in 1 .. Len(s[k])
  /\ p \in ParserType /\ q = Feed(p, s[k][i])
  /\ IF i < Len(s[k]) THEN l = k /\ m = i + 1 ELSE l = k + 1 /\ m = 1

\* One byte, in its place: the parser keeps up with the messages, or catches up with them.
LEMMA FeedInPlace ==
  ASSUME NEW s \in Seq(Message), NEW g \in Seq(Seq(Byte)),
         NEW p, NEW q, NEW k, NEW i, NEW l, NEW m, NextByte(p, q, k, i, l, m, s)
  PROVE  /\ Follows(p, g \o p.msgs, k, i, s) => Follows(q, g \o q.msgs, l, m, s)
         /\ Plain(s) /\ Resumes(p, g \o p.msgs, k, i, s) => Resumes(q, g \o q.msgs, l, m, s)
<1>0. /\ k \in 1 .. Len(s) /\ i \in 1 .. Len(s[k])
      /\ p \in ParserType /\ q = Feed(p, s[k][i])
      /\ IF i < Len(s[k]) THEN l = k /\ m = i + 1 ELSE l = k + 1 /\ m = 1
  BY DEF NextByte
<1>1. /\ s[k] \in Message /\ s[k] \in Seq(Byte) /\ Len(s[k]) \in Nat \ {0}
      /\ p.msgs \in Seq(Seq(Byte)) /\ Len(s) \in Nat
  BY <1>0, MessageFacts DEF ParserType
<1>2. PICK h \in Seq(Seq(Byte)) : h = g \o p.msgs
  BY <1>1, Joined
<1>3. ASSUME Reading(p, s[k], i), i < Len(s[k])
      PROVE  Reading(q, s[l], m) /\ g \o q.msgs = h
  BY <1>0, <1>1, <1>2, <1>3, FeedReads
<1>4. ASSUME Reading(p, s[k], i), ~(i < Len(s[k]))
      PROVE  Reading(q, s[l], m) /\ g \o q.msgs = Append(h, s[k]) /\ l = k + 1
  <2>1. q.type = "none" /\ q.msgs = Append(p.msgs, s[k])
    BY <1>0, <1>1, <1>4, FeedReads
  <2>2. g \o Append(p.msgs, s[k]) = Append(h, s[k])
    BY <1>1, <1>2, Joined
  <2>3. m = 1 /\ l = k + 1
    BY <1>0, <1>4
  <2> QED BY <2>1, <2>2, <2>3 DEF Reading
<1>5. ASSUME Follows(p, h, k, i, s) PROVE Follows(q, g \o q.msgs, l, m, s)
  <2>1. CASE i < Len(s[k])
    BY <1>0, <1>3, <1>5, <2>1 DEF Follows
  <2>2. CASE ~(i < Len(s[k]))
    <3>1. Reading(q, s[l], m) /\ g \o q.msgs = Append(h, s[k]) /\ l = k + 1
      BY <1>4, <1>5, <2>2 DEF Follows
    <3>2. Len(h) = k - 1 /\ \A j \in 1 .. k - 1 : h[j] = s[j]
      BY <1>5 DEF Follows
    <3>3. /\ Len(Append(h, s[k])) = k
          /\ \A j \in 1 .. k : Append(h, s[k])[j] = s[j]
      <4>1. /\ h \in Seq(Seq(Byte)) /\ s[k] \in Seq(Byte) /\ k \in Nat
            /\ Len(Append(h, s[k])) = Len(h) + 1 /\ Append(h, s[k])[Len(h) + 1] = s[k]
            /\ \A j \in 1 .. Len(h) : Append(h, s[k])[j] = h[j]
        BY <1>0, <1>1, <1>2
      <4> QED BY <4>1, <3>2
    <3> QED BY <1>1, <3>1, <3>3 DEF Follows
  <2> QED BY <2>1, <2>2
<1>6. ASSUME Plain(s), Resumes(p, h, k, i, s) PROVE Resumes(q, g \o q.msgs, l, m, s)
  <2>1. CASE Reading(p, s[k], i)
    <3>1. CASE i < Len(s[k])
      BY <1>0, <1>3, <1>6, <2>1, <3>1 DEF Resumes
    <3>2. CASE ~(i < Len(s[k]))
      BY <1>0, <1>1, <1>2, <1>4, <1>6, <2>1, <3>2, OrderedNext DEF Resumes
    <3> QED BY <3>1, <3>2
  <2>2. CASE ~Reading(p, s[k], i)
    <3>1. p.type = "none" /\ Ordered(h, k, s)
      BY <1>6, <2>2 DEF Resumes
    <3>2. i # 1 /\ i \in 2 .. Len(s[k])
      BY <1>0, <1>1, <2>2, <3>1 DEF Reading
    <3>3. s[k][i] \notin Types
      BY <1>0, <1>6, <3>2 DEF Plain
    <3>4. q = p
      BY <1>0, <3>1, <3>3, FeedSkips
    <3>5. k \in Nat /\ l \in Nat /\ k <= l
      BY <1>0, <1>1
    <3>6. Ordered(h, l, s)
      BY <3>1, <3>5, OrderedLater
    <3> QED BY <1>2, <3>1, <3>4, <3>6 DEF Resumes
  <2> QED BY <2>1, <2>2
<1> QED BY <1>2, <1>5, <1>6

\* All the bytes of an interrupt (handlers.c:92-98).
LEMMA FedInPlace ==
  ASSUME NEW s \in Seq(Message), NEW line, Len(line) \in Nat, NEW K, NEW I,
         Carries(K, I, line, s),
         NEW p \in ParserType, p.msgs = << >>, NEW g \in Seq(Seq(Byte)),
         NEW bytes \in Seq(Byte), Len(bytes) <= Len(line),
         \A j \in 1 .. Len(bytes) : bytes[j] = line[j],
         NEW q, q = Fed(p, bytes), NEW n, n = Len(bytes) + 1
  PROVE  /\ Follows(p, g, K[1], I[1], s) => Follows(q, g \o q.msgs, K[n], I[n], s)
         /\ Plain(s) /\ Resumes(p, g, K[1], I[1], s)
              => Resumes(q, g \o q.msgs, K[n], I[n], s)
<1>1. Len(bytes) \in Nat
  OBVIOUS
<1>2. PICK t : /\ t[0] = p
               /\ \A k \in 1 .. Len(bytes) : t[k] = Feed(t[k - 1], bytes[k])
               /\ Fed(p, bytes) = t[Len(bytes)]
  BY ONLY <1>1, FedTrace
<1> DEFINE F(j) == Follows(t[j], g \o t[j].msgs, K[j + 1], I[j + 1], s)
           R(j) == Resumes(t[j], g \o t[j].msgs, K[j + 1], I[j + 1], s)
           S == {j \in 0 .. Len(bytes) :
                   /\ t[j] \in ParserType
                   /\ F(0) => F(j)
                   /\ Plain(s) /\ R(0) => R(j)}
<1>3. 0 \in S
  BY <1>1, <1>2
<1>4. ASSUME NEW j \in Nat, j < Len(bytes), j \in S PROVE j + 1 \in S
  <2>7. PICK N, M \in Nat : N = Len(bytes) /\ M = Len(line) /\ N <= M
    BY <1>1
  <2>1. j + 1 \in 1 .. Len(bytes) /\ (j + 1) - 1 = j /\ j + 1 \in 0 .. Len(bytes)
        /\ j + 1 \in 1 .. Len(line)
    <3>1. j \in Nat /\ j < N
      BY <1>4, <2>7
    <3>2. j + 1 \in 1 .. N /\ (j + 1) - 1 = j /\ j + 1 \in 0 .. N /\ j + 1 \in 1 .. M
      BY <2>7, <3>1
    <3> QED BY <2>7, <3>2
  <2>2. t[j] \in ParserType /\ t[j + 1] = Feed(t[j], bytes[j + 1]) /\ bytes[j + 1] \in Byte
    BY <1>2, <1>4, <2>1
  <2>3. t[j + 1] \in ParserType
    BY <2>2, FeedTyped
  <2>4. /\ K[j + 1] \in 1 .. Len(s) /\ I[j + 1] \in 1 .. Len(s[K[j + 1]])
        /\ line[j + 1] = s[K[j + 1]][I[j + 1]]
        /\ IF I[j + 1] < Len(s[K[j + 1]])
           THEN K[(j + 1) + 1] = K[j + 1] /\ I[(j + 1) + 1] = I[j + 1] + 1
           ELSE K[(j + 1) + 1] = K[j + 1] + 1 /\ I[(j + 1) + 1] = 1
    BY <2>1 DEF Carries
  <2>5. t[j + 1] = Feed(t[j], s[K[j + 1]][I[j + 1]])
    BY <2>1, <2>2, <2>4
  <2>6. /\ F(j) => F(j + 1)
        /\ Plain(s) /\ R(j) => R(j + 1)
    <3>1. PICK a, b, c, d : /\ a = K[j + 1] /\ b = I[j + 1]
                            /\ c = K[(j + 1) + 1] /\ d = I[(j + 1) + 1]
      OBVIOUS
    <3>2. PICK u, v : u = t[j] /\ v = t[j + 1]
      OBVIOUS
    <3>3. NextByte(u, v, a, b, c, d, s)
      BY <2>2, <2>4, <2>5, <3>1, <3>2 DEF NextByte
    <3>4. /\ Follows(u, g \o u.msgs, a, b, s) => Follows(v, g \o v.msgs, c, d, s)
          /\ Plain(s) /\ Resumes(u, g \o u.msgs, a, b, s) => Resumes(v, g \o v.msgs, c, d, s)
      BY <3>3, FeedInPlace
    <3> QED BY <3>1, <3>2, <3>4
  <2> HIDE DEF F, R
  <2> QED BY <1>4, <2>1, <2>3, <2>6
<1>5. Len(bytes) \in S
  <2> HIDE DEF S
  <2> QED BY <1>1, <1>3, <1>4, Ascends
<1>6. t[0] = p /\ g \o p.msgs = g /\ 0 + 1 = 1
  BY <1>2
<1>7. F(0) <=> Follows(p, g, K[1], I[1], s)
  BY <1>6
<1>8. R(0) <=> Resumes(p, g, K[1], I[1], s)
  BY <1>6
<1>9. q = t[Len(bytes)]
  BY <1>2
<1> QED BY <1>5, <1>7, <1>8, <1>9

----------------------------------------------------------------------------
(* Bytes taken from the line, and bytes put on it                          *)

\* The first z bytes of the line are gone.
Without(rest, line, z) ==
  /\ Len(line) \in Nat /\ z \in 0 .. Len(line) /\ Len(rest) = Len(line) - z
  /\ \A n \in 1 .. Len(rest) : rest[n] = line[n + z]

\* The places of what remains are those it had.
LEMMA CarriesShorter ==
  ASSUME NEW K, NEW I, NEW line, NEW s, Carries(K, I, line, s),
         NEW z, NEW rest, Without(rest, line, z)
  PROVE  \E K2, I2 : /\ Carries(K2, I2, rest, s)
                     /\ K2[1] = K[z + 1] /\ I2[1] = I[z + 1]
                     /\ K2[1] \in Nat /\ K[1] \in Nat /\ K[1] <= K2[1]
<1> DEFINE k == [n \in 1 .. Len(rest) + 1 |-> K[n + z]]
           i == [n \in 1 .. Len(rest) + 1 |-> I[n + z]]
<1>0. /\ Len(line) \in Nat /\ z \in 0 .. Len(line) /\ Len(rest) = Len(line) - z
      /\ \A n \in 1 .. Len(rest) : rest[n] = line[n + z]
  BY DEF Without
<1>1. /\ K \in [1 .. Len(line) + 1 -> Nat] /\ I \in [1 .. Len(line) + 1 -> Nat]
      /\ K[Len(line) + 1] = Len(s) + 1 /\ I[Len(line) + 1] = 1
      /\ \A n, m \in 1 .. Len(line) + 1 : n <= m => K[n] <= K[m]
  BY DEF Carries
<1>2. /\ Len(rest) \in Nat /\ z \in Nat
      /\ \A n \in 1 .. Len(rest) + 1 : n + z \in 1 .. Len(line) + 1
      /\ \A n \in 1 .. Len(rest) : n + z \in 1 .. Len(line) /\ (n + 1) + z = (n + z) + 1
      /\ (Len(rest) + 1) + z = Len(line) + 1
  BY <1>0
<1>3. k \in [1 .. Len(rest) + 1 -> Nat] /\ i \in [1 .. Len(rest) + 1 -> Nat]
  BY <1>1, <1>2
<1>4. \A n \in 1 .. Len(rest) + 1 : k[n] = K[n + z] /\ i[n] = I[n + z]
  OBVIOUS
<1>5. \A n \in 1 .. Len(rest) : n \in 1 .. Len(rest) + 1 /\ n + 1 \in 1 .. Len(rest) + 1
  BY <1>2
<1> HIDE DEF k, i
<1>6. k[Len(rest) + 1] = Len(s) + 1 /\ i[Len(rest) + 1] = 1
  BY <1>1, <1>2, <1>4
<1>7. ASSUME NEW n \in 1 .. Len(rest)
      PROVE  /\ k[n] \in 1 .. Len(s) /\ i[n] \in 1 .. Len(s[k[n]])
             /\ rest[n] = s[k[n]][i[n]]
             /\ IF i[n] < Len(s[k[n]]) THEN k[n + 1] = k[n] /\ i[n + 1] = i[n] + 1
                ELSE k[n + 1] = k[n] + 1 /\ i[n + 1] = 1
  <2>1. n + z \in 1 .. Len(line) /\ rest[n] = line[n + z]
    BY <1>0, <1>2
  <2>2. /\ k[n] = K[n + z] /\ i[n] = I[n + z]
        /\ k[n + 1] = K[(n + z) + 1] /\ i[n + 1] = I[(n + z) + 1]
    <3>1. k[n] = K[n + z] /\ i[n] = I[n + z]
      BY <1>4, <1>5
    <3>2. k[n + 1] = K[(n + 1) + z] /\ i[n + 1] = I[(n + 1) + z]
      BY <1>4, <1>5
    <3>3. (n + 1) + z = (n + z) + 1
      BY <1>2
    <3> QED BY <3>1, <3>2, <3>3
  <2> QED BY <2>1, <2>2 DEF Carries
<1>8. \A n, m \in 1 .. Len(rest) + 1 : n <= m => k[n] <= k[m]
  BY <1>1, <1>2, <1>4
<1>9. Carries(k, i, rest, s)
  BY <1>3, <1>6, <1>7, <1>8 DEF Carries
<1>10. k[1] = K[z + 1] /\ i[1] = I[z + 1] /\ k[1] \in Nat
  <2>1. 1 \in 1 .. Len(rest) + 1 /\ 1 + z = z + 1
    BY <1>2
  <2> QED BY <1>3, <1>4, <2>1
<1>11. K[1] <= K[z + 1] /\ K[1] \in Nat
  <2>1. 1 \in 1 .. Len(line) + 1 /\ z + 1 \in 1 .. Len(line) + 1 /\ 1 <= z + 1
    BY <1>0
  <2> QED BY <1>1, <2>1
<1> QED BY <1>9, <1>10, <1>11

\* The bytes of msg come after those of the line.
Adds(more, line, msg) ==
  /\ Len(line) \in Nat /\ Len(more) = Len(line) + Len(msg)
  /\ \A n \in 1 .. Len(line) : more[n] = line[n]
  /\ \A n \in 1 .. Len(msg) : more[Len(line) + n] = msg[n]

\* A message more at the end.
LEMMA CarriesLonger ==
  ASSUME NEW K, NEW I, NEW line, NEW s \in Seq(Message),
         Carries(K, I, line, s), NEW msg \in Message, NEW more, Adds(more, line, msg)
  PROVE  \E K2, I2 : /\ Carries(K2, I2, more, Append(s, msg))
                     /\ K2[1] = K[1] /\ I2[1] = I[1]
<1> DEFINE N == Len(line)
           M == Len(msg)
           k == [n \in 1 .. Len(more) + 1 |->
                   IF n <= N THEN K[n] ELSE IF n <= N + M THEN Len(s) + 1 ELSE Len(s) + 2]
           i == [n \in 1 .. Len(more) + 1 |->
                   IF n <= N THEN I[n] ELSE IF n <= N + M THEN n - N ELSE 1]
           t == Append(s, msg)
<1>1. /\ K \in [1 .. N + 1 -> Nat] /\ I \in [1 .. N + 1 -> Nat]
      /\ K[N + 1] = Len(s) + 1 /\ I[N + 1] = 1
      /\ \A n, m \in 1 .. N + 1 : n <= m => K[n] <= K[m]
  BY DEF Carries
<1>0. /\ \A n \in 1 .. N : more[n] = line[n]
      /\ \A n \in 1 .. M : more[N + n] = msg[n]
  BY DEF Adds
<1>2. /\ N \in Nat /\ M \in Nat \ {0} /\ Len(s) \in Nat /\ Len(more) = N + M
  BY MessageFacts DEF Adds
<1>3. /\ Len(t) = Len(s) + 1 /\ t[Len(s) + 1] = msg
      /\ \A j \in 1 .. Len(s) : t[j] = s[j]
  OBVIOUS
<1>4. k \in [1 .. Len(more) + 1 -> Nat] /\ i \in [1 .. Len(more) + 1 -> Nat]
  BY <1>1, <1>2
<1>5. /\ \A n \in 1 .. N : k[n] = K[n] /\ i[n] = I[n]
      /\ \A n \in N + 1 .. N + M : k[n] = Len(s) + 1 /\ i[n] = n - N
      /\ k[N + M + 1] = Len(s) + 2 /\ i[N + M + 1] = 1
  BY <1>2
<1> HIDE DEF k, i, t, N, M
<1>11. \A n \in 1 .. N + 1 : k[n] = K[n] /\ i[n] = I[n]
  <2>1. N + 1 \in N + 1 .. N + M /\ (N + 1) - N = 1
    BY <1>2
  <2>2. k[N + 1] = K[N + 1] /\ i[N + 1] = I[N + 1]
    BY <1>1, <1>5, <2>1
  <2>3. \A n \in 1 .. N + 1 : n \in 1 .. N \/ n = N + 1
    BY <1>2
  <2> QED BY <1>5, <2>2, <2>3
<1>6. k[Len(more) + 1] = Len(t) + 1 /\ i[Len(more) + 1] = 1
  BY <1>2, <1>3, <1>5
<1>7. ASSUME NEW n \in 1 .. Len(more)
      PROVE  /\ k[n] \in 1 .. Len(t) /\ i[n] \in 1 .. Len(t[k[n]])
             /\ more[n] = t[k[n]][i[n]]
             /\ IF i[n] < Len(t[k[n]]) THEN k[n + 1] = k[n] /\ i[n + 1] = i[n] + 1
                ELSE k[n + 1] = k[n] + 1 /\ i[n + 1] = 1
  <2>1. CASE n <= N
    <3>1. /\ n \in 1 .. N /\ K[n] \in 1 .. Len(s) /\ I[n] \in 1 .. Len(s[K[n]])
          /\ line[n] = s[K[n]][I[n]] /\ more[n] = line[n]
          /\ IF I[n] < Len(s[K[n]]) THEN K[n + 1] = K[n] /\ I[n + 1] = I[n] + 1
             ELSE K[n + 1] = K[n] + 1 /\ I[n + 1] = 1
      BY <1>0, <1>2, <2>1 DEF Carries, N
    <3>2. k[n] = K[n] /\ i[n] = I[n] /\ t[K[n]] = s[K[n]]
      BY <1>3, <1>5, <3>1
    <3>3. n + 1 \in 1 .. N + 1
      BY <1>2, <3>1
    <3>4. k[n + 1] = K[n + 1] /\ i[n + 1] = I[n + 1]
      BY <1>11, <3>3
    <3> QED BY <1>2, <1>3, <3>1, <3>2, <3>4
  <2>2. CASE n > N
    <3>1. n \in N + 1 .. N + M
      BY <1>2, <2>2
    <3>2. k[n] = Len(s) + 1 /\ i[n] = n - N
      BY <1>5, <3>1
    <3>3. n - N \in 1 .. M /\ N + (n - N) = n
      BY <1>2, <2>2, <3>1
    <3>4. more[n] = msg[n - N]
      BY <1>0, <3>3
    <3>5. IF n - N < M THEN k[n + 1] = k[n] /\ i[n + 1] = (n - N) + 1
          ELSE k[n + 1] = k[n] + 1 /\ i[n + 1] = 1
      <4>1. CASE n < N + M
        <5>1. n + 1 \in N + 1 .. N + M
          BY <1>2, <3>1, <4>1
        <5>2. k[n + 1] = Len(s) + 1 /\ i[n + 1] = (n + 1) - N
          BY <1>5, <5>1
        <5> QED BY <1>2, <3>1, <3>2, <4>1, <5>2
      <4>2. CASE n = N + M
        BY <1>2, <1>5, <3>2, <4>2
      <4> QED BY <1>2, <3>1, <4>1, <4>2
    <3> QED BY <1>2, <1>3, <3>2, <3>3, <3>4, <3>5 DEF M
  <2> QED BY <1>2, <2>1, <2>2
<1>8. ASSUME NEW n \in 1 .. Len(more) + 1, NEW m \in 1 .. Len(more) + 1, n <= m
      PROVE  k[n] <= k[m]
  <2>1. \A j \in 1 .. N : k[j] \in Nat /\ k[j] <= Len(s) + 1
    <3>1. \A j \in 1 .. N : j \in 1 .. N + 1 /\ N + 1 \in 1 .. N + 1 /\ j <= N + 1
      BY <1>2
    <3>2. \A j \in 1 .. N : K[j] \in Nat /\ K[j] <= Len(s) + 1
      BY <1>1, <3>1
    <3> QED BY <1>5, <3>2
  <2>2. CASE m \in 1 .. N
    <3>1. n \in 1 .. N /\ n \in 1 .. N + 1 /\ m \in 1 .. N + 1
      BY <1>2, <1>8, <2>2
    <3>2. K[n] <= K[m]
      BY <1>1, <1>8, <3>1
    <3> QED BY <1>5, <2>2, <3>1, <3>2
  <2>3. CASE n \in 1 .. N /\ m \in N + 1 .. N + M
    BY <1>2, <1>5, <2>1, <2>3
  <2>4. CASE n \in N + 1 .. N + M /\ m \in N + 1 .. N + M
    BY <1>2, <1>5, <2>4
  <2>5. CASE m = N + M + 1
    <3>1. n \in 1 .. N \/ n \in N + 1 .. N + M \/ n = N + M + 1
      BY <1>2
    <3>2. CASE n \in 1 .. N
      BY <1>2, <1>5, <2>1, <2>5, <3>2
    <3>3. CASE n \in N + 1 .. N + M
      BY <1>2, <1>5, <2>5, <3>3
    <3>4. CASE n = N + M + 1
      BY <1>2, <1>5, <2>5, <3>4
    <3> QED BY <3>1, <3>2, <3>3, <3>4
  <2>6. m \in 1 .. N \/ m \in N + 1 .. N + M \/ m = N + M + 1
    BY <1>2
  <2>7. m \in N + 1 .. N + M => n \in 1 .. N \/ n \in N + 1 .. N + M
    BY <1>2, <1>8
  <2> QED BY <2>2, <2>3, <2>4, <2>5, <2>6, <2>7
<1>9. Carries(k, i, more, t)
  BY <1>4, <1>6, <1>7, <1>8 DEF Carries
<1>10. k[1] = K[1] /\ i[1] = I[1]
  BY <1>2, <1>11
<1> QED BY <1>9, <1>10 DEF t

\* The line carries what is left of the messages s; while nothing was damaged the
\* parser, with g delivered, is exactly where the line begins, and after that it is
\* there or waits, or there is a gap that will make it start again.
Traced(line, gap, p, g, s, clean) ==
  \E K, I :
    /\ Carries(K, I, line, s)
    /\ clean => Follows(p, g, K[1], I[1], s)
    /\ Plain(s) => /\ Ordered(g, K[1], s)
                   /\ gap \/ p.type = "none" \/ Reading(p, s[K[1]], I[1])

\* Bytes are lost: the parser starts again, or there is a gap before which it will.
LEMMA TracedLoses ==
  ASSUME NEW line, NEW gap, NEW p, NEW g, NEW s, NEW clean,
         Traced(line, gap, p, g, s, clean),
         NEW z, NEW rest, Without(rest, line, z),
         NEW gap2, NEW q, gap2 \/ q.type = "none"
  PROVE  Traced(rest, gap2, q, g, s, FALSE)
<1>1. PICK K, I : Carries(K, I, line, s) /\ (Plain(s) => Ordered(g, K[1], s))
  BY DEF Traced
<1>2. PICK K2, I2 : Carries(K2, I2, rest, s) /\ K2[1] \in Nat /\ K[1] \in Nat /\ K[1] <= K2[1]
  BY <1>1, CarriesShorter
<1>3. Plain(s) => Ordered(g, K2[1], s)
  BY <1>1, <1>2, OrderedLater
<1> QED BY <1>2, <1>3 DEF Traced

\* Bytes are fed to the parser, the first ones of the line.
LEMMA TracedReads ==
  ASSUME NEW line, NEW s \in Seq(Message), NEW g \in Seq(Seq(Byte)), NEW p \in ParserType,
         p.msgs = << >>, NEW clean, Traced(line, FALSE, p, g, s, clean),
         NEW bytes \in Seq(Byte), \A n \in 1 .. Len(bytes) : bytes[n] = line[n],
         NEW rest, Without(rest, line, Len(bytes)),
         NEW q, q = Fed(p, bytes), NEW w, w.type = q.type, w.buf = q.buf
  PROVE  Traced(rest, FALSE, w, g \o q.msgs, s, clean)
<1>1. PICK K, I : /\ Carries(K, I, line, s)
                  /\ clean => Follows(p, g, K[1], I[1], s)
                  /\ Plain(s) => Resumes(p, g, K[1], I[1], s)
  BY DEF Traced, Resumes
<1>2. Len(line) \in Nat /\ Len(bytes) <= Len(line)
  BY DEF Without
<1>3. PICK K2, I2 : /\ Carries(K2, I2, rest, s)
                    /\ K2[1] = K[Len(bytes) + 1] /\ I2[1] = I[Len(bytes) + 1]
  BY <1>1, CarriesShorter
<1>4. /\ Follows(p, g, K[1], I[1], s)
           => Follows(q, g \o q.msgs, K[Len(bytes) + 1], I[Len(bytes) + 1], s)
      /\ Plain(s) /\ Resumes(p, g, K[1], I[1], s)
           => Resumes(q, g \o q.msgs, K[Len(bytes) + 1], I[Len(bytes) + 1], s)
  BY <1>1, <1>2, FedInPlace
<1>5. \A msg, i : Reading(q, msg, i) => Reading(w, msg, i)
  BY DEF Reading
<1>6. clean => Follows(w, g \o q.msgs, K2[1], I2[1], s)
  BY <1>1, <1>3, <1>4, <1>5 DEF Follows
<1>7. Plain(s) => /\ Ordered(g \o q.msgs, K2[1], s)
                  /\ w.type = "none" \/ Reading(w, s[K2[1]], I2[1])
  BY <1>1, <1>3, <1>4, <1>5 DEF Resumes
<1> QED BY <1>3, <1>6, <1>7 DEF Traced

\* A message more is under way.
LEMMA TracedSends ==
  ASSUME NEW line, NEW gap, NEW p, NEW g, NEW s \in Seq(Message), NEW clean,
         Traced(line, gap, p, g, s, clean), NEW msg \in Message,
         NEW more, Adds(more, line, msg), g \in Seq(Seq(Byte))
  PROVE  Traced(more, gap, p, g, Append(s, msg), clean)
<1> DEFINE t == Append(s, msg)
<1>0. /\ Len(line) \in Nat /\ Len(more) = Len(line) + Len(msg)
      /\ \A n \in 1 .. Len(line) : more[n] = line[n]
      /\ \A n \in 1 .. Len(msg) : more[Len(line) + n] = msg[n]
  BY DEF Adds
<1>1. PICK K, I : /\ Carries(K, I, line, s)
                  /\ clean => Follows(p, g, K[1], I[1], s)
                  /\ Plain(s) => /\ Ordered(g, K[1], s)
                                 /\ gap \/ p.type = "none" \/ Reading(p, s[K[1]], I[1])
  BY DEF Traced
<1>2. PICK K2, I2 : Carries(K2, I2, more, t) /\ K2[1] = K[1] /\ I2[1] = I[1]
  BY <1>1, CarriesLonger
<1>3. /\ Len(t) = Len(s) + 1 /\ Len(s) \in Nat
      /\ \A j \in 1 .. Len(s) : t[j] = s[j]
  OBVIOUS
<1> HIDE DEF t
<1>4. K[1] \in 1 .. Len(s) \/ (K[1] = Len(s) + 1 /\ I[1] = 1)
  <2>1. CASE Len(line) = 0
    BY <1>1, <2>1 DEF Carries
  <2>2. CASE Len(line) # 0
    <3>1. 1 \in 1 .. Len(line)
      BY <1>0, <2>2
    <3> QED BY <1>1, <3>1 DEF Carries
  <2> QED BY <2>1, <2>2
<1>5. Reading(p, s[K[1]], I[1]) => Reading(p, t[K[1]], I[1])
  BY <1>3, <1>4 DEF Reading
<1>6. clean => Follows(p, g, K2[1], I2[1], t)
  BY <1>1, <1>2, <1>3, <1>4, <1>5 DEF Follows
<1>7. Plain(t) => Plain(s)
  BY <1>3 DEF Plain
<1>8. ASSUME Ordered(g, K[1], s) PROVE Ordered(g, K[1], t)
  <2>1. PICK o \in [1 .. Len(g) -> 1 .. K[1] - 1] :
          /\ \A j \in 1 .. Len(g) : o[j] \in 1 .. Len(s) /\ g[j] = s[o[j]]
          /\ \A j, l \in 1 .. Len(g) : j < l => o[j] < o[l]
    BY <1>8 DEF Ordered
  <2>2. ASSUME NEW j \in 1 .. Len(g) PROVE o[j] \in 1 .. Len(t) /\ g[j] = t[o[j]]
    <3>1. o[j] \in 1 .. Len(s) /\ g[j] = s[o[j]]
      BY <2>1
    <3> QED BY <1>3, <3>1
  <2> QED BY <2>1, <2>2 DEF Ordered
<1> QED BY <1>1, <1>2, <1>5, <1>6, <1>7, <1>8 DEF Traced, t

----------------------------------------------------------------------------
(* The invariant                                                           *)

\* How many bytes of the line the receiver has, those that will be thrown away for an
\* error not counted.
Base(r, f, lost) == IF lost THEN 0 ELSE Held(r) + Len(f)

\* The bytes on the way: ring, FIFO, holding register, buffer of the sender.
Line(r, f, lost, t, o) ==
  [n \in 1 .. Base(r, f, lost) + Len(t) + Len(o) |->
     IF n <= Base(r, f, lost) THEN Item(r, f, n)
     ELSE IF n <= Base(r, f, lost) + Len(t) THEN t[n - Base(r, f, lost)]
     ELSE o[n - Base(r, f, lost) - Len(t)]]

\* What the receiver has is thrown away in this interrupt, or will be in the next.
Lost == overrun \/ cause = "RLS"

\* Bytes are missing before the line, and the parser will start again for that.
Gap == Lost \/ ring.overflowed

Typed ==
  /\ ring \in RingType /\ rx \in ParserType /\ rx.msgs = << >>
  /\ fifo \in Seq(FifoByte) /\ thr \in Seq(Byte) /\ out \in Seq(Byte)
  /\ overrun \in BOOLEAN /\ errors \in Nat /\ cut \in BOOLEAN
  /\ cause \in {"none", "RLS", "RDA"} /\ lsr \in {"unread", "data", "error"}
  /\ during \in 0 .. Burst
  /\ sent \in Seq(Message) /\ got \in Seq(Seq(Byte))

\* Between two interrupts no note is left, and the ring has room for all that the next
\* can bring.
Idle ==
  cause = "none" =>
    /\ lsr = "unread" /\ during = 0
    /\ overrun => Len(fifo) = FifoSize
    /\ Held(ring) < FifoSize + Burst
    /\ ~ring.overflowed

\* A line status interrupt finds the error it was raised for and notes it.
Discarding ==
  cause = "RLS" =>
    IF ring.overflowed THEN Held(ring) = 0
    ELSE lsr = "unread" /\ LineStatus /\ fifo # << >>

\* The other one goes on filling the ring, from nothing after an error.
Filling ==
  cause = "RDA" =>
    Held(ring) + Len(fifo) < IF ring.overflowed THEN FifoSize + during
                             ELSE 2 * FifoSize + Burst + during

Room ==
  /\ Len(fifo) <= FifoSize /\ Len(thr) <= 1
  /\ lsr # "unread" => fifo # << >>
  /\ Idle /\ Discarding /\ Filling

Undamaged ==
  errors = 0 =>
    /\ ~overrun /\ cause # "RLS" /\ lsr # "error" /\ ~ring.overflowed /\ missed = {}
    /\ \A n \in 1 .. Len(fifo) : ~fifo[n].bad

InPlace ==
  ~cut /\ missed = {} =>
    /\ cause = "RDA" => ~overrun
    /\ Traced(Line(ring, fifo, Lost, thr, out), Gap, rx, got, sent, errors = 0)

LinkInv == Typed /\ Room /\ Undamaged /\ InPlace

\* What a line is made of, place by place.
LinePlaces(line, B, r, f, t, o) ==
  /\ B \in Nat /\ Len(t) \in Nat /\ Len(o) \in Nat
  /\ line \in Seq(Byte) /\ Len(line) = B + Len(t) + Len(o)
  /\ \A n \in 1 .. B : line[n] = Item(r, f, n)
  /\ \A n \in 1 .. Len(t) : line[B + n] = t[n]
  /\ \A n \in 1 .. Len(o) : line[B + Len(t) + n] = o[n]

\* A line is made of these.
LEMMA LineIs ==
  ASSUME NEW r \in RingType, NEW f \in Seq(FifoByte), NEW lost,
         NEW t \in Seq(Byte), NEW o \in Seq(Byte)
  PROVE  LinePlaces(Line(r, f, lost, t, o), Base(r, f, lost), r, f, t, o)
<1> DEFINE B == Base(r, f, lost)
           line == Line(r, f, lost, t, o)
<1>1. Held(r) \in Nat /\ Len(f) \in Nat /\ Len(t) \in Nat /\ Len(o) \in Nat
  BY HeldBounds
<1>2. B \in Nat /\ B <= Held(r) + Len(f)
  BY <1>1 DEF Base
<1>3. ASSUME NEW n \in 1 .. B PROVE Item(r, f, n) \in Byte
  <2>1. CASE n <= Held(r)
    <3>1. Queued(r) \in Seq(Byte) /\ Len(Queued(r)) = Held(r)
      BY QueuedIsSeq
    <3> QED BY <1>1, <1>2, <2>1, <3>1 DEF Item
  <2>2. CASE ~(n <= Held(r))
    <3>1. n - Held(r) \in 1 .. Len(f)
      BY <1>1, <1>2, <2>2
    <3>2. f[n - Held(r)] \in FifoByte
      BY <3>1
    <3> QED BY <2>2, <3>2 DEF Item, FifoByte
  <2> QED BY <2>1, <2>2
<1> DEFINE N == B + Len(t) + Len(o)
<1>4. line = [n \in 1 .. N |-> IF n <= B THEN Item(r, f, n)
                               ELSE IF n <= B + Len(t) THEN t[n - B] ELSE o[n - B - Len(t)]]
  BY DEF Line
<1> HIDE DEF B, line
<1>5. ASSUME NEW n \in 1 .. N
      PROVE  /\ line[n] \in Byte
             /\ n <= B => line[n] = Item(r, f, n)
             /\ n > B /\ n <= B + Len(t) => line[n] = t[n - B]
             /\ n > B + Len(t) => line[n] = o[n - B - Len(t)]
  <2>1. line[n] = IF n <= B THEN Item(r, f, n)
                  ELSE IF n <= B + Len(t) THEN t[n - B] ELSE o[n - B - Len(t)]
    BY <1>4
  <2>2. CASE n <= B
    BY <1>1, <1>2, <1>3, <2>1, <2>2
  <2>3. CASE n > B /\ n <= B + Len(t)
    <3>1. n - B \in 1 .. Len(t)
      BY <1>1, <1>2, <2>3
    <3> QED BY <1>1, <1>2, <2>1, <2>3, <3>1
  <2>4. CASE n > B + Len(t)
    <3>1. n - B - Len(t) \in 1 .. Len(o)
      BY <1>1, <1>2, <2>4
    <3> QED BY <1>1, <1>2, <2>1, <2>4, <3>1
  <2> QED BY <1>1, <1>2, <2>2, <2>3, <2>4
<1>6. line \in Seq(Byte) /\ Len(line) = N
  <2>1. line \in [1 .. N -> Byte] /\ N \in Nat
    BY <1>1, <1>2, <1>4, <1>5
  <2>2. line \in Seq(Byte) /\ DOMAIN line = 1 .. N
    BY <2>1, SeqDef
  <2>3. Len(line) \in Nat /\ DOMAIN line = 1 .. Len(line)
    BY <2>2, LenProperties
  <2> QED BY <2>1, <2>2, <2>3
<1>7. \A n \in 1 .. B : line[n] = Item(r, f, n)
  <2>1. \A n \in 1 .. B : n \in 1 .. N /\ n <= B
    BY <1>1, <1>2
  <2> QED BY <1>5, <2>1
<1>8. ASSUME NEW n \in 1 .. Len(t) PROVE line[B + n] = t[n]
  <2>1. B + n \in 1 .. N /\ B + n > B /\ B + n <= B + Len(t) /\ (B + n) - B = n
    BY <1>1, <1>2
  <2> QED BY <1>5, <2>1
<1>9. ASSUME NEW n \in 1 .. Len(o) PROVE line[B + Len(t) + n] = o[n]
  <2>1. /\ B + Len(t) + n \in 1 .. N /\ B + Len(t) + n > B + Len(t)
        /\ (B + Len(t) + n) - B - Len(t) = n
    BY <1>1, <1>2
  <2> QED BY <1>5, <2>1
<1>10. LinePlaces(line, B, r, f, t, o)
  BY <1>1, <1>2, <1>6, <1>7, <1>8, <1>9 DEF LinePlaces
<1> QED BY <1>10 DEF B, line

\* Sequences of bytes are equal place by place.
LEMMA SameBytes ==
  ASSUME NEW a \in Seq(Byte), NEW b \in Seq(Byte), Len(a) = Len(b),
         \A n \in 1 .. Len(a) : a[n] = b[n]
  PROVE  a = b
BY SeqEqual

\* Of what the receiver has, r and f without lost, there is all but the first z bytes
\* in e and g.
Remains(e, g, left, r, f, lost, z) ==
  /\ z \in 0 .. Base(r, f, lost)
  /\ Base(e, g, left) = Base(r, f, lost) - z
  /\ \A j \in 1 .. Base(e, g, left) : Item(e, g, j) = Item(r, f, z + j)

\* The line begins where what remains begins.
LEMMA LineShifts ==
  ASSUME NEW r \in RingType, NEW f \in Seq(FifoByte), NEW lost,
         NEW e \in RingType, NEW g \in Seq(FifoByte), NEW left,
         NEW t \in Seq(Byte), NEW o \in Seq(Byte), NEW z, Remains(e, g, left, r, f, lost, z)
  PROVE  Without(Line(e, g, left, t, o), Line(r, f, lost, t, o), z)
<1> DEFINE line == Line(r, f, lost, t, o)
           rest == Line(e, g, left, t, o)
           B == Base(r, f, lost)
           A == Base(e, g, left)
<1>1. B \in Nat
  BY HeldBounds DEF Base
<1>2. z \in 0 .. B /\ A = B - z /\ \A j \in 1 .. A : Item(e, g, j) = Item(r, f, z + j)
  BY DEF Remains
<1>3. LinePlaces(line, B, r, f, t, o)
  BY LineIs
<1>4. LinePlaces(rest, A, e, g, t, o)
  BY LineIs
<1> HIDE DEF line, rest, B, A
<1>5. A \in Nat /\ z \in Nat
  BY <1>1, <1>2
<1>6. /\ Len(t) \in Nat /\ Len(o) \in Nat
      /\ Len(line) = B + Len(t) + Len(o) /\ Len(rest) = A + Len(t) + Len(o)
  BY <1>3, <1>4 DEF LinePlaces
<1>7. ASSUME NEW n \in 1 .. Len(rest) PROVE rest[n] = line[n + z]
  <2>1. CASE n <= A
    <3>1. n \in 1 .. A /\ n + z \in 1 .. B /\ n + z = z + n
      BY <1>1, <1>2, <1>5, <2>1
    <3>2. rest[n] = Item(e, g, n) /\ line[n + z] = Item(r, f, z + n)
      BY <1>3, <1>4, <3>1 DEF LinePlaces
    <3> QED BY <1>2, <3>1, <3>2
  <2>2. CASE n > A /\ n <= A + Len(t)
    <3>1. PICK m : m = n - A
      OBVIOUS
    <3>2. m \in 1 .. Len(t) /\ A + m = n /\ B + m = n + z
      BY <1>1, <1>2, <1>5, <1>6, <2>2, <3>1
    <3>3. rest[A + m] = t[m] /\ line[B + m] = t[m]
      BY <1>3, <1>4, <3>2 DEF LinePlaces
    <3> QED BY <3>2, <3>3
  <2>3. CASE n > A + Len(t)
    <3>1. PICK m : m = n - A - Len(t)
      OBVIOUS
    <3>2. m \in 1 .. Len(o) /\ A + Len(t) + m = n /\ B + Len(t) + m = n + z
      BY <1>1, <1>2, <1>5, <1>6, <2>3, <3>1
    <3>3. rest[A + Len(t) + m] = o[m] /\ line[B + Len(t) + m] = o[m]
      BY <1>3, <1>4, <3>2 DEF LinePlaces
    <3> QED BY <3>2, <3>3
  <2> QED BY <1>5, <1>6, <2>1, <2>2, <2>3
<1>8. Len(line) \in Nat /\ z \in 0 .. Len(line) /\ Len(rest) = Len(line) - z
  BY <1>1, <1>2, <1>5, <1>6
<1>9. Without(rest, line, z)
  BY <1>7, <1>8 DEF Without
<1> QED BY <1>9 DEF line, rest

\* If nothing is gone the line is the same.
LEMMA LineStays ==
  ASSUME NEW r \in RingType, NEW f \in Seq(FifoByte), NEW lost,
         NEW e \in RingType, NEW g \in Seq(FifoByte), NEW left,
         NEW t \in Seq(Byte), NEW o \in Seq(Byte), Remains(e, g, left, r, f, lost, 0)
  PROVE  Line(e, g, left, t, o) = Line(r, f, lost, t, o)
<1>1. PICK line, rest : line = Line(r, f, lost, t, o) /\ rest = Line(e, g, left, t, o)
  OBVIOUS
<1>2. Without(rest, line, 0)
  BY <1>1, LineShifts
<1>3. line \in Seq(Byte) /\ rest \in Seq(Byte)
  BY <1>1, LineIs DEF LinePlaces
<1>4. Len(rest) = Len(line) /\ \A n \in 1 .. Len(rest) : rest[n] = line[n]
  BY <1>2, <1>3 DEF Without
<1>5. rest = line
  BY <1>3, <1>4, SameBytes
<1> QED BY <1>1, <1>5

\* What is thrown away may change.
LEMMA LostStays ==
  ASSUME NEW r, NEW f, NEW e, NEW g, NEW t \in Seq(Byte), NEW o \in Seq(Byte)
  PROVE  Line(e, g, TRUE, t, o) = Line(r, f, TRUE, t, o)
<1>1. Len(t) \in Nat /\ Len(o) \in Nat
  OBVIOUS
<1> QED BY <1>1 DEF Line, Base

\* A FIFO holds a byte, the ring all that two interrupts can bring.
LEMMA Numbers ==
  /\ FifoSize \in Nat \ {0} /\ Burst \in Nat /\ RingSize \in Nat
  /\ RingSize >= 2 * (FifoSize + Burst)
BY LinkAssumption, RingAssumption

\* At first nothing is under way and the parser waits.
LEMMA LinkStarts == Init => LinkInv
<1> SUFFICES ASSUME Init PROVE LinkInv
  OBVIOUS
<1>1. /\ ring \in RingType /\ ring.head = 0 /\ ring.tail = 0 /\ ~ring.overflowed
      /\ Held(ring) = 0
  BY RingAssumption DEF Init, EmptyRing, RingType, Slots, Held
<1>2. rx \in ParserType /\ rx.msgs = << >> /\ rx.type = "none"
  BY DEF Init, Resting, ParserType
<1>3. Typed /\ Room /\ Undamaged
  <2>1. /\ << >> \in Seq(FifoByte) /\ << >> \in Seq(Byte) /\ << >> \in Seq(Message)
        /\ << >> \in Seq(Seq(Byte)) /\ Len(<< >>) = 0
    OBVIOUS
  <2>2. Typed
    <3>1. during \in 0 .. Burst /\ errors \in Nat
      BY Numbers DEF Init
    <3>2. /\ overrun \in BOOLEAN /\ cut \in BOOLEAN
          /\ cause \in {"none", "RLS", "RDA"} /\ lsr \in {"unread", "data", "error"}
      BY DEF Init
    <3>3. /\ fifo \in Seq(FifoByte) /\ thr \in Seq(Byte) /\ out \in Seq(Byte)
          /\ sent \in Seq(Message) /\ got \in Seq(Seq(Byte))
      BY <2>1 DEF Init
    <3> QED BY <1>1, <1>2, <3>1, <3>2, <3>3 DEF Typed
  <2>3. Room
    BY <1>1, <2>1, Numbers DEF Init, Room, Idle, Discarding, Filling
  <2>4. Undamaged
    BY <1>1, <2>1 DEF Init, Undamaged
  <2> QED BY <2>2, <2>3, <2>4
<1>4. InPlace
  <2> DEFINE line == Line(ring, fifo, Lost, thr, out)
             one == [n \in 1 .. 1 |-> 1]
  <2>0. ring \in RingType /\ fifo \in Seq(FifoByte) /\ thr \in Seq(Byte) /\ out \in Seq(Byte)
    BY <1>3 DEF Typed
  <2>1. Base(ring, fifo, Lost) = 0 /\ Len(thr) = 0 /\ Len(out) = 0
    BY <1>1 DEF Init, Base
  <2>2. LinePlaces(line, 0, ring, fifo, thr, out)
    BY <2>0, <2>1, LineIs
  <2> HIDE DEF line
  <2>8. Len(line) = 0
    BY <2>1, <2>2 DEF LinePlaces
  <2>3. Carries(one, one, line, sent)
    BY <2>8 DEF Init, Carries
  <2>4. Follows(rx, got, one[1], one[1], sent)
    BY <1>2 DEF Init, Follows, Reading
  <2>5. Len(got) = 0 /\ one[1] = 1
    BY DEF Init
  <2> HIDE DEF one
  <2>6. Ordered(got, one[1], sent)
    <3> DEFINE o == [j \in 1 .. 0 |-> 0]
    <3>1. o \in [1 .. Len(got) -> 1 .. one[1] - 1]
      BY <2>5
    <3>2. \A j \in 1 .. Len(got) : FALSE
      BY <2>5
    <3> HIDE DEF o
    <3> QED BY <3>1, <3>2 DEF Ordered
  <2>7. Traced(line, Gap, rx, got, sent, errors = 0)
    BY <1>2, <2>3, <2>4, <2>6 DEF Traced
  <2> QED BY <2>7 DEF InPlace, line, Init
<1> QED BY <1>3, <1>4 DEF LinkInv

----------------------------------------------------------------------------
(* The sender                                                              *)

\* proto_send_*: the message's bytes come after all others.
LEMMA StartMessageInPlace == LinkInv /\ StartMessage => LinkInv'
<1> SUFFICES ASSUME LinkInv, StartMessage PROVE LinkInv'
  OBVIOUS
<1>1. Typed /\ Room /\ Undamaged /\ InPlace
  BY DEF LinkInv
<1>2. PICK msg \in Message : out' = msg /\ sent' = Append(sent, msg)
  BY DEF StartMessage
<1>3. /\ out = << >>
      /\ UNCHANGED <<thr, fifo, overrun, handler, during, ring, rx, got, errors, cut, missed>>
  BY DEF StartMessage
<1>4. msg \in Seq(Byte) /\ Len(msg) \in Nat
  BY MessageFacts
<1>5. Typed' /\ Room' /\ Undamaged'
  BY <1>1, <1>2, <1>3, <1>4 DEF Typed, Room, Idle, Discarding, Filling, LineStatus, Undamaged, handler
<1>6. ASSUME ~cut, missed = {} PROVE Traced(Line(ring, fifo, Lost, thr, msg), Gap, rx, got,
                               Append(sent, msg), errors = 0)
  <2> DEFINE line == Line(ring, fifo, Lost, thr, out)
             more == Line(ring, fifo, Lost, thr, msg)
             B == Base(ring, fifo, Lost)
  <2>1. Traced(line, Gap, rx, got, sent, errors = 0)
    BY <1>1, <1>6 DEF InPlace
  <2>0. ring \in RingType /\ fifo \in Seq(FifoByte) /\ thr \in Seq(Byte) /\ out \in Seq(Byte)
    BY <1>1 DEF Typed
  <2>8. LinePlaces(line, B, ring, fifo, thr, out) /\ LinePlaces(more, B, ring, fifo, thr, msg)
    BY <1>4, <2>0, LineIs
  <2> HIDE DEF line, more, B
  <2>2. /\ B \in Nat /\ Len(thr) \in Nat /\ Len(line) = B + Len(thr) + Len(out)
        /\ \A n \in 1 .. B : line[n] = Item(ring, fifo, n)
        /\ \A n \in 1 .. Len(thr) : line[B + n] = thr[n]
    BY <2>8 DEF LinePlaces
  <2>3. /\ Len(more) = B + Len(thr) + Len(msg)
        /\ \A n \in 1 .. B : more[n] = Item(ring, fifo, n)
        /\ \A n \in 1 .. Len(thr) : more[B + n] = thr[n]
        /\ \A n \in 1 .. Len(msg) : more[B + Len(thr) + n] = msg[n]
    BY <2>8 DEF LinePlaces
  <2>4. Len(out) = 0 /\ Len(thr) \in Nat /\ Len(line) = B + Len(thr)
    BY <1>3, <2>2
  <2>5. ASSUME NEW n \in 1 .. Len(line) PROVE more[n] = line[n]
    <3>1. CASE n <= B
      BY <2>2, <2>3, <2>4, <3>1
    <3>2. CASE n > B
      <4>1. n - B \in 1 .. Len(thr) /\ B + (n - B) = n
        BY <2>2, <2>4, <3>2
      <4> QED BY <2>2, <2>3, <4>1
    <3> QED BY <2>2, <2>4, <3>1, <3>2
  <2>6. /\ Len(line) \in Nat /\ Len(more) = Len(line) + Len(msg)
        /\ \A n \in 1 .. Len(msg) : more[Len(line) + n] = msg[n]
    BY <1>4, <2>2, <2>3, <2>4
  <2>7. Traced(more, Gap, rx, got, Append(sent, msg), errors = 0)
    <3>1. got \in Seq(Seq(Byte)) /\ sent \in Seq(Message)
      BY <1>1 DEF Typed
    <3>2. PICK clean, gap : clean = (errors = 0) /\ gap = Gap
      OBVIOUS
    <3>3. Traced(line, gap, rx, got, sent, clean)
      BY <2>1, <3>2
    <3>4. Adds(more, line, msg)
      BY <2>5, <2>6 DEF Adds
    <3>5. Traced(more, gap, rx, got, Append(sent, msg), clean)
      BY <3>1, <3>3, <3>4, TracedSends
    <3> QED BY <3>2, <3>5
  <2> QED BY <2>7 DEF more
<1>7. InPlace'
  <2>1. Lost' = Lost /\ Gap' = Gap
    BY <1>3 DEF Lost, Gap, handler
  <2> QED BY <1>1, <1>2, <1>3, <1>6, <2>1 DEF InPlace, handler
<1> QED BY <1>5, <1>7 DEF LinkInv

\* uart_send_byte: the byte moves on and the line stays the same.
LEMMA PutByteInPlace == LinkInv /\ PutByte => LinkInv'
<1> SUFFICES ASSUME LinkInv, PutByte PROVE LinkInv'
  OBVIOUS
<1>1. Typed /\ Room /\ Undamaged /\ InPlace
  BY DEF LinkInv
<1>2. /\ out # << >> /\ thr = << >> /\ thr' = <<Head(out)>> /\ out' = Tail(out)
      /\ UNCHANGED <<fifo, overrun, handler, during, ring, rx, sent, got, errors, cut, missed>>
  BY DEF PutByte
<1>3. /\ thr' \in Seq(Byte) /\ Len(thr') = 1 /\ thr'[1] = out[1]
      /\ out' \in Seq(Byte) /\ Len(out) = Len(out') + 1
      /\ \A n \in 1 .. Len(out') : out'[n] = out[n + 1]
      /\ Len(out') \in Nat /\ Len(thr) = 0
  BY <1>1, <1>2 DEF Typed
<1>4. Typed' /\ Room' /\ Undamaged'
  BY <1>1, <1>2, <1>3 DEF Typed, Room, Idle, Discarding, Filling, LineStatus, Undamaged, handler
<1>5. Line(ring, fifo, Lost, thr', out') = Line(ring, fifo, Lost, thr, out)
  <2> DEFINE line == Line(ring, fifo, Lost, thr, out)
             same == Line(ring, fifo, Lost, thr', out')
             B == Base(ring, fifo, Lost)
  <2>0. ring \in RingType /\ fifo \in Seq(FifoByte) /\ thr \in Seq(Byte) /\ out \in Seq(Byte)
    BY <1>1 DEF Typed
  <2>8. /\ LinePlaces(line, B, ring, fifo, thr, out)
        /\ LinePlaces(same, B, ring, fifo, thr', out')
    BY <1>3, <2>0, LineIs
  <2> HIDE DEF line, same, B
  <2>1. /\ B \in Nat /\ line \in Seq(Byte) /\ Len(line) = B + Len(thr) + Len(out)
        /\ \A n \in 1 .. B : line[n] = Item(ring, fifo, n)
        /\ \A n \in 1 .. Len(out) : line[B + Len(thr) + n] = out[n]
    BY <2>8 DEF LinePlaces
  <2>2. /\ same \in Seq(Byte) /\ Len(same) = B + Len(thr') + Len(out')
        /\ \A n \in 1 .. B : same[n] = Item(ring, fifo, n)
        /\ \A n \in 1 .. Len(thr') : same[B + n] = thr'[n]
        /\ \A n \in 1 .. Len(out') : same[B + Len(thr') + n] = out'[n]
    BY <2>8 DEF LinePlaces
  <2>3. Len(same) = Len(line)
    BY <1>3, <2>1, <2>2
  <2>4. ASSUME NEW n \in 1 .. Len(same) PROVE same[n] = line[n]
    <3>1. CASE n <= B
      BY <2>1, <2>2, <2>3, <3>1
    <3>2. CASE n = B + 1
      <4>1. same[B + 1] = thr'[1] /\ line[B + 0 + 1] = out[1] /\ B + 0 + 1 = B + 1
        BY <1>3, <2>1, <2>2
      <4> QED BY <1>3, <3>2, <4>1
    <3>3. CASE n > B + 1
      <4>1. /\ n - B - 1 \in 1 .. Len(out') /\ B + 1 + (n - B - 1) = n
            /\ n - B \in 1 .. Len(out) /\ B + 0 + (n - B) = n
            /\ (n - B - 1) + 1 = n - B
        BY <1>3, <2>1, <2>2, <3>3
      <4>2. same[n] = out'[n - B - 1]
        <5>1. PICK i : i = n - B - 1
          OBVIOUS
        <5>2. same[B + Len(thr') + i] = out'[i] /\ B + Len(thr') + i = n
          BY <1>3, <2>2, <4>1, <5>1
        <5> QED BY <5>1, <5>2
      <4>3. line[n] = out[n - B]
        <5>1. PICK i : i = n - B
          OBVIOUS
        <5>2. line[B + Len(thr) + i] = out[i] /\ B + Len(thr) + i = n
          BY <1>3, <2>1, <4>1, <5>1
        <5> QED BY <5>1, <5>2
      <4> QED BY <1>3, <4>1, <4>2, <4>3
    <3> QED BY <2>1, <3>1, <3>2, <3>3
  <2>5. same = line
    BY <2>1, <2>2, <2>3, <2>4, SameBytes
  <2> QED BY <2>5 DEF same, line
<1>6. InPlace'
  <2>1. Lost' = Lost /\ Gap' = Gap
    BY <1>2 DEF Lost, Gap, handler
  <2> QED BY <1>1, <1>2, <1>5, <2>1 DEF InPlace, handler
<1> QED BY <1>4, <1>6 DEF LinkInv

\* uart_send_byte gives up: nothing is promised any more.
LEMMA GiveUpInPlace == LinkInv /\ GiveUp => LinkInv'
<1> SUFFICES ASSUME LinkInv, GiveUp PROVE LinkInv'
  OBVIOUS
<1>1. /\ out' = << >> /\ cut' = TRUE
      /\ UNCHANGED <<thr, fifo, overrun, handler, during, ring, rx, sent, got, errors, missed>>
  BY DEF GiveUp
<1> QED BY <1>1 DEF LinkInv, Typed, Room, Idle, Discarding, Filling, LineStatus, Undamaged, InPlace, handler

\* The only byte of the holding register.
LEMMA OneByte ==
  ASSUME NEW t \in Seq(Byte), Len(t) <= 1, t # << >>
  PROVE  Len(t) = 1 /\ Head(t) = t[1] /\ Head(t) \in Byte
<1>1. Len(t) \in Nat /\ Len(t) # 0
  BY EmptySeq, LenProperties
<1>2. Len(t) = 1
  BY <1>1
<1> QED BY <1>2

\* x comes after the bytes of q.
Longer(f, q, x) ==
  /\ f \in Seq(FifoByte) /\ Len(q) \in Nat /\ Len(f) = Len(q) + 1 /\ f[Len(q) + 1] = x
  /\ \A n \in 1 .. Len(q) : f[n] = q[n]

\* A byte more in the FIFO.
LEMMA LongerIs ==
  ASSUME NEW q \in Seq(FifoByte), NEW x \in FifoByte
  PROVE  Longer(Append(q, x), q, x)
BY DEF Longer

\* A byte that comes, damaged or not, was the next one of the line and stays it.
LEMMA ArrivesInPlace ==
  ASSUME NEW r \in RingType, NEW q \in Seq(FifoByte), NEW t \in Seq(Byte), Len(t) <= 1,
         t # << >>, NEW o \in Seq(Byte), NEW x \in FifoByte, x.byte = Head(t),
         NEW f, Longer(f, q, x)
  PROVE  Line(r, f, FALSE, << >>, o) = Line(r, q, FALSE, t, o)
<1>1. Len(t) = 1 /\ x.byte = t[1]
  BY OneByte
<1>3. /\ f \in Seq(FifoByte) /\ Len(f) = Len(q) + 1 /\ Len(q) \in Nat
      /\ f[Len(q) + 1] = x
      /\ \A n \in 1 .. Len(q) : f[n] = q[n]
  BY DEF Longer
<1> DEFINE line == Line(r, q, FALSE, t, o)
           same == Line(r, f, FALSE, << >>, o)
           B == Base(r, q, FALSE)
           A == Base(r, f, FALSE)
<1>4. Held(r) \in Nat /\ Len(o) \in Nat
  BY HeldBounds
<1>5. B = Held(r) + Len(q) /\ A = B + 1 /\ B \in Nat
  BY <1>3, <1>4 DEF Base
<1>6. << >> \in Seq(Byte) /\ Len(<< >>) = 0
  OBVIOUS
<1>12. LinePlaces(line, B, r, q, t, o)
  BY LineIs
<1>13. LinePlaces(same, A, r, f, << >>, o)
  BY <1>3, <1>6, LineIs
<1> HIDE DEF line, same, B, A
<1>7. /\ line \in Seq(Byte) /\ Len(line) = B + 1 + Len(o)
      /\ \A n \in 1 .. B : line[n] = Item(r, q, n)
      /\ line[B + 1] = t[1]
      /\ \A n \in 1 .. Len(o) : line[B + 1 + n] = o[n]
  <2>1. 1 \in 1 .. Len(t)
    BY <1>1
  <2> QED BY <1>1, <1>12, <2>1 DEF LinePlaces
<1>8. /\ same \in Seq(Byte) /\ Len(same) = A + 0 + Len(o)
      /\ \A n \in 1 .. A : same[n] = Item(r, f, n)
      /\ \A n \in 1 .. Len(o) : same[A + 0 + n] = o[n]
  BY <1>6, <1>13 DEF LinePlaces
<1>9. Len(same) = Len(line)
  BY <1>4, <1>5, <1>7, <1>8
<1>14. \A n \in 1 .. Len(o) : A + 0 + n = B + 1 + n
  BY <1>4, <1>5
<1>10. ASSUME NEW n \in 1 .. Len(same) PROVE same[n] = line[n]
  <2>1. CASE n <= B
    <3>1. n \in 1 .. B /\ n \in 1 .. A
      BY <1>5, <2>1
    <3>2. Item(r, f, n) = Item(r, q, n)
      <4>1. CASE n <= Held(r)
        BY <4>1 DEF Item
      <4>2. CASE ~(n <= Held(r))
        <5>1. n - Held(r) \in 1 .. Len(q)
          BY <1>3, <1>4, <1>5, <3>1, <4>2
        <5> QED BY <1>3, <4>2, <5>1 DEF Item
      <4> QED BY <4>1, <4>2
    <3> QED BY <1>7, <1>8, <3>1, <3>2
  <2>2. CASE n = B + 1
    <3>1. same[n] = Item(r, f, n) /\ line[n] = t[1]
      BY <1>5, <1>7, <1>8, <2>2
    <3>2. ~(n <= Held(r)) /\ n - Held(r) = Len(q) + 1
      BY <1>3, <1>4, <1>5, <2>2
    <3> QED BY <1>1, <1>3, <3>1, <3>2 DEF Item
  <2>3. CASE n > B + 1
    <3>1. PICK j : j = n - B - 1
      OBVIOUS
    <3>2. n \in Nat /\ n <= B + 1 + Len(o)
      BY <1>4, <1>5, <1>8
    <3>3. j \in 1 .. Len(o) /\ B + 1 + j = n
      <4>1. B \in Nat /\ Len(o) \in Nat /\ n > B + 1
        BY <1>4, <1>5, <2>3
      <4> QED BY <3>1, <3>2, <4>1
    <3>4. same[n] = o[j] /\ line[n] = o[j]
      BY <1>7, <1>8, <1>14, <3>3
    <3> QED BY <3>4
  <2> QED BY <1>5, <2>1, <2>2, <2>3
<1>11. same = line
  BY <1>7, <1>8, <1>9, <1>10, SameBytes
<1> QED BY <1>11 DEF same, line

----------------------------------------------------------------------------
(* The cable                                                               *)

\* A byte that comes while what the receiver has is lost is the next one of the line.
LEMMA NextIsLost ==
  ASSUME NEW r \in RingType, NEW f \in Seq(FifoByte), NEW lost, NEW g \in Seq(FifoByte),
         NEW t \in Seq(Byte), Len(t) <= 1, t # << >>, NEW o \in Seq(Byte)
  PROVE  \E z : Without(Line(r, g, TRUE, << >>, o), Line(r, f, lost, t, o), z)
<1> DEFINE line == Line(r, f, lost, t, o)
           rest == Line(r, g, TRUE, << >>, o)
           B == Base(r, f, lost)
<1>1. Len(t) = 1 /\ << >> \in Seq(Byte) /\ Len(<< >>) = 0
  BY OneByte
<1>2. Base(r, g, TRUE) = 0
  BY DEF Base
<1>3. LinePlaces(line, B, r, f, t, o) /\ LinePlaces(rest, 0, r, g, << >>, o)
  BY <1>1, <1>2, LineIs
<1> HIDE DEF line, rest, B
<1>4. /\ B \in Nat /\ Len(o) \in Nat /\ Len(line) = B + 1 + Len(o)
      /\ \A n \in 1 .. Len(o) : line[B + 1 + n] = o[n]
  BY <1>1, <1>3 DEF LinePlaces
<1>5. Len(rest) = Len(o) /\ \A n \in 1 .. Len(o) : rest[n] = o[n]
  <2>1. Len(rest) = 0 + 0 + Len(o) /\ \A n \in 1 .. Len(o) : rest[0 + 0 + n] = o[n]
    BY <1>1, <1>3 DEF LinePlaces
  <2> QED BY <1>4, <2>1
<1>6. Without(rest, line, B + 1)
  BY <1>4, <1>5 DEF Without
<1> QED BY <1>6 DEF line, rest

\* Damage allows more, not less.
LEMMA TracedDamaged ==
  ASSUME NEW line, NEW gap, NEW p, NEW g, NEW s, NEW clean, Traced(line, gap, p, g, s, clean)
  PROVE  Traced(line, gap, p, g, s, FALSE)
BY DEF Traced

\* The byte x is the last of the FIFO, the holding register is empty again, and nothing
\* but the counts is changed.
Reached(x) ==
  /\ Longer(fifo', fifo, x) /\ x \in FifoByte /\ x.byte = Head(thr)
  /\ Len(fifo) < FifoSize /\ thr # << >> /\ Len(thr) <= 1
  /\ thr' = << >> /\ during' \in 0 .. Burst
  /\ IF cause = "none" THEN during' = during ELSE during' = during + 1
  /\ UNCHANGED <<out, overrun, cause, lsr, ring, rx, sent, got, cut, missed>>

LEMMA ReachedIs ==
  ASSUME Typed, Room, Reaches, Len(fifo) < FifoSize,
         NEW bad \in BOOLEAN, fifo' = Append(fifo, [byte |-> Head(thr), bad |-> bad]),
         UNCHANGED <<overrun, missed>>
  PROVE  Reached([byte |-> Head(thr), bad |-> bad])
<1>1. /\ thr \in Seq(Byte) /\ Len(thr) <= 1 /\ thr # << >> /\ fifo \in Seq(FifoByte)
      /\ during \in 0 .. Burst /\ Burst \in Nat
  BY Numbers DEF Typed, Room, Reaches
<1>2. PICK x : x = [byte |-> Head(thr), bad |-> bad]
  OBVIOUS
<1>3. x \in FifoByte /\ x.byte = Head(thr)
  BY <1>1, <1>2, OneByte DEF FifoByte
<1>4. Longer(fifo', fifo, x)
  BY <1>1, <1>2, <1>3, LongerIs
<1>5. /\ during' \in 0 .. Burst
      /\ IF cause = "none" THEN during' = during ELSE during' = during + 1
  BY <1>1 DEF Reaches
<1>6. UNCHANGED <<out, overrun, cause, lsr, ring, rx, sent, got, cut, missed>>
  BY DEF Reaches, handler
<1>7. Reached(x)
  BY <1>1, <1>3, <1>4, <1>5, <1>6 DEF Reached, Reaches
<1> QED BY <1>2, <1>7

\* A byte more in the FIFO leaves the bounds as they are.
LEMMA ReachedRoom ==
  ASSUME Typed, Room, NEW x, Reached(x), errors' \in Nat
  PROVE  Typed' /\ Room'
<1>1. /\ fifo' \in Seq(FifoByte) /\ Len(fifo') = Len(fifo) + 1 /\ Len(fifo) \in Nat
      /\ Len(fifo) < FifoSize /\ \A n \in 1 .. Len(fifo) : fifo'[n] = fifo[n]
  BY DEF Reached, Longer
<1>2. /\ thr' = << >> /\ during' \in 0 .. Burst
      /\ IF cause = "none" THEN during' = during ELSE during' = during + 1
      /\ UNCHANGED <<out, overrun, cause, lsr, ring, rx, sent, got, cut, missed>>
  BY DEF Reached
<1>3. << >> \in Seq(Byte) /\ Len(<< >>) = 0
  OBVIOUS
<1>4. Typed'
  BY <1>1, <1>2, <1>3 DEF Typed
<1>5. fifo' # << >>
  BY <1>1
<1>6. Idle'
  BY <1>1, <1>2, Numbers DEF Room, Idle, Typed
<1>7. Discarding'
  <2>1. fifo # << >> => Head(fifo') = Head(fifo)
    <3> SUFFICES ASSUME fifo # << >> PROVE Head(fifo') = Head(fifo)
      OBVIOUS
    <3>1. fifo \in Seq(FifoByte)
      BY DEF Typed
    <3>2. 1 \in 1 .. Len(fifo)
      BY <1>1, <3>1
    <3> QED BY <1>1, <1>5, <3>1, <3>2
  <2> QED BY <1>2, <1>5, <2>1 DEF Room, Discarding, LineStatus
<1>8. Filling'
  <2>1. Held(ring) \in Nat /\ during \in Nat /\ Burst \in Nat /\ FifoSize \in Nat
    BY HeldBounds, Numbers DEF Typed
  <2> QED BY <1>1, <1>2, <2>1 DEF Room, Filling
<1>9. Len(fifo') <= FifoSize /\ Len(thr') <= 1
  BY <1>1, <1>2, <1>3, Numbers
<1> QED BY <1>4, <1>5, <1>6, <1>7, <1>8, <1>9 DEF Room

\* The line stays the same, but if what the receiver has is lost begins a byte later.
LEMMA ReachedInPlace ==
  ASSUME Typed, Undamaged, InPlace, NEW x, Reached(x), errors = 0 => errors' = 0 \/ errors' = 1,
         errors # 0 => errors' # 0
  PROVE  InPlace'
<1>1. /\ ring \in RingType /\ fifo \in Seq(FifoByte) /\ thr \in Seq(Byte) /\ out \in Seq(Byte)
      /\ thr # << >> /\ Len(thr) <= 1 /\ x \in FifoByte /\ x.byte = Head(thr)
      /\ Longer(fifo', fifo, x) /\ fifo' \in Seq(FifoByte)
  BY DEF Typed, Reached, Longer
<1>2. thr' = << >> /\ UNCHANGED <<out, overrun, cause, lsr, ring, rx, sent, got, cut, missed>>
  BY DEF Reached
<1>3. Lost' = Lost /\ Gap' = Gap
  BY <1>2 DEF Lost, Gap
<1> SUFFICES ASSUME ~cut, missed = {}
             PROVE  Traced(Line(ring, fifo', Lost, << >>, out), Gap, rx, got, sent, errors' = 0)
  BY <1>2, <1>3 DEF InPlace
<1>4. Traced(Line(ring, fifo, Lost, thr, out), Gap, rx, got, sent, errors = 0)
  BY DEF InPlace
<1>5. CASE Lost
  <2>1. PICK clean : clean = (errors = 0)
    OBVIOUS
  <2>2. Traced(Line(ring, fifo, TRUE, thr, out), TRUE, rx, got, sent, clean)
    BY <1>4, <1>5, <2>1 DEF Gap
  <2>3. PICK z : Without(Line(ring, fifo', TRUE, << >>, out), Line(ring, fifo, TRUE, thr, out), z)
    BY <1>1, NextIsLost
  <2>4. Traced(Line(ring, fifo', TRUE, << >>, out), TRUE, rx, got, sent, FALSE)
    BY <2>2, <2>3, TracedLoses
  <2>5. (errors' = 0) = FALSE
    BY <1>5 DEF Undamaged, Lost
  <2> QED BY <1>5, <2>4, <2>5 DEF Gap
<1>6. CASE ~Lost
  <2>1. Line(ring, fifo', FALSE, << >>, out) = Line(ring, fifo, FALSE, thr, out)
    <3>1. PICK f : f = fifo' /\ Longer(f, fifo, x)
      BY <1>1
    <3>2. Line(ring, f, FALSE, << >>, out) = Line(ring, fifo, FALSE, thr, out)
      BY <1>1, <3>1, ArrivesInPlace, Zenon
    <3> QED BY <3>1, <3>2
  <2>2. PICK gap, clean : gap = Gap /\ clean = (errors = 0)
    OBVIOUS
  <2>3. Traced(Line(ring, fifo', FALSE, << >>, out), gap, rx, got, sent, clean)
    <3>1. Lost = FALSE
      BY <1>6
    <3> QED BY <1>4, <2>1, <2>2, <3>1, Zenon
  <2>4. Traced(Line(ring, fifo', FALSE, << >>, out), gap, rx, got, sent, FALSE)
    BY <2>3, TracedDamaged
  <2>5. (errors' = 0) = FALSE \/ (errors' = 0) = clean
    BY <2>2
  <2>6. Lost = FALSE
    BY <1>6
  <2> QED BY <2>2, <2>3, <2>4, <2>5, <2>6, Zenon
<1> QED BY <1>5, <1>6

\* The byte moves on.
LEMMA ArriveInPlace == LinkInv /\ Arrive => LinkInv'
<1> SUFFICES ASSUME LinkInv, Arrive PROVE LinkInv'
  OBVIOUS
<1>1. Typed /\ Room /\ Undamaged /\ InPlace /\ errors \in Nat
  BY DEF LinkInv, Typed
<1>2. /\ Reaches /\ Len(fifo) < FifoSize /\ UNCHANGED <<overrun, errors, missed>>
      /\ fifo' = Append(fifo, [byte |-> Head(thr), bad |-> FALSE])
  BY DEF Arrive
<1>3. PICK x : x = [byte |-> Head(thr), bad |-> FALSE]
  OBVIOUS
<1>4. Reached(x) /\ x.bad = FALSE
  BY <1>1, <1>2, <1>3, ReachedIs
<1>5. Typed' /\ Room'
  BY <1>1, <1>2, <1>4, ReachedRoom
<1>6. Undamaged'
  <2>1. /\ \A n \in 1 .. Len(fifo') : n \in 1 .. Len(fifo) \/ n = Len(fifo) + 1
        /\ \A n \in 1 .. Len(fifo) : fifo'[n] = fifo[n]
        /\ fifo'[Len(fifo) + 1] = x
    BY <1>4 DEF Reached, Longer
  <2> QED BY <1>1, <1>2, <1>4, <2>1 DEF Undamaged, Reached
<1>7. InPlace'
  BY <1>1, <1>2, <1>4, ReachedInPlace
<1> QED BY <1>5, <1>6, <1>7 DEF LinkInv

\* As before, but for the mark that will make the parser start again.
LEMMA ArriveBadInPlace == LinkInv /\ ArriveBad => LinkInv'
<1> SUFFICES ASSUME LinkInv, ArriveBad PROVE LinkInv'
  OBVIOUS
<1>1. Typed /\ Room /\ Undamaged /\ InPlace /\ errors \in Nat
  BY DEF LinkInv, Typed
<1>2. /\ Reaches /\ Len(fifo) < FifoSize /\ errors' = errors + 1
      /\ UNCHANGED <<overrun, missed>>
      /\ fifo' = Append(fifo, [byte |-> Head(thr), bad |-> TRUE])
  BY DEF ArriveBad
<1>3. PICK x : x = [byte |-> Head(thr), bad |-> TRUE]
  OBVIOUS
<1>4. Reached(x)
  BY <1>1, <1>2, <1>3, ReachedIs
<1>5. errors' \in Nat /\ errors' # 0
  BY <1>1, <1>2
<1>6. Typed' /\ Room' /\ Undamaged'
  BY <1>1, <1>4, <1>5, ReachedRoom DEF Undamaged
<1>7. InPlace'
  BY <1>1, <1>2, <1>4, <1>5, ReachedInPlace
<1> QED BY <1>6, <1>7 DEF LinkInv

\* What the receiver has is counted as lost, with the byte that finds no room; if its
\* interrupt has read its cause before, the error is missed.
LEMMA OverrunInPlace == LinkInv /\ Overrun => LinkInv'
<1> SUFFICES ASSUME LinkInv, Overrun PROVE LinkInv'
  OBVIOUS
<1>1. Typed /\ Room /\ Undamaged /\ InPlace
  BY DEF LinkInv
<1>2. /\ thr # << >> /\ Len(fifo) = FifoSize /\ thr' = << >> /\ errors' = errors + 1
      /\ overrun' = TRUE
      /\ missed' = IF cause = "RDA" THEN missed \cup {"late"} ELSE missed
      /\ cause = "none" \/ during < Burst
      /\ during' = IF cause = "none" THEN during ELSE during + 1
      /\ UNCHANGED <<out, fifo, cause, lsr, ring, rx, sent, got, cut>>
  BY DEF Overrun, Reaches, handler
<1>3. << >> \in Seq(Byte) /\ Len(<< >>) = 0
  OBVIOUS
<1>4. errors' \in Nat /\ (errors' = 0) = FALSE
  BY <1>1, <1>2 DEF Typed
<1>5. during' \in 0 .. Burst /\ during' >= during
  BY <1>1, <1>2, Numbers DEF Typed
<1>6. Typed' /\ Undamaged'
  BY <1>1, <1>2, <1>3, <1>4, <1>5 DEF Typed, Undamaged
<1>7. Room'
  <2>1. Idle' /\ Discarding'
    BY <1>1, <1>2 DEF Room, Idle, Discarding, LineStatus
  <2>2. Filling'
    <3>1. /\ Held(ring) \in Nat /\ during \in Nat /\ during' \in Nat /\ Len(fifo) \in Nat
          /\ Burst \in Nat /\ FifoSize \in Nat
      BY <1>1, <1>5, HeldBounds, Numbers DEF Typed
    <3> QED BY <1>1, <1>2, <1>5, <3>1 DEF Room, Filling
  <2> QED BY <1>1, <1>2, <1>3, <2>1, <2>2, Numbers DEF Room
<1>8. InPlace'
  <2> SUFFICES ASSUME ~cut, missed' = {}
               PROVE  /\ cause # "RDA"
                      /\ Traced(Line(ring, fifo, TRUE, << >>, out), TRUE, rx, got, sent, FALSE)
    BY <1>2, <1>4 DEF InPlace, Lost, Gap
  <2>1. cause # "RDA" /\ missed = {}
    BY <1>2
  <2>2. PICK lost, gap, clean : lost = Lost /\ gap = Gap /\ clean = (errors = 0)
    OBVIOUS
  <2>3. Traced(Line(ring, fifo, lost, thr, out), gap, rx, got, sent, clean)
    BY <1>1, <2>1, <2>2 DEF InPlace
  <2>4. PICK z : Without(Line(ring, fifo, TRUE, << >>, out), Line(ring, fifo, lost, thr, out), z)
    <3>1. /\ ring \in RingType /\ fifo \in Seq(FifoByte) /\ thr \in Seq(Byte)
          /\ out \in Seq(Byte) /\ Len(thr) <= 1
      BY <1>1 DEF Typed, Room
    <3> QED BY <1>2, <3>1, NextIsLost
  <2>5. Traced(Line(ring, fifo, TRUE, << >>, out), TRUE, rx, got, sent, FALSE)
    BY <2>3, <2>4, TracedLoses
  <2> QED BY <2>1, <2>5
<1> QED BY <1>6, <1>7, <1>8 DEF LinkInv

----------------------------------------------------------------------------
(* The interrupt                                                           *)

\* An error that the LSR tells of has been counted.
LEMMA StatusIsError ==
  ASSUME Typed, Undamaged, LineStatus
  PROVE  errors # 0
<1>1. CASE overrun
  BY <1>1 DEF Undamaged
<1>2. CASE fifo # << >> /\ Head(fifo).bad
  <2>1. fifo \in Seq(FifoByte) /\ 1 \in 1 .. Len(fifo) /\ Head(fifo) = fifo[1]
    BY <1>2 DEF Typed
  <2> QED BY <1>2, <2>1 DEF Undamaged
<1> QED BY <1>1, <1>2 DEF LineStatus

\* uart_send_byte's look: from here on the error counts as missed.
LEMMA LookToSendInPlace == LinkInv /\ LookToSend => LinkInv'
<1> SUFFICES ASSUME LinkInv, LookToSend PROVE LinkInv'
  OBVIOUS
<1>1. Typed /\ Room /\ Undamaged
  BY DEF LinkInv
<1>2. /\ cause = "none" /\ LineStatus /\ overrun' = FALSE /\ missed' # {}
      /\ UNCHANGED <<out, thr, sent, cut, cause, lsr, during, ring, rx, got, errors>>
  BY DEF LookToSend, sender, handler
<1>3. fifo' \in Seq(FifoByte) /\ Len(fifo') = Len(fifo) /\ (fifo # << >> => fifo' # << >>)
  <2>1. fifo \in Seq(FifoByte) /\ Len(fifo) \in Nat
    BY <1>1 DEF Typed
  <2>2. CASE fifo' = fifo
    BY <2>1, <2>2
  <2>3. CASE fifo' # fifo
    <3>1. PICK b \in Byte : fifo' = [fifo EXCEPT ![1] = [byte |-> b, bad |-> FALSE]]
      BY <2>3 DEF LookToSend
    <3>2. [byte |-> b, bad |-> FALSE] \in FifoByte
      BY DEF FifoByte
    <3>3. PICK x \in FifoByte : fifo' = [fifo EXCEPT ![1] = x]
      BY <3>1, <3>2
    <3>4. fifo' \in Seq(FifoByte) /\ Len(fifo') = Len(fifo)
      <4>1. PICK f : f = [fifo EXCEPT ![1] = x]
        OBVIOUS
      <4>2. PICK n \in Nat : fifo \in [1 .. n -> FifoByte]
        BY <2>1
      <4>3. f \in [1 .. n -> FifoByte]
        BY <4>1, <4>2
      <4>4. Len(fifo) = n /\ Len(f) = n
        BY <4>2, <4>3
      <4>5. f \in Seq(FifoByte) /\ Len(f) = Len(fifo)
        BY <4>3, <4>4
      <4> QED BY <3>3, <4>1, <4>5
    <3>5. fifo # << >> => fifo' # << >>
      BY <2>1, <3>4
    <3> QED BY <3>4, <3>5
  <2> QED BY <2>2, <2>3
<1>4. errors # 0
  BY <1>1, <1>2, StatusIsError
<1>5. Typed'
  BY <1>1, <1>2, <1>3 DEF Typed
<1>6. Room'
  BY <1>1, <1>2, <1>3 DEF Room, Idle, Discarding, Filling
<1>7. Undamaged' /\ InPlace'
  BY <1>2, <1>4 DEF Undamaged, InPlace
<1> QED BY <1>5, <1>6, <1>7 DEF LinkInv

\* The IIR: what the receiver has is lost if the line is in error, and will be kept if not.
LEMMA ReadIirInPlace == LinkInv /\ ReadIir => LinkInv'
<1> SUFFICES ASSUME LinkInv, ReadIir PROVE LinkInv'
  OBVIOUS
<1>1. Typed /\ Room /\ Undamaged /\ InPlace
  BY DEF LinkInv
<1>2. /\ cause = "none" /\ (overrun \/ fifo # << >>)
      /\ cause' = IF LineStatus THEN "RLS" ELSE "RDA"
      /\ UNCHANGED <<out, thr, sent, cut, fifo, overrun, lsr, during, ring, rx, got, errors, missed>>
  BY DEF ReadIir, sender
<1>3. /\ ring \in RingType /\ fifo \in Seq(FifoByte) /\ thr \in Seq(Byte) /\ out \in Seq(Byte)
      /\ Held(ring) \in Nat /\ Len(fifo) \in Nat /\ overrun \in BOOLEAN
  BY <1>1, HeldBounds DEF Typed
<1>4. /\ lsr = "unread" /\ during = 0 /\ ~ring.overflowed /\ Held(ring) < FifoSize + Burst
      /\ overrun => Len(fifo) = FifoSize
      /\ Len(fifo) <= FifoSize
  BY <1>1, <1>2 DEF Room, Idle
<1>5. fifo # << >>
  BY <1>2, <1>3, <1>4, Numbers
<1>6. Typed'
  BY <1>1, <1>2 DEF Typed
<1>7. CASE LineStatus
  <2>1. cause' = "RLS" /\ errors # 0
    BY <1>1, <1>2, <1>7, StatusIsError
  <2>2. Room' /\ Undamaged'
    BY <1>1, <1>2, <1>4, <1>5, <1>7, <2>1
       DEF Room, Idle, Discarding, Filling, LineStatus, Undamaged
  <2>3. ASSUME ~cut, missed = {}
        PROVE  Traced(Line(ring, fifo, TRUE, thr, out), TRUE, rx, got, sent, FALSE)
    <3>1. PICK lost, gap, clean : lost = Lost /\ gap = Gap /\ clean = (errors = 0)
      OBVIOUS
    <3>2. Traced(Line(ring, fifo, lost, thr, out), gap, rx, got, sent, clean)
      BY <1>1, <2>3, <3>1 DEF InPlace
    <3>3. Base(ring, fifo, lost) \in Nat /\ Base(ring, fifo, TRUE) = 0
      BY <1>3 DEF Base
    <3>4. PICK z : z = Base(ring, fifo, lost)
      OBVIOUS
    <3>5. Remains(ring, fifo, TRUE, ring, fifo, lost, z)
      <4>1. z \in 0 .. z /\ 0 = z - z /\ 1 .. 0 = {}
        BY <3>3, <3>4
      <4> QED BY <3>3, <3>4, <4>1, Zenon DEF Remains
    <3>6. Without(Line(ring, fifo, TRUE, thr, out), Line(ring, fifo, lost, thr, out), z)
      BY <1>3, <3>5, LineShifts
    <3> QED BY <3>2, <3>6, TracedLoses
  <2>4. InPlace'
    <3>1. Lost' /\ Gap' /\ (errors' = 0) = FALSE
      BY <1>2, <2>1 DEF Lost, Gap
    <3> QED BY <1>2, <2>1, <2>3, <3>1 DEF InPlace
  <2> QED BY <1>6, <2>2, <2>4 DEF LinkInv
<1>8. CASE ~LineStatus
  <2>1. cause' = "RDA" /\ ~overrun
    BY <1>2, <1>8 DEF LineStatus
  <2>2. Filling'
    BY <1>2, <1>3, <1>4, <2>1, Numbers DEF Filling
  <2>3. Room' /\ Undamaged'
    BY <1>1, <1>2, <1>4, <2>1, <2>2 DEF Room, Idle, Discarding, Undamaged
  <2>4. Lost' = Lost /\ Gap' = Gap
    BY <1>2, <2>1 DEF Lost, Gap
  <2>5. InPlace'
    BY <1>1, <1>2, <2>1, <2>4 DEF InPlace
  <2> QED BY <1>6, <2>3, <2>5 DEF LinkInv
<1> QED BY <1>7, <1>8

\* The LSR: the ring is discarded only on the interrupt whose bytes are lost anyway.
LEMMA ReadLsrInPlace == LinkInv /\ ReadLsr => LinkInv'
<1> SUFFICES ASSUME LinkInv, ReadLsr PROVE LinkInv'
  OBVIOUS
<1>1. Typed /\ Room /\ Undamaged /\ InPlace
  BY DEF LinkInv
<1>2. /\ cause # "none" /\ lsr = "unread" /\ fifo # << >>
      /\ lsr' = IF LineStatus THEN "error" ELSE "data"
      /\ overrun' = FALSE
      /\ ring' = IF cause = "RLS" /\ LineStatus THEN Spoilt(ring) ELSE ring
      /\ UNCHANGED <<out, thr, sent, cut, fifo, cause, during, rx, got, errors, missed>>
  BY DEF ReadLsr, sender
<1>3. /\ ring \in RingType /\ fifo \in Seq(FifoByte) /\ thr \in Seq(Byte) /\ out \in Seq(Byte)
      /\ cause = "RLS" \/ cause = "RDA"
  BY <1>1, <1>2 DEF Typed
<1>4. Spoilt(ring) \in RingType /\ Spoilt(ring).overflowed /\ Held(Spoilt(ring)) = 0
  BY <1>3, SpoiltIsEmpty
<1>5. ring' \in RingType
  BY <1>2, <1>3, <1>4
<1>6. Typed'
  BY <1>1, <1>2, <1>5 DEF Typed
<1>7. LineStatus => errors # 0
  BY <1>1, StatusIsError
<1>8. Undamaged'
  <2>1. lsr' = "error" \/ ring' # ring => errors # 0
    BY <1>2, <1>7
  <2> QED BY <1>1, <1>2, <2>1 DEF Undamaged
<1>9. CASE cause = "RLS"
  <2>1. ring'.overflowed /\ Held(ring') = 0
    BY <1>1, <1>2, <1>4, <1>9 DEF Room, Discarding
  <2>2. Room'
    BY <1>1, <1>2, <1>9, <2>1 DEF Room, Idle, Discarding, Filling
  <2>3. Line(ring', fifo, TRUE, thr, out) = Line(ring, fifo, TRUE, thr, out)
    <3>1. thr \in Seq(Byte) /\ out \in Seq(Byte)
      BY <1>3
    <3> QED BY <3>1, LostStays, Zenon
  <2>4. Lost' /\ Gap' /\ Lost /\ Gap
    BY <1>2, <1>9 DEF Lost, Gap
  <2>5. InPlace'
    BY <1>1, <1>2, <1>9, <2>3, <2>4 DEF InPlace
  <2> QED BY <1>6, <1>8, <2>2, <2>5 DEF LinkInv
<1>10. CASE cause = "RDA"
  <2>1. ring' = ring
    BY <1>2, <1>10
  <2>2. Room'
    BY <1>1, <1>2, <1>10, <2>1 DEF Room, Idle, Discarding, Filling
  <2>3. ASSUME ~cut, missed = {} PROVE Lost' = Lost /\ Gap' = Gap
    BY <1>1, <1>2, <1>10, <2>1, <2>3 DEF InPlace, Lost, Gap
  <2>4. InPlace'
    BY <1>1, <1>2, <2>1, <2>3 DEF InPlace
  <2> QED BY <1>6, <1>8, <2>2, <2>4 DEF LinkInv
<1> QED BY <1>3, <1>9, <1>10

\* The first byte of the FIFO is gone.
LEMMA Shorter ==
  ASSUME NEW f \in Seq(FifoByte), f # << >>
  PROVE  /\ Tail(f) \in Seq(FifoByte) /\ Len(Tail(f)) = Len(f) - 1 /\ Len(f) \in Nat \ {0}
         /\ \A n \in 1 .. Len(Tail(f)) : Tail(f)[n] = f[n + 1] /\ n + 1 \in 1 .. Len(f)
         /\ Head(f) = f[1] /\ f[1] \in FifoByte /\ 1 \in 1 .. Len(f)
OBVIOUS

\* A byte that goes from the FIFO into the ring keeps its place in the line.
LEMMA PushedStays ==
  ASSUME NEW r \in RingType, NEW f \in Seq(FifoByte), f # << >>, Held(r) < RingSize - 1,
         NEW e, e = Push(r, Head(f).byte), NEW g, g = Tail(f)
  PROVE  Remains(e, g, FALSE, r, f, FALSE, 0)
<1>1. /\ g \in Seq(FifoByte) /\ Len(g) = Len(f) - 1 /\ Len(f) \in Nat \ {0}
      /\ \A n \in 1 .. Len(g) : g[n] = f[n + 1]
      /\ Head(f) = f[1] /\ f[1] \in FifoByte
  BY Shorter
<1>2. f[1].byte \in Byte /\ Held(r) \in Nat
  BY <1>1, HeldBounds DEF FifoByte
<1>3. /\ e \in RingType /\ Held(e) = Held(r) + 1
      /\ \A j \in 1 .. Held(r) : Queued(e)[j] = Queued(r)[j]
      /\ Queued(e)[Held(r) + 1] = f[1].byte
  BY <1>1, <1>2, PushFits
<1>3a. PICK a, b : a = Base(r, f, FALSE) /\ b = Base(e, g, FALSE)
  OBVIOUS
<1>4. a = Held(r) + Len(f) /\ b = Held(e) + Len(g)
  BY <1>3a DEF Base
<1>5. ASSUME NEW j \in 1 .. b PROVE Item(e, g, j) = Item(r, f, 0 + j)
  <2>1. j \in Nat /\ 0 + j = j /\ j \in 1 .. Held(r) + Len(f)
    BY <1>1, <1>2, <1>3, <1>4
  <2>2. CASE j <= Held(r)
    BY <1>2, <1>3, <2>1, <2>2 DEF Item
  <2>3. CASE j = Held(r) + 1
    <3>1. Item(r, f, j) = f[1].byte
      BY <1>2, <2>1, <2>3 DEF Item
    <3>2. Item(e, g, j) = Queued(e)[Held(r) + 1]
      BY <1>2, <1>3, <2>1, <2>3 DEF Item
    <3> QED BY <1>3, <2>1, <3>1, <3>2
  <2>4. CASE j > Held(r) + 1
    <3>1. PICK n : n = j - Held(e)
      OBVIOUS
    <3>2. n \in 1 .. Len(g) /\ n + 1 = j - Held(r)
      <4>1. PICK h, i, m : h = Held(r) /\ i = Held(e) /\ m = Len(f)
        OBVIOUS
      <4>2. h \in Nat /\ i = h + 1 /\ m \in Nat /\ j \in 1 .. h + m /\ j > h + 1 /\ n = j - i
        BY <1>1, <1>2, <1>3, <2>1, <2>4, <3>1, <4>1
      <4>3. n \in 1 .. m - 1 /\ n + 1 = j - h
        BY <4>2
      <4> QED BY <1>1, <4>1, <4>3
    <3>3. Item(e, g, j) = g[n].byte /\ Item(r, f, j) = f[n + 1].byte
      BY <1>2, <1>3, <2>1, <2>4, <3>1, <3>2 DEF Item
    <3> QED BY <1>1, <2>1, <3>2, <3>3
  <2> QED BY <1>2, <2>1, <2>2, <2>3, <2>4
<1>6. 0 \in 0 .. a /\ b = a - 0
  BY <1>1, <1>2, <1>3, <1>4
<1> QED BY <1>3a, <1>5, <1>6, Zenon DEF Remains

\* A byte in error takes the ring with it, and the FIFO is what remains.
LEMMA SpoiltRemains ==
  ASSUME NEW r \in RingType, NEW f \in Seq(FifoByte), f # << >>,
         NEW e, e = Spoilt(r), NEW g, g = Tail(f), NEW z, z = Held(r) + 1
  PROVE  Remains(e, g, FALSE, r, f, FALSE, z)
<1>1. /\ g \in Seq(FifoByte) /\ Len(g) = Len(f) - 1 /\ Len(f) \in Nat \ {0}
      /\ \A n \in 1 .. Len(g) : g[n] = f[n + 1]
  BY Shorter
<1>2. Held(e) = 0 /\ Held(r) \in Nat
  BY SpoiltIsEmpty, HeldBounds
<1>2a. PICK a, b : a = Base(r, f, FALSE) /\ b = Base(e, g, FALSE)
  OBVIOUS
<1>3. a = Held(r) + Len(f) /\ b = Len(g)
  BY <1>1, <1>2, <1>2a DEF Base
<1>4. ASSUME NEW j \in 1 .. b PROVE Item(e, g, j) = Item(r, f, z + j)
  <2>1. j \in 1 .. Len(g)
    BY <1>3
  <2>2. Item(e, g, j) = g[j].byte
    BY <1>2, <2>1 DEF Item
  <2>3. Item(r, f, z + j) = f[j + 1].byte
    <3>1. ~(z + j <= Held(r)) /\ (z + j) - Held(r) = j + 1
      <4>1. PICK h : h = Held(r)
        OBVIOUS
      <4>2. j \in Nat /\ h \in Nat /\ z = h + 1
        BY <1>2, <2>1, <4>1
      <4>3. ~(z + j <= h) /\ (z + j) - h = j + 1
        BY <4>2
      <4> QED BY <4>1, <4>3
    <3> QED BY <3>1 DEF Item
  <2> QED BY <1>1, <2>1, <2>2, <2>3
<1>5. z \in 0 .. a /\ b = a - z
  BY <1>1, <1>2, <1>3
<1> QED BY <1>2a, <1>4, <1>5, Zenon DEF Remains

\* The RBR.
LEMMA ReadRbrInPlace == LinkInv /\ ReadRbr => LinkInv'
<1> SUFFICES ASSUME LinkInv, ReadRbr PROVE LinkInv'
  OBVIOUS
<1>1. Typed /\ Room /\ Undamaged /\ InPlace
  BY DEF LinkInv
<1>2. /\ lsr # "unread" /\ fifo' = Tail(fifo) /\ lsr' = "unread"
      /\ ring' = Take(ring, Head(fifo).byte)
      /\ UNCHANGED <<out, thr, sent, cut, overrun, cause, during, rx, got, errors, missed>>
  BY DEF ReadRbr, sender
<1>3. /\ ring \in RingType /\ fifo \in Seq(FifoByte) /\ thr \in Seq(Byte) /\ out \in Seq(Byte)
      /\ cause \in {"none", "RLS", "RDA"} /\ lsr \in {"data", "error"}
      /\ Held(ring) \in Nat /\ during \in 0 .. Burst
  BY <1>1, <1>2, HeldBounds DEF Typed
<1>4. cause # "none" /\ fifo # << >> /\ Len(fifo) <= FifoSize
  BY <1>1, <1>2 DEF Room, Idle
<1>5. /\ fifo' \in Seq(FifoByte) /\ Len(fifo') = Len(fifo) - 1 /\ Len(fifo) \in Nat \ {0}
      /\ \A n \in 1 .. Len(fifo') : fifo'[n] = fifo[n + 1] /\ n + 1 \in 1 .. Len(fifo)
      /\ Head(fifo).byte \in Byte
  <2>1. PICK f : f = fifo'
    OBVIOUS
  <2>2. /\ f \in Seq(FifoByte) /\ Len(f) = Len(fifo) - 1 /\ Len(fifo) \in Nat \ {0}
        /\ \A n \in 1 .. Len(f) : f[n] = fifo[n + 1] /\ n + 1 \in 1 .. Len(fifo)
        /\ Head(fifo) \in FifoByte
    BY <1>2, <1>3, <1>4, <2>1, Shorter
  <2> QED BY <2>1, <2>2 DEF FifoByte
<1>6. ASSUME ring' \in RingType PROVE Typed'
  BY <1>1, <1>2, <1>5, <1>6 DEF Typed
<1>7. Len(fifo') <= FifoSize
  BY <1>4, <1>5, Numbers
<1>8. ASSUME errors # 0 \/ ring'.overflowed = ring.overflowed PROVE Undamaged'
  BY <1>1, <1>2, <1>5, <1>8 DEF Undamaged
<1>9. CASE cause = "RLS"
  <2>1. ring' = ring
    BY <1>2, <1>9 DEF Take
  <2>2. ring.overflowed /\ Held(ring) = 0
    BY <1>1, <1>2, <1>9 DEF Room, Discarding
  <2>3. Room'
    BY <1>1, <1>2, <1>7, <1>9, <2>1, <2>2 DEF Room, Idle, Discarding, Filling
  <2>4. Line(ring, fifo', TRUE, thr, out) = Line(ring, fifo, TRUE, thr, out)
    <3>1. thr \in Seq(Byte) /\ out \in Seq(Byte)
      BY <1>3
    <3> QED BY <3>1, LostStays, Zenon
  <2>5. Lost' /\ Gap' /\ Lost /\ Gap
    BY <1>2, <1>9 DEF Lost, Gap
  <2>6. InPlace'
    BY <1>1, <1>2, <2>1, <2>4, <2>5 DEF InPlace
  <2> QED BY <1>3, <1>6, <1>8, <2>1, <2>3, <2>6 DEF LinkInv
<1>10. CASE cause = "RDA" /\ lsr = "error"
  <2>1. ring' = Spoilt(ring)
    BY <1>2, <1>10 DEF Take
  <2>2. ring' \in RingType /\ ring'.overflowed /\ Held(ring') = 0
    BY <1>3, <2>1, SpoiltIsEmpty
  <2>3. errors # 0
    BY <1>1, <1>10 DEF Undamaged
  <2>4. Room'
    <3>1. Filling'
      BY <1>2, <1>3, <1>4, <1>5, <1>10, <2>2, Numbers DEF Filling
    <3> QED BY <1>1, <1>2, <1>7, <1>10, <3>1 DEF Room, Idle, Discarding
  <2>5. ASSUME ~cut, missed = {}
        PROVE  Traced(Line(ring', fifo', FALSE, thr, out), TRUE, rx, got, sent, FALSE) /\ ~overrun
    <3>1. ~overrun /\ ~Lost
      BY <1>1, <1>10, <2>5 DEF InPlace, Lost
    <3>2. PICK gap, clean : gap = Gap /\ clean = (errors = 0)
      OBVIOUS
    <3>3. Traced(Line(ring, fifo, FALSE, thr, out), gap, rx, got, sent, clean)
      <4>1. Lost = FALSE /\ Traced(Line(ring, fifo, Lost, thr, out), Gap, rx, got, sent, errors = 0)
        BY <1>1, <2>5, <3>1 DEF InPlace
      <4> QED BY <3>2, <4>1, Zenon
    <3>4. PICK e, g, z : e = ring' /\ g = fifo' /\ z = Held(ring) + 1
      OBVIOUS
    <3>5. Remains(e, g, FALSE, ring, fifo, FALSE, z)
      BY <1>2, <1>3, <1>4, <2>1, <3>4, SpoiltRemains
    <3>6. Without(Line(e, g, FALSE, thr, out), Line(ring, fifo, FALSE, thr, out), z)
      BY <1>3, <1>5, <2>2, <3>4, <3>5, LineShifts
    <3>7. Traced(Line(e, g, FALSE, thr, out), TRUE, rx, got, sent, FALSE)
      BY <3>3, <3>6, TracedLoses
    <3> QED BY <3>1, <3>4, <3>7
  <2>6. InPlace'
    <3>1. Gap' /\ (errors' = 0) = FALSE
      BY <1>2, <2>2, <2>3 DEF Gap
    <3>2. ~overrun => ~Lost'
      BY <1>2, <1>10 DEF Lost
    <3>3. cause' = "RDA" => ~overrun' \/ cut \/ missed # {}
      BY <1>2, <2>5
    <3>4. ASSUME ~cut', missed' = {}
          PROVE  Traced(Line(ring', fifo', Lost', thr', out'), Gap', rx', got', sent', errors' = 0)
      <4>1. Lost' = FALSE /\ Gap' = TRUE
        BY <1>2, <2>5, <3>1, <3>2, <3>4
      <4> QED BY <1>2, <2>5, <3>1, <3>4, <4>1, Zenon
    <3> QED BY <1>2, <3>3, <3>4 DEF InPlace
  <2> QED BY <1>6, <1>8, <2>2, <2>3, <2>4, <2>6 DEF LinkInv
<1>11. CASE cause = "RDA" /\ lsr = "data"
  <2>1. ring' = Push(ring, Head(fifo).byte)
    BY <1>2, <1>11 DEF Take
  <2>2. Held(ring) < RingSize - 1
    <3>1. Held(ring) + Len(fifo) < 2 * FifoSize + Burst + during
      BY <1>1, <1>3, <1>5, <1>11, Numbers DEF Room, Filling
    <3> QED BY <1>3, <1>5, <3>1, Numbers
  <2>3. ring' \in RingType /\ ring'.overflowed = ring.overflowed /\ Held(ring') = Held(ring) + 1
    BY <1>3, <1>5, <2>1, <2>2, PushFits
  <2>4. Room'
    <3>1. Filling'
      BY <1>1, <1>2, <1>3, <1>5, <1>11, <2>3, Numbers DEF Room, Filling
    <3> QED BY <1>1, <1>2, <1>7, <1>11, <3>1 DEF Room, Idle, Discarding
  <2>5. ASSUME ~cut, missed = {}
        PROVE  /\ Line(ring', fifo', FALSE, thr, out) = Line(ring, fifo, FALSE, thr, out)
               /\ ~overrun
    <3>1. PICK e, g : e = ring' /\ g = fifo'
      OBVIOUS
    <3>2. Remains(e, g, FALSE, ring, fifo, FALSE, 0)
      BY <1>2, <1>3, <1>4, <2>1, <2>2, <3>1, PushedStays
    <3>3. Line(e, g, FALSE, thr, out) = Line(ring, fifo, FALSE, thr, out)
      <4>1. e \in RingType /\ g \in Seq(FifoByte)
        BY <1>5, <2>3, <3>1
      <4>2. PICK no : no = FALSE
        OBVIOUS
      <4>3. Remains(e, g, no, ring, fifo, no, 0)
        BY <3>2, <4>2, Zenon
      <4>4. Line(e, g, no, thr, out) = Line(ring, fifo, no, thr, out)
        BY <1>3, <4>1, <4>3, LineStays
      <4> QED BY <4>2, <4>4, Zenon
    <3>4. ~overrun
      BY <1>1, <1>11, <2>5 DEF InPlace
    <3> QED BY <3>1, <3>3, <3>4
  <2>6. Gap' = Gap /\ Lost' = Lost /\ (~overrun => ~Lost)
    BY <1>2, <1>11, <2>3 DEF Gap, Lost
  <2>7. InPlace'
    <3>1. ASSUME ~cut', missed' = {}
          PROVE  /\ ~overrun'
                 /\ Traced(Line(ring', fifo', Lost', thr', out'), Gap', rx', got', sent', errors' = 0)
      <4>1. ~cut /\ missed = {} /\ ~overrun /\ Lost = FALSE /\ Lost' = FALSE
        BY <1>2, <2>5, <2>6, <3>1
      <4>2. Traced(Line(ring, fifo, Lost, thr, out), Gap, rx, got, sent, errors = 0)
        BY <1>1, <4>1 DEF InPlace
      <4>3. Line(ring', fifo', Lost', thr', out') = Line(ring, fifo, Lost, thr, out)
        BY <1>2, <2>5, <4>1, Zenon
      <4>4. Traced(Line(ring, fifo, Lost, thr, out), Gap', rx', got', sent', errors' = 0)
        BY <1>2, <2>6, <4>2, Zenon
      <4> QED BY <1>2, <4>1, <4>3, <4>4, Zenon
    <3> QED BY <1>2, <3>1 DEF InPlace
  <2> QED BY <1>6, <1>8, <2>3, <2>4, <2>7 DEF LinkInv
<1> QED BY <1>3, <1>4, <1>9, <1>10, <1>11

\* What Finish finds, and the part of it that does not depend on an error.
LEMMA FinishFacts ==
  ASSUME LinkInv, Finish
  PROVE  /\ Typed /\ Room /\ Undamaged /\ InPlace
         /\ cause # "none" /\ lsr = "unread" /\ fifo = << >> /\ Len(fifo) = 0
         /\ fifo \in Seq(FifoByte)
         /\ overrun' = FALSE /\ cause' = "none" /\ during' = 0
         /\ UNCHANGED <<out, thr, sent, cut, fifo, lsr, errors, missed>>
         /\ ring \in RingType /\ Held(ring) \in Nat /\ thr \in Seq(Byte) /\ out \in Seq(Byte)
         /\ rx \in ParserType /\ rx.msgs = << >>
         /\ got \in Seq(Seq(Byte)) /\ sent \in Seq(Message)
         /\ cause = "RLS" => ring.overflowed /\ Held(ring) = 0
<1>1. Typed /\ Room /\ Undamaged /\ InPlace
  BY DEF LinkInv
<1>2. /\ cause # "none" /\ lsr = "unread" /\ fifo = << >>
      /\ overrun' = FALSE /\ cause' = "none" /\ during' = 0
      /\ UNCHANGED <<out, thr, sent, cut, fifo, lsr, errors, missed>>
  BY DEF Finish, sender
<1>3. cause = "RLS" => ring.overflowed /\ Held(ring) = 0
  BY <1>1, <1>2 DEF Room, Discarding
<1>4. /\ ring \in RingType /\ Held(ring) \in Nat /\ thr \in Seq(Byte) /\ out \in Seq(Byte)
      /\ rx \in ParserType /\ rx.msgs = << >> /\ fifo \in Seq(FifoByte)
      /\ got \in Seq(Seq(Byte)) /\ sent \in Seq(Message)
  BY <1>1, HeldBounds DEF Typed
<1>5. Len(<< >>) = 0
  OBVIOUS
<1> QED BY <1>1, <1>2, <1>3, <1>4, <1>5, Zenon

\* The empty FIFO, with a ring that holds what it held before.
LEMMA NothingComes ==
  ASSUME NEW r \in RingType, NEW e \in RingType, Held(e) = Held(r), Queued(e) = Queued(r),
         NEW lost, lost => Held(r) = 0
  PROVE  Remains(e, << >>, FALSE, r, << >>, lost, 0)
<1>1. Held(r) \in Nat /\ Len(<< >>) = 0
  BY HeldBounds
<1>1a. PICK a, b : a = Base(r, << >>, lost) /\ b = Base(e, << >>, FALSE)
  OBVIOUS
<1>2. a = Held(r) /\ b = a
  BY <1>1, <1>1a DEF Base
<1>3. ASSUME NEW j \in 1 .. b PROVE Item(e, << >>, j) = Item(r, << >>, 0 + j)
  <2>1. j \in 1 .. Held(r) /\ 0 + j = j
    BY <1>1, <1>2
  <2> QED BY <2>1 DEF Item
<1>4. 0 \in 0 .. a /\ b = a - 0
  BY <1>1, <1>2
<1> QED BY <1>1a, <1>3, <1>4, Zenon DEF Remains

\* After an error: the parser starts again, the ring is left for the next interrupt
\* (handlers.c:87-90).
LEMMA AfterError ==
  ASSUME LinkInv, Finish, ring.overflowed,
         ring' = AskedOverflow(ring), rx' = RxReset(rx), got' = got
  PROVE  LinkInv'
<1>1. /\ Typed /\ Room /\ Undamaged /\ InPlace
      /\ cause # "none" /\ lsr = "unread" /\ fifo = << >> /\ Len(fifo) = 0
      /\ fifo \in Seq(FifoByte)
      /\ overrun' = FALSE /\ cause' = "none" /\ during' = 0
      /\ UNCHANGED <<out, thr, sent, cut, fifo, lsr, errors, missed>>
      /\ ring \in RingType /\ Held(ring) \in Nat /\ thr \in Seq(Byte) /\ out \in Seq(Byte)
      /\ rx \in ParserType /\ rx.msgs = << >>
      /\ cause = "RLS" => ring.overflowed /\ Held(ring) = 0
  BY FinishFacts
<1>2. /\ ring' \in RingType /\ ~ring'.overflowed /\ Held(ring') = Held(ring)
      /\ Queued(ring') = Queued(ring)
  BY <1>1, AskedKeeps
<1>3. rx' \in ParserType /\ rx'.msgs = << >> /\ rx'.type = "none"
  <2>1. << >> \in Seq(Byte)
    OBVIOUS
  <2>2. PICK q : q = RxReset(rx)
    OBVIOUS
  <2>3. q \in ParserType /\ q.msgs = << >> /\ q.type = "none"
    BY <1>1, <2>1, <2>2 DEF RxReset, ParserType
  <2> QED BY <2>2, <2>3
<1>4. errors # 0
  BY <1>1 DEF Undamaged
<1>5. Held(ring) < FifoSize + Burst
  <2>1. during \in 0 .. Burst /\ cause \in {"none", "RLS", "RDA"}
    BY <1>1 DEF Typed
  <2>2. CASE cause = "RLS"
    BY <1>1, <2>2, Numbers
  <2>3. CASE cause = "RDA"
    <3>1. Held(ring) + 0 < FifoSize + during
      BY <1>1, <2>3 DEF Room, Filling
    <3> QED BY <1>1, <2>1, <3>1, Numbers
  <2> QED BY <1>1, <2>1, <2>2, <2>3
<1>6. Typed' /\ Room' /\ Undamaged'
  <2>1. Typed'
    <3>1. during' \in 0 .. Burst
      BY <1>1, Numbers
    <3> QED BY <1>1, <1>2, <1>3, <3>1 DEF Typed
  <2>2. Room'
    BY <1>1, <1>2, <1>5, Numbers DEF Room, Idle, Discarding, Filling
  <2>3. Undamaged'
    BY <1>1, <1>4 DEF Undamaged
  <2> QED BY <2>1, <2>2, <2>3
<1>7. ASSUME ~cut, missed = {}
      PROVE  Traced(Line(ring', << >>, FALSE, thr, out), FALSE, rx', got, sent, FALSE)
  <2>1. PICK lost, gap, clean, e, q :
          lost = Lost /\ gap = Gap /\ clean = (errors = 0) /\ e = ring' /\ q = rx'
    OBVIOUS
  <2>2. Traced(Line(ring, << >>, lost, thr, out), gap, rx, got, sent, clean)
    BY <1>1, <1>7, <2>1 DEF InPlace
  <2>3. lost => Held(ring) = 0
    BY <1>1, <1>7, <2>1 DEF InPlace, Lost, Typed
  <2>4. Remains(e, << >>, FALSE, ring, << >>, lost, 0)
    BY <1>1, <1>2, <2>1, <2>3, NothingComes
  <2>5. Without(Line(e, << >>, FALSE, thr, out), Line(ring, << >>, lost, thr, out), 0)
    BY <1>1, <1>2, <2>1, <2>4, LineShifts
  <2>6. Traced(Line(e, << >>, FALSE, thr, out), FALSE, q, got, sent, FALSE)
    <3>1. FALSE \/ q.type = "none"
      BY <1>3, <2>1
    <3> QED BY <2>2, <2>5, <3>1, TracedLoses
  <2> QED BY <2>1, <2>6
<1>8. InPlace'
  <2>1. ~Lost' /\ ~Gap' /\ (errors' = 0) = FALSE
    BY <1>1, <1>2, <1>4 DEF Lost, Gap
  <2>2. ASSUME ~cut', missed' = {}
        PROVE  Traced(Line(ring', fifo', Lost', thr', out'), Gap', rx', got', sent', errors' = 0)
    <3>1. Lost' = FALSE /\ Gap' = FALSE /\ (errors' = 0) = FALSE
      BY <2>1
    <3> QED BY <1>1, <1>7, <2>2, <3>1, Zenon
  <2>3. cause' # "RDA"
    BY <1>1
  <2> QED BY <2>2, <2>3 DEF InPlace
<1> QED BY <1>6, <1>8 DEF LinkInv

\* Without one every byte of the ring goes to the parser (handlers.c:92-98).
LEMMA AfterNone ==
  ASSUME LinkInv, Finish, ~ring.overflowed,
         NEW fed, fed = Fed(rx, Queued(ring)),
         ring' = Emptied(ring), rx' = [fed EXCEPT !.msgs = << >>], got' = got \o fed.msgs
  PROVE  LinkInv'
<1>1. /\ Typed /\ Room /\ Undamaged /\ InPlace
      /\ cause # "none" /\ lsr = "unread" /\ fifo = << >> /\ Len(fifo) = 0
      /\ fifo \in Seq(FifoByte)
      /\ overrun' = FALSE /\ cause' = "none" /\ during' = 0
      /\ UNCHANGED <<out, thr, sent, cut, fifo, lsr, errors, missed>>
      /\ ring \in RingType /\ Held(ring) \in Nat /\ thr \in Seq(Byte) /\ out \in Seq(Byte)
      /\ rx \in ParserType /\ rx.msgs = << >>
      /\ got \in Seq(Seq(Byte)) /\ sent \in Seq(Message)
      /\ cause = "RLS" => ring.overflowed /\ Held(ring) = 0
  BY FinishFacts
<1>2. Queued(ring) \in Seq(Byte) /\ Len(Queued(ring)) = Held(ring)
  BY <1>1, QueuedIsSeq
<1>3. ring' \in RingType /\ ~ring'.overflowed /\ Held(ring') = 0
  BY <1>1, EmptiedIsEmpty
<1>4. fed \in ParserType
  BY <1>1, <1>2, FedTyped
<1>5. << >> \in Seq(Seq(Byte))
  OBVIOUS
<1>6. /\ rx' \in ParserType /\ rx'.msgs = << >>
      /\ rx'.type = fed.type /\ rx'.buf = fed.buf /\ fed.msgs \in Seq(Seq(Byte))
  BY <1>4, <1>5 DEF ParserType
<1>7. Typed' /\ Room' /\ Undamaged'
  <2>1. got' \in Seq(Seq(Byte))
    BY <1>1, <1>6
  <2>2. Typed'
    <3>1. during' \in 0 .. Burst
      BY <1>1, Numbers
    <3> QED BY <1>1, <1>3, <1>6, <2>1, <3>1 DEF Typed
  <2>3. Room'
    BY <1>1, <1>3, Numbers DEF Room, Idle, Discarding, Filling
  <2>4. Undamaged'
    BY <1>1, <1>3 DEF Undamaged
  <2> QED BY <2>2, <2>3, <2>4
<1>8. ASSUME ~cut, missed = {}
      PROVE  Traced(Line(ring', << >>, FALSE, thr, out), FALSE, rx', got', sent, errors = 0)
  <2>1. ~Lost /\ ~Gap
    BY <1>1, <1>8 DEF InPlace, Lost, Gap, Typed
  <2>2. PICK line, clean, e, w, bytes :
          /\ line = Line(ring, << >>, FALSE, thr, out) /\ clean = (errors = 0)
          /\ e = ring' /\ w = rx' /\ bytes = Queued(ring)
    OBVIOUS
  <2>3. Traced(line, FALSE, rx, got, sent, clean)
    <3>1. Traced(Line(ring, fifo, Lost, thr, out), Gap, rx, got, sent, errors = 0)
      BY <1>1, <1>8 DEF InPlace
    <3>2. Lost = FALSE /\ Gap = FALSE
      BY <2>1
    <3> QED BY <1>1, <2>2, <3>1, <3>2, Zenon
  <2>3a. PICK a, b : a = Base(ring, << >>, FALSE) /\ b = Base(e, << >>, FALSE)
    OBVIOUS
  <2>4. a = Held(ring) /\ b = 0
    BY <1>1, <1>3, <2>2, <2>3a DEF Base
  <2>5. Remains(e, << >>, FALSE, ring, << >>, FALSE, Held(ring))
    <3>1. Held(ring) \in 0 .. a /\ b = a - Held(ring) /\ 1 .. b = {}
      BY <1>1, <2>4
    <3> QED BY <2>3a, <3>1, Zenon DEF Remains
  <2>6. Without(Line(e, << >>, FALSE, thr, out), line, Len(bytes))
    BY <1>1, <1>2, <1>3, <2>2, <2>5, LineShifts
  <2>7. LinePlaces(line, Held(ring), ring, << >>, thr, out)
    <3>1. << >> \in Seq(FifoByte)
      BY <1>1
    <3>2. LinePlaces(line, a, ring, << >>, thr, out)
      BY <1>1, <2>2, <2>3a, <3>1, LineIs, Zenon
    <3> QED BY <2>4, <3>2
  <2>8. ASSUME NEW n \in 1 .. Len(bytes) PROVE bytes[n] = line[n]
    <3>1. n \in 1 .. Held(ring) /\ line[n] = Item(ring, << >>, n)
      BY <1>2, <2>2, <2>7 DEF LinePlaces
    <3>2. n <= Held(ring)
      BY <1>1, <3>1
    <3> QED BY <2>2, <3>1, <3>2 DEF Item
  <2>9. w.type = fed.type /\ w.buf = fed.buf /\ fed = Fed(rx, bytes) /\ bytes \in Seq(Byte)
    BY <1>2, <1>6, <2>2
  <2>10. Traced(Line(e, << >>, FALSE, thr, out), FALSE, w, got \o fed.msgs, sent, clean)
    BY <1>1, <2>3, <2>6, <2>8, <2>9, TracedReads
  <2> QED BY <2>2, <2>10
<1>9. InPlace'
  <2>1. ~Lost' /\ ~Gap'
    BY <1>1, <1>3 DEF Lost, Gap
  <2>2. ASSUME ~cut', missed' = {}
        PROVE  Traced(Line(ring', fifo', Lost', thr', out'), Gap', rx', got', sent', errors' = 0)
    <3>1. Lost' = FALSE /\ Gap' = FALSE /\ errors' = errors
      BY <1>1, <2>1
    <3> QED BY <1>1, <1>8, <2>2, <3>1, Zenon
  <2>3. cause' # "RDA"
    BY <1>1
  <2> QED BY <2>2, <2>3 DEF InPlace
<1> QED BY <1>7, <1>9 DEF LinkInv

\* The end of handle_serial, one way or the other.
LEMMA FinishInPlace == LinkInv /\ Finish => LinkInv'
<1> SUFFICES ASSUME LinkInv, Finish PROVE LinkInv'
  OBVIOUS
<1>1. PICK fed :
        /\ fed = Fed(rx, Queued(ring))
        /\ IF ring.overflowed
           THEN ring' = AskedOverflow(ring) /\ rx' = RxReset(rx) /\ got' = got
           ELSE ring' = Emptied(ring) /\ rx' = [fed EXCEPT !.msgs = << >>] /\ got' = got \o fed.msgs
  BY DEF Finish
<1>2. CASE ring.overflowed
  BY <1>1, <1>2, AfterError
<1>3. CASE ~ring.overflowed
  BY <1>1, <1>3, AfterNone
<1> QED BY <1>2, <1>3

----------------------------------------------------------------------------
(* The theorems                                                            *)

\* Every step of the line keeps the invariant.
LEMMA LinkSteps == LinkInv /\ [Next]_vars => LinkInv'
<1> SUFFICES ASSUME LinkInv, [Next]_vars PROVE LinkInv'
  OBVIOUS
<1>1. CASE UNCHANGED vars
  <2>1. Lost' = Lost /\ Gap' = Gap
    BY <1>1 DEF vars, Lost, Gap
  <2> QED BY <1>1, <2>1 DEF LinkInv, Typed, Room, Idle, Discarding, Filling, LineStatus,
            Undamaged, InPlace, vars
<1>2. CASE Next
  BY <1>2, StartMessageInPlace, PutByteInPlace, GiveUpInPlace, ArriveInPlace,
     ArriveBadInPlace, OverrunInPlace, LookToSendInPlace, ReadIirInPlace, ReadLsrInPlace,
     ReadRbrInPlace, FinishInPlace DEF Next
<1> QED BY <1>1, <1>2

\* As long as no error is missed and no message given up, every byte on the way has its
\* place in what was sent, none is missing between two of them (uart.c:114-163), and the
\* parser stands where the line begins or starts again before it is fed.
THEOREM LinkInvariance == Spec => []LinkInv
<1>1. Init => LinkInv
  BY LinkStarts
<1>2. LinkInv /\ [Next]_vars => LinkInv'
  BY LinkSteps
<1> QED BY <1>1, <1>2, PTL DEF Spec

\* The parser stays within its buffer and the ring's indices within their range,
\* whatever the bytes are and whatever goes wrong (protocol.c:46-47, uart.c:20-36).
THEOREM LinkTypeCorrect == Spec => []TypeOK
<1>1. LinkInv => TypeOK
  <2> SUFFICES ASSUME LinkInv PROVE TypeOK
    OBVIOUS
  <2>1. /\ ring \in RingType /\ rx \in ParserType /\ Len(fifo) <= FifoSize
        /\ during \in 0 .. Burst
        /\ cause \in {"none", "RLS", "RDA"} /\ lsr \in {"unread", "data", "error"}
    BY DEF LinkInv, Typed, Room
  <2>2. /\ rx.type \in Types \cup {"none"}
        /\ rx.type = "none" => rx.buf = << >>
        /\ rx.type # "none" => Len(rx.buf) < PayloadLen[rx.type]
        /\ Len(rx.buf) \in Nat
    BY <2>1 DEF ParserType
  <2>3. Len(rx.buf) < MaxPayload
    <3>1. CASE rx.type = "none"
      BY <2>2, <3>1 DEF MaxPayload
    <3>2. CASE rx.type # "none"
      <4>1. PayloadLen[rx.type] \in 0 .. MaxPayload /\ MaxPayload \in Nat
        BY <2>2, <3>2, Payloads DEF MaxPayload
      <4> QED BY <2>2, <3>2, <4>1
    <3> QED BY <3>1, <3>2
  <2>4. RingTypeOK
    BY <2>1 DEF RingType, RingTypeOK
  <2>5. Len(<< >>) = 0 /\ during <= Burst
    BY <2>1, Numbers
  <2> QED BY <2>1, <2>2, <2>3, <2>4, <2>5 DEF TypeOK
<1> QED BY <1>1, LinkInvariance, PTL

\* Between two interrupts the ring has room for all that the next can bring, so that it
\* is never left full, a state in which no byte would be read again (handlers.c:87-90).
THEOREM RoomAlways == Spec => []RingHasRoom
<1>1. LinkInv => RingHasRoom
  <2> SUFFICES ASSUME LinkInv, cause = "none" PROVE Held(ring) + FifoSize + Burst < RingSize
    BY DEF RingHasRoom
  <2>1. ring \in RingType /\ Held(ring) < FifoSize + Burst
    BY DEF LinkInv, Typed, Room, Idle
  <2>2. Held(ring) \in Nat
    BY <2>1, HeldBounds
  <2> QED BY <2>1, <2>2, Numbers
<1> QED BY <1>1, LinkInvariance, PTL

\* Whatever is damaged or lost, no message is handed to the game that was not sent,
\* none twice and none out of its order, if every error is there when uart_ih reads the
\* cause of its interrupt (uart.c:128-135, handlers.c:87-90), no payload looks like a
\* message and no message is given up.
THEOREM NeverForged == Spec => []NothingForged
<1>1. LinkInv => NothingForged
  <2> SUFFICES ASSUME LinkInv, \A i \in DOMAIN sent : ~Ambiguous(sent[i]), ~cut, missed = {}
               PROVE  OnlyWhatWasSent
    BY DEF NothingForged, Plainly
  <2>1. sent \in Seq(Message) /\ got \in Seq(Seq(Byte)) /\ InPlace
    BY DEF LinkInv, Typed
  <2>2. DOMAIN sent = 1 .. Len(sent) /\ DOMAIN got = 1 .. Len(got)
    BY <2>1
  <2>3. Plain(sent)
    BY <2>2 DEF Plain, Ambiguous
  <2>4. PICK k : Ordered(got, k, sent)
    BY <2>1, <2>3 DEF InPlace, Traced
  <2>5. PICK o \in [1 .. Len(got) -> 1 .. k - 1] :
          /\ \A j \in 1 .. Len(got) : o[j] \in 1 .. Len(sent) /\ got[j] = sent[o[j]]
          /\ \A j, l \in 1 .. Len(got) : j < l => o[j] < o[l]
    BY <2>4 DEF Ordered
  <2>6. o \in [DOMAIN got -> DOMAIN sent]
    BY <2>2, <2>5
  <2> QED BY <2>2, <2>5, <2>6 DEF OnlyWhatWasSent
<1> QED BY <1>1, LinkInvariance, PTL

----------------------------------------------------------------------------
(* The ring in its place                                                   *)

\* For every size of ring and FIFO and whatever happens on the line, the parser gets
\* what an interrupt has left in the ring whole and in order, or is told that something
\* is missing before it reads on (uart.c:14-34, handlers.c:87-98).
THEOREM InboxInPlace == Spec => ImplementsInbox
<1>1. Init => IB!InboxInit
  <2> SUFFICES ASSUME Init PROVE IB!InboxInit
    OBVIOUS
  <2>1. ring \in RingType /\ ring.head = ring.tail /\ ring.overflowed = FALSE /\ cause = "none"
    BY RingAssumption DEF Init, EmptyRing, RingType, Slots
  <2> QED BY <2>1, NothingHeld DEF IB!InboxInit, IB!Init
<1>2. LinkInv /\ [Next]_vars => [IB!InboxNext]_<<IB!vars, cause # "none">>
  <2> SUFFICES ASSUME LinkInv, [Next]_vars
               PROVE  \/ IB!InboxNext
                      \/ UNCHANGED <<Queued(ring), ring.overflowed>>
                         /\ (cause # "none")' = (cause # "none")
    BY DEF IB!vars
  <2>1. /\ ring \in RingType /\ fifo \in Seq(FifoByte) /\ (lsr # "unread" => fifo # << >>)
        /\ cause \in {"none", "RLS", "RDA"} /\ lsr \in {"unread", "data", "error"}
        /\ (lsr # "unread" => cause # "none")
    BY DEF LinkInv, Typed, Room, Idle
  <2>2. ring' = ring => UNCHANGED <<Queued(ring), ring.overflowed>>
    BY DEF Queued, Held
  <2>3. ASSUME ring' = Spoilt(ring), cause # "none", cause' = cause PROVE IB!InboxNext
    <3>1. ring' \in RingType /\ ring'.overflowed = TRUE /\ Held(ring') = 0
      BY <2>1, <2>3, SpoiltIsEmpty DEF Spoilt
    <3>2. Queued(ring') = << >>
      BY <3>1, QueuedIsSeq
    <3> QED BY <2>3, <3>1, <3>2 DEF IB!InboxNext, IB!Put, IB!Discard
  <2>4. CASE StartMessage \/ PutByte \/ GiveUp \/ Arrive \/ ArriveBad \/ Overrun \/ LookToSend
    BY <2>2, <2>4 DEF StartMessage, PutByte, GiveUp, Arrive, ArriveBad, Overrun, LookToSend,
                      Reaches, handler
  <2>5. CASE UNCHANGED vars
    BY <2>2, <2>5 DEF vars
  <2>6. CASE ReadIir
    <3>1. cause = "none" /\ cause' # "none" /\ ring' = ring
      BY <2>6 DEF ReadIir
    <3> QED BY <2>2, <3>1 DEF IB!InboxNext, IB!Begin, IB!vars
  <2>7. CASE ReadLsr
    <3>1. cause # "none" /\ cause' = cause /\ (ring' = Spoilt(ring) \/ ring' = ring)
      BY <2>7 DEF ReadLsr
    <3> QED BY <2>2, <2>3, <3>1
  <2>8. CASE ReadRbr
    <3>1. /\ lsr # "unread" /\ cause # "none" /\ cause' = cause
          /\ ring' = Take(ring, Head(fifo).byte)
      BY <2>1, <2>8 DEF ReadRbr
    <3>2. Head(fifo).byte \in Byte
      BY <2>1, <3>1, Shorter DEF FifoByte
    <3>3. ring' = ring \/ ring' = Spoilt(ring) \/ ring' = Push(ring, Head(fifo).byte)
      BY <2>1, <3>1 DEF Take
    <3>4. ASSUME ring' = Push(ring, Head(fifo).byte) PROVE IB!InboxNext
      <4>1. Q!Accept \/ Q!Refuse
        BY <2>1, <3>2, <3>4, PushGoesIn
      <4>2. IB!Accept \/ IB!Refuse
        BY <4>1 DEF Q!Accept, Q!Refuse, IB!Accept, IB!Refuse
      <4> QED BY <3>1, <4>2 DEF IB!InboxNext, IB!Put
    <3> QED BY <2>2, <2>3, <3>1, <3>3, <3>4
  <2>9. CASE Finish /\ ring.overflowed
    <3>1. cause # "none" /\ cause' = "none" /\ ring' = AskedOverflow(ring)
      BY <2>9 DEF Finish
    <3>2. /\ ring'.overflowed = FALSE /\ ring'.head = ring.head
          /\ ring'.tail = ring.tail /\ ring'.data = ring.data
      BY <2>1, <3>1 DEF AskedOverflow, RingType
    <3>3. Queued(ring') = Queued(ring)
      BY <3>2 DEF Queued, Held
    <3> QED BY <2>9, <3>1, <3>2, <3>3 DEF IB!InboxNext, IB!End, IB!Ask
  <2>10. CASE Finish /\ ~ring.overflowed
    <3>1. cause # "none" /\ cause' = "none" /\ ring' = Emptied(ring)
      BY <2>10 DEF Finish
    <3>2. ring' \in RingType /\ ring'.overflowed = ring.overflowed /\ Held(ring') = 0
      BY <2>1, <3>1, EmptiedIsEmpty
    <3>3. Queued(ring') = << >>
      BY <3>2, QueuedIsSeq
    <3> QED BY <2>10, <3>1, <3>2, <3>3 DEF IB!InboxNext, IB!End, IB!ReadAll
  <2> QED BY <2>4, <2>5, <2>6, <2>7, <2>8, <2>9, <2>10 DEF Next
<1> QED BY <1>1, <1>2, LinkInvariance, PTL DEF Spec, ImplementsInbox, IB!InboxSpec

----------------------------------------------------------------------------
(* The channel                                                             *)

\* While nothing was damaged, what was delivered is the beginning of what was sent.
LEMMA DeliveredInOrder ==
  LinkInv /\ errors = 0 /\ ~cut => Len(got) <= Len(sent) /\ got = SubSeq(sent, 1, Len(got))
<1> SUFFICES ASSUME LinkInv, errors = 0, ~cut
             PROVE  Len(got) <= Len(sent) /\ got = SubSeq(sent, 1, Len(got))
  OBVIOUS
<1>1. /\ sent \in Seq(Message) /\ got \in Seq(Seq(Byte)) /\ InPlace
      /\ Len(sent) \in Nat /\ Len(got) \in Nat
  BY DEF LinkInv, Typed
<1>2. PICK line : line = Line(ring, fifo, Lost, thr, out)
  OBVIOUS
<1>3. PICK K, I : Carries(K, I, line, sent) /\ Follows(rx, got, K[1], I[1], sent)
  <2>1. missed = {}
    BY DEF LinkInv, Undamaged
  <2> QED BY <1>1, <1>2, <2>1 DEF InPlace, Traced
<1>4. Len(line) \in Nat
  BY <1>2, LineIs DEF LinkInv, Typed, LinePlaces
<1>5. K[1] \in Nat /\ K[1] <= Len(sent) + 1
  <2>1. 1 \in 1 .. Len(line) + 1 /\ Len(line) + 1 \in 1 .. Len(line) + 1 /\ 1 <= Len(line) + 1
    BY <1>4
  <2> QED BY <1>3, <2>1 DEF Carries
<1>6. Len(got) = K[1] - 1 /\ \A j \in 1 .. Len(got) : got[j] = sent[j]
  BY <1>3 DEF Follows
<1>7. Len(got) <= Len(sent)
  BY <1>1, <1>5, <1>6
<1>8. sent \in Seq(Seq(Byte))
  BY <1>1, LinkAssumption
<1>9. PICK first : first = SubSeq(sent, 1, Len(got))
  OBVIOUS
<1>10. /\ first \in Seq(Seq(Byte)) /\ Len(first) = Len(got)
       /\ \A j \in 1 .. Len(got) : first[j] = sent[j]
  BY <1>1, <1>7, <1>8, <1>9
<1>11. first = got
  BY <1>1, <1>6, <1>10, SeqEqual
<1> QED BY <1>7, <1>9, <1>11

\* What handle_serial delivers comes after what was delivered before.
LEMMA DeliversMore ==
  ASSUME LinkInv, Finish, got' # got
  PROVE  Len(got') > Len(got) /\ SubSeq(got', 1, Len(got)) = got
<1>1. PICK more : more = Fed(rx, Queued(ring)).msgs /\ got' = got \o more
  BY DEF Finish
<1>2. Queued(ring) \in Seq(Byte) /\ rx \in ParserType /\ got \in Seq(Seq(Byte))
  BY QueuedIsSeq DEF LinkInv, Typed
<1>3. more \in Seq(Seq(Byte))
  BY <1>1, <1>2, FedTyped DEF ParserType
<1>4. more # << >>
  BY <1>1, <1>2
<1>5. Len(more) \in Nat /\ Len(more) # 0
  BY <1>3, <1>4, EmptySeq, LenProperties
<1>6. Len(got') = Len(got) + Len(more) /\ Len(got) \in Nat
  BY <1>1, <1>2, <1>3
<1>7. SubSeq(got \o more, 1, Len(got)) = got
  BY <1>2, <1>3
<1>8. Len(got') > Len(got)
  BY <1>5, <1>6
<1> QED BY <1>1, <1>7, <1>8, Zenon

\* The line does what Channel promises.
LEMMA StepsOfChannel ==
  LinkInv /\ LinkInv' /\ [Next]_vars => [C!Next]_(C!vars)
<1> SUFFICES ASSUME LinkInv, LinkInv', [Next]_vars PROVE C!Next \/ UNCHANGED C!vars
  OBVIOUS
<1>0. errors \in Nat /\ errors' \in Nat
  BY DEF LinkInv, Typed
<1>1. CASE UNCHANGED vars
  BY <1>1 DEF vars, C!vars
<1>2. CASE StartMessage
  <2>1. PICK msg \in Message : sent' = Append(sent, msg)
    BY <1>2 DEF StartMessage
  <2>2. UNCHANGED <<got, errors, cut>>
    BY <1>2 DEF StartMessage
  <2>3. C!Send
    BY <2>1, <2>2 DEF C!Send
  <2> QED BY <2>3 DEF C!Next
<1>3. CASE PutByte \/ Arrive
  BY <1>3 DEF PutByte, Arrive, Reaches, C!vars
<1>6. CASE LookToSend \/ ReadIir \/ ReadLsr \/ ReadRbr
  BY <1>6 DEF LookToSend, ReadIir, ReadLsr, ReadRbr, sender, C!vars
<1>4. CASE GiveUp \/ ArriveBad \/ Overrun
  <2>1. UNCHANGED <<sent, got>>
    BY <1>4 DEF GiveUp, ArriveBad, Overrun, Reaches
  <2>2. errors' > 0 \/ cut'
    BY <1>0, <1>4 DEF GiveUp, ArriveBad, Overrun
  <2>3. C!Damage
    BY <2>1, <2>2 DEF C!Damage
  <2> QED BY <2>3 DEF C!Next
<1>5. CASE Finish
  <2>1. UNCHANGED <<sent, errors, cut>>
    BY <1>5 DEF Finish, sender
  <2>2. CASE got' = got
    BY <2>1, <2>2 DEF C!vars
  <2>3. CASE got' # got /\ (errors > 0 \/ cut)
    <3>1. Len(got') > Len(got) /\ SubSeq(got', 1, Len(got)) = got
      BY <1>5, <2>3, DeliversMore
    <3>2. C!DeliverAny
      BY <2>1, <2>3, <3>1 DEF C!DeliverAny
    <3> QED BY <3>2 DEF C!Next
  <2>4. CASE got' # got /\ ~(errors > 0 \/ cut)
    <3>1. (errors = 0 /\ ~cut)'
      BY <1>0, <2>1, <2>4
    <3>2. (Len(got) <= Len(sent) /\ got = SubSeq(sent, 1, Len(got)))'
      BY <3>1, DeliveredInOrder, PTL
    <3>3. Len(got') > Len(got)
      BY <1>5, <2>4, DeliversMore
    <3>4. Len(got) \in Nat /\ Len(got') \in Nat /\ Len(sent) \in Nat
      BY DEF LinkInv, Typed
    <3>5. PICK n : n = Len(got')
      OBVIOUS
    <3>6. n \in Len(got) + 1 .. Len(sent) /\ got' = SubSeq(sent, 1, n)
      BY <2>1, <3>2, <3>3, <3>4, <3>5
    <3>7. C!Deliver
      BY <2>1, <2>4, <3>6 DEF C!Deliver
    <3> QED BY <3>7 DEF C!Next
  <2> QED BY <2>2, <2>3, <2>4
<1> QED BY <1>1, <1>2, <1>3, <1>4, <1>5, <1>6 DEF Next

\* As long as no byte is damaged, lost or given up, the game at one end gets what the
\* other's sent, in that order and nothing else: what Duel takes for granted.
THEOREM DeliversInOrder == Spec => ImplementsChannel
<1>1. Init => C!Init
  BY DEF Init, C!Init
<1>2. LinkInv /\ LinkInv' /\ [Next]_vars => [C!Next]_(C!vars)
  BY StepsOfChannel
<1>3. Spec => [][C!Next]_(C!vars)
  BY <1>2, LinkInvariance, PTL DEF Spec
<1>4. Spec => C!Init
  BY <1>1, PTL DEF Spec
<1> QED BY <1>3, <1>4 DEF ImplementsChannel, C!Spec
=============================================================================
