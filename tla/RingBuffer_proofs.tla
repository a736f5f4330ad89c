------------------------- MODULE RingBuffer_proofs -------------------------
(***************************************************************************)
(* The receive ring is a bounded queue for every size of the ring and every  *)
(* set of bytes.  The invariant is type correctness alone; the work is in    *)
(* how the two indices and the remainder make a sequence: first the facts    *)
(* about any ring record, where its k-th byte is and what each operation     *)
(* does to the bytes between the two indices.                                *)
(***************************************************************************)
EXTENDS RingBuffer, SequenceTheorems, TLAPS

RingType == [data : [Slots -> Byte], head : Slots, tail : Slots, overflowed : BOOLEAN]

\* The slot of the k-th byte in the queue.
SlotOf(r, k) == (r.tail + k - 1) % RingSize

----------------------------------------------------------------------------
(* Indices                                                                 *)

\* A remainder of a number below twice the divisor (the mask of uart.c:7).
LEMMA Remainder ==
  ASSUME NEW n \in Nat \ {0}, NEW a \in Nat, a < 2 * n
  PROVE  a % n = IF a < n THEN a ELSE a - n
<1>1. CASE a < n
  BY <1>1
<1>2. CASE a >= n
  BY <1>2
<1> QED
  BY <1>1, <1>2

\* The next index is the next slot, the first one after the last (uart.c:20, 32).
LEMMA AfterSlot ==
  ASSUME NEW i \in Slots
  PROVE  After(i) = IF i = RingSize - 1 THEN 0 ELSE i + 1
<1>1. i \in 0 .. RingSize - 1 /\ RingSize \in Nat \ {0}
  BY RingAssumption DEF Slots
<1>2. PICK a \in Nat : a = i + 1
  BY <1>1
<1>3. RingSize \in Nat \ {0} /\ a < 2 * RingSize
  BY <1>1, <1>2
<1>4. a % RingSize = IF a < RingSize THEN a ELSE a - RingSize
  BY <1>3, Remainder
<1> QED
  BY <1>1, <1>2, <1>4 DEF After

\* The bytes held are never as many as the slots.
LEMMA HeldBounds ==
  ASSUME NEW r \in RingType
  PROVE  Held(r) \in 0 .. RingSize - 1
BY RingAssumption DEF RingType, Held, Slots

\* The slot of a byte in the queue, without the remainder.
LEMMA SlotIs ==
  ASSUME NEW r \in RingType, NEW k \in 1 .. RingSize
  PROVE  /\ SlotOf(r, k) \in Slots
         /\ SlotOf(r, k) = IF r.tail + k - 1 < RingSize THEN r.tail + k - 1
                           ELSE r.tail + k - 1 - RingSize
<1> DEFINE a == r.tail + k - 1
<1>1. r.tail \in 0 .. RingSize - 1 /\ RingSize \in Nat
  BY RingAssumption DEF RingType, Slots
<1>2. a \in Nat /\ RingSize \in Nat \ {0} /\ a < 2 * RingSize
  BY <1>1
<1>3. a % RingSize = IF a < RingSize THEN a ELSE a - RingSize
  BY <1>2, Remainder
<1> QED
  BY <1>1, <1>2, <1>3 DEF SlotOf, Slots

\* What the ring holds is a sequence of bytes as long as the indices say.
LEMMA QueuedIsSeq ==
  ASSUME NEW r \in RingType
  PROVE  /\ Queued(r) \in Seq(Byte)
         /\ Len(Queued(r)) = Held(r)
         /\ \A k \in 1 .. Held(r) : Queued(r)[k] = r.data[SlotOf(r, k)]
<1>1. Held(r) \in Nat /\ \A k \in 1 .. Held(r) : k \in 1 .. RingSize
  BY HeldBounds, RingAssumption
<1>2. \A k \in 1 .. Held(r) : r.data[SlotOf(r, k)] \in Byte
  BY <1>1, SlotIs DEF RingType
<1>3. Queued(r) = [k \in 1 .. Held(r) |-> r.data[SlotOf(r, k)]]
  BY DEF Queued, SlotOf
<1> QED
  BY <1>1, <1>2, <1>3

----------------------------------------------------------------------------
(* What the operations do to the queue of bytes                            *)

\* A byte that finds room goes to the end of the queue.
LEMMA PushAppends ==
  ASSUME NEW r \in RingType, NEW b \in Byte, After(r.head) # r.tail
  PROVE  /\ Held(r) < RingSize - 1
         /\ Queued(Push(r, b)) = Append(Queued(r), b)
         /\ Push(r, b).overflowed = r.overflowed
<1> DEFINE s == Push(r, b)
<1>0. r.head \in 0 .. RingSize - 1 /\ r.tail \in 0 .. RingSize - 1 /\ RingSize \in Nat
  BY RingAssumption DEF RingType, Slots
<1>1. After(r.head) = IF r.head = RingSize - 1 THEN 0 ELSE r.head + 1
  BY AfterSlot DEF RingType
<1>2. /\ s.head = After(r.head) /\ s.tail = r.tail /\ s.overflowed = r.overflowed
      /\ s.data \in [Slots -> Byte]
      /\ s.data[r.head] = b
      /\ \A i \in Slots : i # r.head => s.data[i] = r.data[i]
  BY DEF RingType, Push
<1>3. s \in RingType
  <2>1. After(r.head) \in Slots
    BY <1>0, <1>1 DEF Slots
  <2> QED
    BY <2>1 DEF RingType, Push
<1>4. Held(s) = Held(r) + 1 /\ Held(r) < RingSize - 1
  BY <1>0, <1>1, <1>2 DEF Held
<1>5. Held(r) \in Nat
  BY HeldBounds
<1>6. SlotOf(s, Held(r) + 1) = r.head
  <2>1. Held(r) + 1 \in 1 .. RingSize
    BY <1>0, <1>4, <1>5
  <2>2. SlotOf(s, Held(r) + 1) = IF s.tail + Held(r) < RingSize THEN s.tail + Held(r)
                                ELSE s.tail + Held(r) - RingSize
    BY <2>1, <1>0, <1>2, <1>3, <1>5, SlotIs
  <2> QED
    BY <2>2, <1>0, <1>2 DEF Held
<1>7. ASSUME NEW k \in 1 .. Held(r)
      PROVE  SlotOf(s, k) = SlotOf(r, k) /\ SlotOf(r, k) \in Slots /\ SlotOf(r, k) # r.head
  <2>1. k \in 1 .. RingSize /\ k <= Held(r)
    BY <1>0, <1>4, <1>5
  <2>2. SlotOf(s, k) = SlotOf(r, k)
    BY <1>2 DEF SlotOf
  <2>3. /\ SlotOf(r, k) \in Slots
        /\ SlotOf(r, k) = IF r.tail + k - 1 < RingSize THEN r.tail + k - 1
                          ELSE r.tail + k - 1 - RingSize
    BY <2>1, SlotIs
  <2>4. SlotOf(r, k) # r.head
    BY <2>1, <2>3, <1>0 DEF Held
  <2> QED
    BY <2>2, <2>3, <2>4
<1>8. \A k \in 1 .. Held(r) + 1 :
        Queued(s)[k] = IF k = Held(r) + 1 THEN b ELSE Queued(r)[k]
  <2> SUFFICES ASSUME NEW k \in 1 .. Held(r) + 1
               PROVE  Queued(s)[k] = IF k = Held(r) + 1 THEN b ELSE Queued(r)[k]
    OBVIOUS
  <2>1. Queued(s)[k] = s.data[SlotOf(s, k)]
    BY <1>3, <1>4, QueuedIsSeq
  <2>2. CASE k = Held(r) + 1
    BY <2>1, <2>2, <1>2, <1>6
  <2>3. CASE k \in 1 .. Held(r)
    <3>1. s.data[SlotOf(s, k)] = r.data[SlotOf(r, k)]
      BY <2>3, <1>2, <1>7
    <3>2. Queued(r)[k] = r.data[SlotOf(r, k)]
      BY <2>3, QueuedIsSeq
    <3> QED
      BY <3>1, <3>2, <2>1, <2>3, <1>5
  <2> QED
    BY <2>2, <2>3, <1>5
<1> HIDE DEF s
<1>9. Queued(s) = Append(Queued(r), b)
  <2>1. /\ Queued(s) \in Seq(Byte) /\ Len(Queued(s)) = Held(r) + 1
        /\ Queued(r) \in Seq(Byte) /\ Len(Queued(r)) = Held(r)
    BY <1>3, <1>4, QueuedIsSeq
  <2> QED
    BY <2>1, <1>5, <1>8
<1> QED
  BY <1>2, <1>4, <1>9 DEF s

\* Popping takes the first byte of the queue.
LEMMA PopRemoves ==
  ASSUME NEW r \in RingType, NonEmpty(r)
  PROVE  /\ Queued(r) # << >>
         /\ Queued(Pop(r)) = Tail(Queued(r))
         /\ Pop(r).overflowed = r.overflowed
<1> DEFINE s == Pop(r)
<1>0. r.head \in 0 .. RingSize - 1 /\ r.tail \in 0 .. RingSize - 1 /\ RingSize \in Nat
  BY RingAssumption DEF RingType, Slots
<1>1. After(r.tail) = IF r.tail = RingSize - 1 THEN 0 ELSE r.tail + 1
  BY AfterSlot DEF RingType
<1>2. s.head = r.head /\ s.tail = After(r.tail) /\ s.data = r.data /\ s.overflowed = r.overflowed
  BY DEF RingType, Pop
<1>3. s \in RingType
  <2>1. After(r.tail) \in Slots
    BY <1>0, <1>1 DEF Slots
  <2> QED
    BY <2>1 DEF RingType, Pop
<1>4. Held(s) = Held(r) - 1 /\ Held(r) \in 1 .. RingSize - 1
  BY <1>0, <1>1, <1>2 DEF Held, NonEmpty
<1>5. ASSUME NEW k \in 1 .. Held(s)
      PROVE  SlotOf(s, k) = SlotOf(r, k + 1)
  <2>1. k \in 1 .. RingSize /\ k + 1 \in 1 .. RingSize
    BY <1>0, <1>4
  <2>2. SlotOf(s, k) = IF s.tail + k - 1 < RingSize THEN s.tail + k - 1
                      ELSE s.tail + k - 1 - RingSize
    BY <2>1, <1>3, SlotIs
  <2>3. SlotOf(r, k + 1) = IF r.tail + (k + 1) - 1 < RingSize THEN r.tail + (k + 1) - 1
                          ELSE r.tail + (k + 1) - 1 - RingSize
    BY <2>1, SlotIs
  <2> QED
    BY <2>1, <2>2, <2>3, <1>0, <1>1, <1>2, <1>4
<1>6. \A k \in 1 .. Held(s) : Queued(s)[k] = Queued(r)[k + 1]
  <2> SUFFICES ASSUME NEW k \in 1 .. Held(s) PROVE Queued(s)[k] = Queued(r)[k + 1]
    OBVIOUS
  <2>1. Queued(s)[k] = s.data[SlotOf(s, k)]
    BY <1>3, QueuedIsSeq
  <2>2. k + 1 \in 1 .. Held(r)
    BY <1>4
  <2>3. Queued(r)[k + 1] = r.data[SlotOf(r, k + 1)]
    BY <2>2, QueuedIsSeq
  <2> QED
    BY <2>1, <2>3, <1>2, <1>5
<1> HIDE DEF s
<1>7. Queued(s) = Tail(Queued(r)) /\ Queued(r) # << >>
  <2>1. /\ Queued(s) \in Seq(Byte) /\ Len(Queued(s)) = Held(r) - 1
        /\ Queued(r) \in Seq(Byte) /\ Len(Queued(r)) = Held(r)
    BY <1>3, <1>4, QueuedIsSeq
  <2> QED
    BY <2>1, <1>4, <1>6
<1> QED
  BY <1>2, <1>7 DEF s

\* A byte finds no room exactly when all slots but one are taken.
LEMMA FullIsCapacity ==
  ASSUME NEW r \in RingType, After(r.head) = r.tail
  PROVE  Held(r) = RingSize - 1
<1>1. r.head \in 0 .. RingSize - 1 /\ r.tail \in 0 .. RingSize - 1 /\ RingSize \in Nat
  BY RingAssumption DEF RingType, Slots
<1>2. After(r.head) = IF r.head = RingSize - 1 THEN 0 ELSE r.head + 1
  BY AfterSlot DEF RingType
<1> QED
  BY <1>1, <1>2 DEF Held

\* Discarding leaves an empty queue, and so does a ring just made.
LEMMA NothingHeld ==
  ASSUME NEW r \in RingType, r.head = r.tail
  PROVE  Queued(r) = << >>
<1>1. Held(r) = 0
  BY RingAssumption DEF RingType, Slots, Held
<1> QED
  BY <1>1, QueuedIsSeq

----------------------------------------------------------------------------
(* Type correctness                                                        *)

\* The indices stay in the array and the array keeps bytes (uart.c:15-34).
THEOREM RingTypeCorrect == RingSpec => []RingTypeOK
<1>1. RingInit => RingTypeOK
  BY RingAssumption DEF RingInit, RingTypeOK, EmptyRing, Slots
<1>2. RingTypeOK /\ [RingNext]_ring => RingTypeOK'
  <2> SUFFICES ASSUME RingTypeOK, [RingNext]_ring PROVE RingTypeOK'
    OBVIOUS
  <2>0. ring \in RingType
    BY DEF RingTypeOK, RingType
  <2>1. \A i \in Slots : After(i) \in Slots
    BY AfterSlot, RingAssumption DEF Slots
  <2>2. ASSUME NEW b \in Byte, ring' = Push(ring, b) PROVE RingTypeOK'
    BY <2>0, <2>1, <2>2 DEF RingType, RingTypeOK, Push
  <2>3. CASE PopByte
    BY <2>0, <2>1, <2>3 DEF RingType, RingTypeOK, PopByte, Pop
  <2>4. CASE Discard
    BY <2>0, <2>4 DEF RingType, RingTypeOK, Discard, Spoilt, DiscardAll
  <2>5. CASE AskOverflow
    BY <2>0, <2>5 DEF RingType, RingTypeOK, AskOverflow, AskedOverflow
  <2>6. CASE UNCHANGED ring
    BY <2>6 DEF RingTypeOK
  <2> QED
    BY <2>2, <2>3, <2>4, <2>5, <2>6 DEF RingNext, PushByte
<1> QED
  BY <1>1, <1>2, PTL DEF RingSpec

----------------------------------------------------------------------------
(* The ring implements the queue                                           *)

\* A byte pushed is accepted, or refused when all slots but one are taken.
LEMMA PushGoesIn ==
  ASSUME ring \in RingType, NEW b \in Byte, ring' = Push(ring, b)
  PROVE  Q!Accept \/ Q!Refuse
<1>0. ring \in RingType /\ ring' = Push(ring, b)
  OBVIOUS
<1>1. Queued(ring) \in Seq(Byte) /\ Len(Queued(ring)) = Held(ring) /\ Held(ring) \in Nat
  BY <1>0, QueuedIsSeq, HeldBounds
<1>2. CASE After(ring.head) # ring.tail
  <2>1. /\ Held(ring) < RingSize - 1
        /\ Queued(ring)' = Append(Queued(ring), b)
        /\ ring.overflowed' = ring.overflowed
    BY <1>2, <1>0, PushAppends
  <2> QED
    BY <2>1, <1>1 DEF Q!Accept
<1>3. CASE After(ring.head) = ring.tail
  <2>1. Held(ring) = RingSize - 1
    BY <1>3, <1>0, FullIsCapacity
  <2>2. /\ ring'.overflowed = TRUE /\ ring'.head = ring.head
        /\ ring'.tail = ring.tail /\ ring'.data = ring.data
    BY <1>3, <1>0 DEF Push, RingType
  <2>3. Queued(ring') = Queued(ring)
    BY <2>2 DEF Queued, Held
  <2> QED
    BY <2>1, <2>2, <2>3, <1>1 DEF Q!Refuse
<1> QED
  BY <1>2, <1>3

\* A step of the ring is a step of the queue, whose bytes are those between the
\* two indices (uart.c:15-34).
LEMMA RingStepRefines ==
  ASSUME RingTypeOK, [RingNext]_ring
  PROVE  [Q!Next]_<<Queued(ring), ring.overflowed>>
<1>0. ring \in RingType
  BY DEF RingTypeOK, RingType
<1>1. Queued(ring) \in Seq(Byte) /\ Len(Queued(ring)) = Held(ring) /\ Held(ring) \in Nat
  BY <1>0, QueuedIsSeq, HeldBounds
<1>2. ASSUME NEW b \in Byte, ring' = Push(ring, b)
      PROVE  Q!Accept \/ Q!Refuse
  BY <1>0, <1>2, PushGoesIn
<1>3. CASE PopByte
  <2>1. /\ Queued(ring) # << >>
        /\ Queued(ring') = Tail(Queued(ring))
        /\ ring'.overflowed = ring.overflowed
    BY <1>0, <1>3, PopRemoves DEF PopByte
  <2> QED
    BY <2>1 DEF Q!Next, Q!Remove
<1>4. CASE Discard
  <2>1. /\ ring' \in RingType /\ ring'.head = ring'.tail
        /\ ring'.overflowed = TRUE
    BY <1>0, <1>4 DEF Discard, Spoilt, DiscardAll, RingType
  <2>2. Queued(ring') = << >>
    BY <2>1, NothingHeld
  <2> QED
    BY <2>1, <2>2 DEF Q!Next, Q!Discard
<1>5. CASE AskOverflow
  <2>1. /\ ring'.overflowed = FALSE /\ ring'.head = ring.head
        /\ ring'.tail = ring.tail /\ ring'.data = ring.data
    BY <1>0, <1>5 DEF AskOverflow, AskedOverflow, RingType
  <2>2. Queued(ring') = Queued(ring)
    BY <2>1 DEF Queued, Held
  <2> QED
    BY <2>1, <2>2 DEF Q!Next, Q!Ask
<1>6. CASE UNCHANGED ring
  BY <1>6 DEF Queued, Held
<1> QED
  BY <1>2, <1>3, <1>4, <1>5, <1>6 DEF RingNext, PushByte, Q!Next

\* For every size of the ring, uart.c's buffer is a bounded first-in first-out
\* queue that refuses a byte only when all slots but one are taken.
THEOREM RingRefinement == RingSpec => ImplementsQueue
<1>1. RingInit => Q!Init
  <2> SUFFICES ASSUME RingInit PROVE Q!Init
    OBVIOUS
  <2>1. ring \in RingType /\ ring.head = ring.tail /\ ring.overflowed = FALSE
    BY RingAssumption DEF RingInit, EmptyRing, RingType, Slots
  <2> QED
    BY <2>1, NothingHeld DEF Q!Init
<1>2. RingTypeOK /\ [RingNext]_ring => [Q!Next]_Q!vars
  BY RingStepRefines DEF Q!vars
<1> QED
  BY <1>1, <1>2, RingTypeCorrect, PTL DEF RingSpec, ImplementsQueue, Q!Spec
=============================================================================
