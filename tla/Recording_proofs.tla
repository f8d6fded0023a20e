----------------------------- MODULE Recording_proofs -----------------------------
(***************************************************************************)
(* What SpscAudioRing and SessionRecorder promise.                         *)
(*                                                                         *)
(* The ring is correct for every capacity and every block size: RingInv is *)
(* inductive, and it implies the absence of data races.                    *)
(*                                                                         *)
(* A take that shows no failure is whole and headers tell the truth, for   *)
(* any number of tracks, callbacks and takes and any size of ring, however *)
(* the three threads fall.  What makes it hold is that every track of a    *)
(* take begins with the same callback, because start() and a callback do   *)
(* not overlap, and that the callback that is running when the take ends   *)
(* leaves tracks one block short and never one block further than the      *)
(* others.                                                                 *)
(***************************************************************************)
EXTENDS SpscAudioRing, SessionRecorder, SequenceTheorems, TLAPS

-----------------------------------------------------------------------------
(* Part one: the ring.                                                     *)

(* The division the mask of the ring stands for. *)
LEMMA Division ==
    ASSUME NEW n \in Nat, n >= 2, NEW p \in Nat
    PROVE  /\ p \div n \in Int
           /\ p % n \in 0..(n - 1)
           /\ p = n * (p \div n) + (p % n)
OBVIOUS

(* Two multiples of the capacity are never less than a capacity apart. *)
LEMMA NoMultipleBetween ==
    ASSUME NEW n \in Nat, n >= 2, NEW k \in Int, 0 < n * k, n * k < n
    PROVE  FALSE
<1>1. CASE k <= 0
  <2>1. n * k <= 0
    BY <1>1
  <2>2. QED
    BY <2>1
<1>2. CASE k >= 1
  <2>1. n * k >= n
    BY <1>2
  <2>2. QED
    BY <2>1
<1>3. QED
  BY <1>1, <1>2

(* Every position has a slot of the buffer. *)
LEMMA IndexInRange ==
    ASSUME NEW p \in Nat
    PROVE  Index(p) \in 0..(Capacity - 1)
BY CapacityAssumption, Division DEF Index

(* Two positions closer together than the capacity never share a slot. *)
LEMMA IndexInjective ==
    ASSUME NEW p \in Nat, NEW q \in Nat, p < q, q - p < Capacity
    PROVE  Index(p) # Index(q)
<1> DEFINE a == p \div Capacity
           b == q \div Capacity
<1>1. a \in Int /\ Index(p) \in Int /\ p = Capacity * a + Index(p)
  BY CapacityAssumption, Division DEF Index
<1>2. b \in Int /\ Index(q) \in Int /\ q = Capacity * b + Index(q)
  BY CapacityAssumption, Division DEF Index
<1> SUFFICES ASSUME Index(p) = Index(q) PROVE FALSE
  OBVIOUS
<1> HIDE DEF a, b
<1>3. q - p = Capacity * (b - a)
  BY <1>1, <1>2, CapacityAssumption
<1>4. QED
  BY <1>1, <1>2, <1>3, NoMultipleBetween, CapacityAssumption

-----------------------------------------------------------------------------
(* The empty ring satisfies the invariant. *)
LEMMA RingInvInit == Init => RingInv
<1> SUFFICES ASSUME Init PROVE RingInv
  OBVIOUS
<1>1. TypeOK
  <2>1. slot \in [0..(Capacity - 1) -> Int]
    BY DEF Init, Empty
  <2>2. << >> \in Seq(Int)
    BY EmptySeq
  <2>3. writing \in BOOLEAN /\ reading \in BOOLEAN
    BY DEF Init
  <2>4. writeCursor - readCursor \in 0..Capacity
    BY CapacityAssumption DEF Init
  <2>5. got = << >> /\ out = << >>
    BY DEF Init
  <2>6. QED
    BY <2>1, <2>2, <2>3, <2>4, <2>5 DEF Init, TypeOK
<1>2. ProducerView /\ ConsumerView /\ CopiedFramesInPlace /\ ReadsInOrder
  BY DEF Init, ProducerView, ConsumerView, CopiedFramesInPlace, ReadsInOrder
<1>3. PublishedFramesIntact
  BY DEF Init, PublishedFramesIntact, Unread
<1>4. QED
  BY <1>1, <1>2, <1>3 DEF RingInv

(* Every step of the writer, of the reader and of the controller keeps it. *)
LEMMA RingInvStep == RingInv /\ [Next]_vars => RingInv'
<1> SUFFICES ASSUME RingInv, [Next]_vars
             PROVE  RingInv'
  OBVIOUS
<1> USE CapacityAssumption, BoundAssumption
<1>0. /\ TypeOK /\ ProducerView /\ ConsumerView
      /\ CopiedFramesInPlace /\ PublishedFramesIntact /\ ReadsInOrder
  BY DEF RingInv
<1>1. ASSUME NEW n \in 1..MaxBlock, WriteBegin(n)
      PROVE  RingInv'
  <2>1. TypeOK' /\ ProducerView' /\ ConsumerView'
    BY <1>0, <1>1 DEF WriteBegin, consumer, TypeOK, ProducerView, ConsumerView, WriteFits
  <2>2. CopiedFramesInPlace' /\ PublishedFramesIntact' /\ ReadsInOrder'
    BY <1>0, <1>1 DEF WriteBegin, consumer, TypeOK, CopiedFramesInPlace,
                      PublishedFramesIntact, ReadsInOrder, Unread, Index
  <2>3. QED
    BY <2>1, <2>2 DEF RingInv
<1>2. ASSUME NEW n \in 1..MaxBlock, WriteRefused(n)
      PROVE  RingInv'
  <2>1. TypeOK' /\ ProducerView' /\ ConsumerView'
    BY <1>0, <1>2 DEF WriteRefused, consumer, TypeOK, ProducerView, ConsumerView, WriteFits
  <2>2. CopiedFramesInPlace' /\ PublishedFramesIntact' /\ ReadsInOrder'
    BY <1>0, <1>2 DEF WriteRefused, consumer, CopiedFramesInPlace,
                      PublishedFramesIntact, ReadsInOrder, Unread, Index
  <2>3. QED
    BY <2>1, <2>2 DEF RingInv
<1>3. CASE CopyIntoRing
  <2> DEFINE p == writeCursor + wCopied
  <2>1. /\ p \in Nat
        /\ slot' = [slot EXCEPT ![Index(p)] = base + p]
        /\ p >= readCursor /\ p - readCursor < Capacity
    <3>1. slot' = [slot EXCEPT ![Index(p)] = base + p]
      <4>1. base + writeCursor + wCopied = base + p
        BY <1>0 DEF TypeOK
      <4>2. slot' = [slot EXCEPT ![Index(p)] = base + writeCursor + wCopied]
        BY <1>3 DEF CopyIntoRing
      <4>3. QED
        BY <4>1, <4>2
    <3>2. p \in Nat /\ p >= readCursor /\ p - readCursor < Capacity
      BY <1>0, <1>3 DEF CopyIntoRing, TypeOK, ProducerView, WriteFits
    <3>3. QED
      BY <3>1, <3>2
  <2>2. /\ slot'[Index(p)] = base + p
        /\ \A q \in Nat : q < p /\ p - q < Capacity => slot'[Index(q)] = slot[Index(q)]
    <3>1. slot \in [0..(Capacity - 1) -> Int]
      BY <1>0 DEF TypeOK
    <3> HIDE DEF p
    <3>2. Index(p) \in 0..(Capacity - 1)
      BY <2>1, IndexInRange
    <3>3. ASSUME NEW q \in Nat, q < p, p - q < Capacity
          PROVE  slot'[Index(q)] = slot[Index(q)]
      <4>1. Index(q) # Index(p) /\ Index(q) \in 0..(Capacity - 1)
        BY <2>1, <3>3, IndexInjective, IndexInRange
      <4>2. QED
        BY <2>1, <3>1, <3>2, <4>1
    <3>4. QED
      BY <2>1, <3>1, <3>2, <3>3
  <2>3. TypeOK'
    <3>1. Index(p) \in 0..(Capacity - 1)
      BY <2>1, IndexInRange
    <3>2. slot' \in [0..(Capacity - 1) -> Int]
      BY <1>0, <2>1, <3>1 DEF TypeOK
    <3>3. QED
      BY <1>0, <1>3, <3>2 DEF CopyIntoRing, consumer, TypeOK
  <2>4. ProducerView' /\ ConsumerView'
    BY <1>0, <1>3 DEF CopyIntoRing, consumer, TypeOK, ProducerView, ConsumerView, WriteFits
  <2>5. CopiedFramesInPlace'
    <3> SUFFICES ASSUME NEW q \in writeCursor..(writeCursor + (wCopied + 1) - 1)
                 PROVE  slot'[Index(q)] = base + q
      BY <1>3 DEF CopyIntoRing, CopiedFramesInPlace, Index
    <3>0. q \in writeCursor..p
      BY <1>0 DEF TypeOK
    <3>1. CASE q = p
      BY <2>2, <3>1
    <3>2. CASE q # p
      <4>1. /\ q \in Nat /\ q < p /\ p - q < Capacity
            /\ q \in writeCursor..(writeCursor + wCopied - 1)
        BY <1>0, <2>1, <3>0, <3>2 DEF TypeOK
      <4>2. slot[Index(q)] = base + q
        BY <1>0, <1>3, <4>1 DEF CopiedFramesInPlace, CopyIntoRing
      <4>3. QED
        BY <2>2, <4>1, <4>2
    <3>3. QED
      BY <3>1, <3>2
  <2>6. PublishedFramesIntact'
    <3> SUFFICES ASSUME NEW q \in Unread
                 PROVE  slot'[Index(q)] = base + q
      BY <1>3 DEF CopyIntoRing, PublishedFramesIntact, Unread, Index
    <3>1. q \in Nat /\ q < p /\ p - q < Capacity
      BY <1>0, <2>1 DEF TypeOK, Unread
    <3>2. QED
      BY <1>0, <2>2, <3>1 DEF PublishedFramesIntact
  <2>7. ReadsInOrder'
    BY <1>0, <1>3 DEF CopyIntoRing, consumer, ReadsInOrder
  <2>8. QED
    BY <2>3, <2>4, <2>5, <2>6, <2>7 DEF RingInv
<1>4. CASE WritePublish
  <2>0. writeCursor + wFrames - readCursor \in 0..Capacity
    BY <1>0, <1>4 DEF WritePublish, TypeOK, ProducerView, WriteFits
  <2>1. TypeOK' /\ ProducerView'
    <3>0. writing' \in BOOLEAN /\ writeCursor' \in Nat
      <4>1. writing' \in BOOLEAN
        BY <1>4 DEF WritePublish
      <4>2. writeCursor' \in Nat
        BY <1>0, <1>4 DEF WritePublish, TypeOK
      <4>3. QED
        BY <4>1, <4>2
    <3>1. TypeOK'
      BY <1>0, <1>4, <2>0, <3>0 DEF WritePublish, consumer, TypeOK
    <3>2. ProducerView'
      BY <1>0, <1>4 DEF WritePublish, ProducerView
    <3>3. QED
      BY <3>1, <3>2
  <2>2. ConsumerView'
    BY <1>0, <1>4 DEF WritePublish, consumer, TypeOK, ConsumerView
  <2>3. CopiedFramesInPlace' /\ ReadsInOrder'
    BY <1>0, <1>4 DEF WritePublish, consumer, CopiedFramesInPlace, ReadsInOrder
  <2>4. PublishedFramesIntact'
    <3>0. /\ Unread' = readCursor..(writeCursor + wFrames - 1)
          /\ slot' = slot /\ base' = base
      BY <1>0, <1>4 DEF WritePublish, TypeOK, Unread
    <3> SUFFICES ASSUME NEW q \in readCursor..(writeCursor + wFrames - 1)
                 PROVE  slot[Index(q)] = base + q
      BY <3>0 DEF PublishedFramesIntact, Index
    <3>1. q \in Unread \/ q \in writeCursor..(writeCursor + wCopied - 1)
      BY <1>0, <1>4 DEF WritePublish, CopyDone, TypeOK, Unread
    <3>2. QED
      BY <1>0, <1>4, <3>1 DEF WritePublish, CopiedFramesInPlace, PublishedFramesIntact
  <2>5. QED
    BY <2>1, <2>2, <2>3, <2>4 DEF RingInv
<1>5. ASSUME NEW n \in 1..MaxBlock, ReadBegin(n)
      PROVE  RingInv'
  <2>1. TypeOK' /\ ProducerView' /\ ConsumerView'
    BY <1>0, <1>5 DEF ReadBegin, FramesToRead, producer, TypeOK, ProducerView,
                      ConsumerView, WriteFits
  <2>2. CopiedFramesInPlace' /\ PublishedFramesIntact'
    BY <1>0, <1>5 DEF ReadBegin, producer, CopiedFramesInPlace,
                      PublishedFramesIntact, Unread, Index
  <2>3. ReadsInOrder'
    BY <1>5 DEF ReadBegin, ReadsInOrder
  <2>4. QED
    BY <2>1, <2>2, <2>3 DEF RingInv
<1>6. CASE CopyFromRing
  <2> DEFINE p == readCursor + Len(got)
  <2>1. Len(got) \in Nat /\ p \in Unread
    BY <1>0, <1>6 DEF CopyFromRing, TypeOK, ConsumerView, Unread
  <2>2. got' = Append(got, base + p)
    BY <1>0, <1>6, <2>1 DEF CopyFromRing, PublishedFramesIntact
  <2>3. /\ got' \in Seq(Int) /\ Len(got') = Len(got) + 1
        /\ \A i \in 1..Len(got') :
              got'[i] = IF i <= Len(got) THEN got[i] ELSE base + p
    <3>1. got \in Seq(Int) /\ base + p \in Int
      BY <1>0, <2>1 DEF TypeOK
    <3> HIDE DEF p
    <3>2. QED
      BY <2>2, <3>1
  <2>4. TypeOK' /\ ProducerView' /\ ConsumerView'
    BY <1>0, <1>6, <2>1, <2>3 DEF CopyFromRing, producer, TypeOK, ProducerView,
                                  ConsumerView, WriteFits
  <2>5. CopiedFramesInPlace' /\ PublishedFramesIntact'
    BY <1>0, <1>6 DEF CopyFromRing, producer, CopiedFramesInPlace,
                      PublishedFramesIntact, Unread, Index
  <2>6. ReadsInOrder'
    <3> SUFFICES ASSUME NEW i \in 1..Len(got')
                 PROVE  got'[i] = base + readCursor + i - 1
      BY <1>6 DEF CopyFromRing, ReadsInOrder
    <3>1. CASE i <= Len(got)
      BY <1>0, <1>6, <2>1, <2>3, <3>1 DEF CopyFromRing, ReadsInOrder
    <3>2. CASE i = Len(got) + 1
      <4>1. got'[i] = base + p
        BY <2>1, <2>3, <3>2
      <4>2. base + p = base + readCursor + i - 1
        BY <1>0, <2>1, <3>2 DEF TypeOK
      <4>3. QED
        BY <4>1, <4>2
    <3>3. QED
      BY <2>1, <2>3, <3>1, <3>2
  <2>7. QED
    BY <2>4, <2>5, <2>6 DEF RingInv
<1>7. CASE ReadPublish
  <2>0. /\ readCursor + rFrames \in Nat
        /\ writeCursor - (readCursor + rFrames) \in 0..Capacity
        /\ readCursor + rFrames <= rSeen
    BY <1>0, <1>7 DEF ReadPublish, TypeOK, ConsumerView
  <2>1. TypeOK'
    <3>1. underruns' \in Nat
      BY <1>0, <1>7 DEF ReadPublish, TypeOK
    <3>2. QED
      BY <1>0, <1>7, <2>0, <3>1 DEF ReadPublish, FramesConsumed, producer, TypeOK
  <2>2. ProducerView' /\ ConsumerView'
    BY <1>0, <1>7, <2>0 DEF ReadPublish, FramesConsumed, producer, TypeOK,
                            ProducerView, ConsumerView, WriteFits
  <2>3. CopiedFramesInPlace' /\ ReadsInOrder'
    BY <1>0, <1>7 DEF ReadPublish, producer, CopiedFramesInPlace, ReadsInOrder, Index
  <2>4. PublishedFramesIntact'
    <3> SUFFICES ASSUME NEW q \in (readCursor + rFrames)..(writeCursor - 1)
                 PROVE  slot[Index(q)] = base + q
      BY <1>7 DEF ReadPublish, FramesConsumed, PublishedFramesIntact, Unread, Index
    <3>1. q \in Unread
      BY <1>0 DEF TypeOK, Unread
    <3>2. QED
      BY <1>0, <3>1 DEF PublishedFramesIntact
  <2>5. QED
    BY <2>1, <2>2, <2>3, <2>4 DEF RingInv
<1>8. CASE Clear
  <2>1. TypeOK' /\ ProducerView' /\ ConsumerView'
    BY <1>0, <1>8 DEF Clear, TypeOK, ProducerView, ConsumerView
  <2>2. CopiedFramesInPlace' /\ ReadsInOrder'
    BY <1>8 DEF Clear, CopiedFramesInPlace, ReadsInOrder
  <2>3. Unread' = {}
    BY <1>8 DEF Clear, Unread
  <2>4. PublishedFramesIntact'
    BY <2>3 DEF PublishedFramesIntact
  <2>5. QED
    BY <2>1, <2>2, <2>4 DEF RingInv
<1>9. CASE UNCHANGED vars
  <2>1. TypeOK' /\ ProducerView' /\ ConsumerView'
    BY <1>0, <1>9 DEF vars, producer, consumer, TypeOK, ProducerView,
                      ConsumerView, WriteFits
  <2>2. CopiedFramesInPlace' /\ PublishedFramesIntact' /\ ReadsInOrder'
    BY <1>0, <1>9 DEF vars, producer, consumer, CopiedFramesInPlace,
                      PublishedFramesIntact, ReadsInOrder, Unread, Index
  <2>3. QED
    BY <2>1, <2>2 DEF RingInv
<1>10. QED
  BY <1>1, <1>2, <1>3, <1>4, <1>5, <1>6, <1>7, <1>8, <1>9 DEF Next, Produce, Consume

(* The ring's arithmetic, both sides' views, the unread audio and the      *)
(* reads in progress stay correct whatever the two threads and the control *)
(* thread do, for every capacity.                                          *)
THEOREM RingCorrect == Spec => []RingInv
BY RingInvInit, RingInvStep, PTL DEF Spec

(* Each property the runs check follows from the inductive invariant. *)
THEOREM TypeCorrect == Spec => []TypeOK
<1>1. RingInv => TypeOK
  BY DEF RingInv
<1>2. QED
  BY <1>1, RingCorrect, PTL

(* No frame is lost from or corrupted in the ring after it was published. *)
THEOREM Intact == Spec => []PublishedFramesIntact
<1>1. RingInv => PublishedFramesIntact
  BY DEF RingInv
<1>2. QED
  BY <1>1, RingCorrect, PTL

(* The consumer only ever copies the oldest unread frames, in order. *)
THEOREM InOrder == Spec => []ReadsInOrder
<1>1. RingInv => ReadsInOrder
  BY DEF RingInv
<1>2. QED
  BY <1>1, RingCorrect, PTL

(* The two memcpy calls never touch the same sample. *)
THEOREM DataRaceFree == Spec => []NoSharedSlot
<1>1. RingInv => NoSharedSlot
  <2> SUFFICES ASSUME RingInv, writing,
                      NEW w \in BeingWritten, NEW r \in Unread
               PROVE  Index(w) # Index(r)
    BY DEF NoSharedSlot
  <2>1. w \in Nat /\ r \in Nat /\ r < w /\ w - r < Capacity
    BY CapacityAssumption DEF RingInv, TypeOK, ProducerView, WriteFits,
                              BeingWritten, Unread
  <2>2. QED
    BY <2>1, IndexInjective
<1>2. QED
  BY <1>1, RingCorrect, PTL

-----------------------------------------------------------------------------
(* Runs of consecutive frames are sequences of frames. *)
LEMMA BlockIsSeq ==
    ASSUME NEW a \in Int, NEW n \in Nat
    PROVE  /\ Fifo!Block(a, n) \in Seq(Int)
           /\ Len(Fifo!Block(a, n)) = n
           /\ \A i \in 1..n : Fifo!Block(a, n)[i] = a + i - 1
BY DEF Fifo!Block

(* Two runs that meet are one run. *)
LEMMA BlockConcat ==
    ASSUME NEW a \in Int, NEW m \in Nat, NEW n \in Nat
    PROVE  Fifo!Block(a, m) \o Fifo!Block(a + m, n) = Fifo!Block(a, m + n)
<1> DEFINE s == Fifo!Block(a, m)
           t == Fifo!Block(a + m, n)
           r == Fifo!Block(a, m + n)
<1>1. /\ s \in Seq(Int) /\ Len(s) = m /\ \A i \in 1..m : s[i] = a + i - 1
      /\ t \in Seq(Int) /\ Len(t) = n /\ \A i \in 1..n : t[i] = a + m + i - 1
      /\ r \in Seq(Int) /\ Len(r) = m + n /\ \A i \in 1..(m + n) : r[i] = a + i - 1
  BY BlockIsSeq
<1> HIDE DEF s, t, r
<1>2. /\ s \o t \in Seq(Int) /\ Len(s \o t) = m + n
      /\ \A i \in 1..(m + n) : (s \o t)[i] = IF i <= m THEN s[i] ELSE t[i - m]
  BY <1>1, ConcatProperties
<1>3. ASSUME NEW i \in 1..(m + n)
      PROVE  (s \o t)[i] = r[i]
  <2>1. CASE i <= m
    BY <1>1, <1>2, <2>1
  <2>2. CASE ~(i <= m)
    <3>1. i - m \in 1..n /\ t[i - m] = a + m + (i - m) - 1
      BY <1>1, <2>2
    <3>2. QED
      BY <1>1, <1>2, <2>2, <3>1
  <2>3. QED
    BY <2>1, <2>2
<1>4. s \o t = r
  BY <1>1, <1>2, <1>3, SeqEqual
<1>5. QED
  BY <1>4 DEF s, t, r

(* A run may be cut at any frame. *)
LEMMA BlockSplit ==
    ASSUME NEW a \in Int, NEW n \in Nat, NEW k \in 0..n
    PROVE  /\ SubSeq(Fifo!Block(a, n), 1, k) = Fifo!Block(a, k)
           /\ SubSeq(Fifo!Block(a, n), k + 1, n) = Fifo!Block(a + k, n - k)
BY DEF Fifo!Block

(* Under the invariant the ring's unread part is a run of consecutive frames. *)
LEMMA QueueIsBlock ==
    RingInv => Queue = Fifo!Block(base + readCursor, writeCursor - readCursor)
<1> SUFFICES ASSUME RingInv
             PROVE  Queue = Fifo!Block(base + readCursor, writeCursor - readCursor)
  OBVIOUS
<1>1. ASSUME NEW i \in 1..(writeCursor - readCursor)
      PROVE  slot[Index(readCursor + i - 1)] = base + readCursor + i - 1
  <2>1. readCursor + i - 1 \in Unread
    BY DEF RingInv, TypeOK, Unread
  <2>2. slot[Index(readCursor + i - 1)] = base + (readCursor + i - 1)
    BY <2>1 DEF RingInv, PublishedFramesIntact
  <2>3. QED
    BY <2>2 DEF RingInv, TypeOK
<1>2. QED
  BY <1>1 DEF Queue, Fifo!Block

(* The empty ring is the empty queue. *)
LEMMA FifoInit == Init => Fifo!Init
BY DEF Init, Fifo!Init, Queue

(* Every step of the ring is a step of the queue, or leaves it alone. *)
LEMMA FifoStep == RingInv /\ RingInv' /\ [Next]_vars => [Fifo!Next]_Fifo!vars
<1> SUFFICES ASSUME RingInv, RingInv', [Next]_vars
             PROVE  [Fifo!Next]_Fifo!vars
  OBVIOUS
<1> USE CapacityAssumption, BoundAssumption
<1> DEFINE used == writeCursor - readCursor
<1>1. /\ TypeOK /\ ProducerView /\ ConsumerView /\ ReadsInOrder
      /\ used \in 0..Capacity
      /\ base + readCursor \in Int /\ base + writeCursor = (base + readCursor) + used
  BY DEF RingInv, TypeOK
<1>2. /\ Queue = Fifo!Block(base + readCursor, used)
      /\ Queue' = Fifo!Block(base' + readCursor', writeCursor' - readCursor')
      /\ Len(Queue) = used
  <2>1. Queue = Fifo!Block(base + readCursor, used)
    BY QueueIsBlock
  <2>2. Queue' = Fifo!Block(base' + readCursor', writeCursor' - readCursor')
    <3>1. (Queue = Fifo!Block(base + readCursor, writeCursor - readCursor))'
      BY QueueIsBlock, PTL
    <3>2. QED
      BY <3>1 DEF Fifo!Block
  <2>3. Len(Queue) = used
    BY <1>1, <2>1, BlockIsSeq
  <2>4. QED
    BY <2>1, <2>2, <2>3
<1>3. ASSUME UNCHANGED <<writeCursor, readCursor, base, out>>
      PROVE  UNCHANGED Fifo!vars
  BY <1>2, <1>3 DEF Fifo!vars
<1>4. CASE WritePublish
  <2>1. wFrames \in 1..MaxBlock /\ wFrames \in Nat /\ used + wFrames <= Capacity
    BY <1>1, <1>4 DEF WritePublish, ProducerView, WriteFits, TypeOK
  <2>2. Queue' = Queue \o Fifo!Block(base + writeCursor, wFrames)
    <3>1. Queue' = Fifo!Block(base + readCursor, used + wFrames)
      BY <1>1, <1>2, <1>4 DEF WritePublish, TypeOK
    <3>2. Fifo!Block(base + readCursor, used) \o Fifo!Block((base + readCursor) + used, wFrames)
            = Fifo!Block(base + readCursor, used + wFrames)
      <4> DEFINE first == base + readCursor
      <4>1. first \in Int /\ used \in Nat /\ wFrames \in Nat
        BY <1>1, <2>1
      <4> HIDE DEF first, used
      <4>2. QED
        BY <4>1, BlockConcat DEF first
    <3>3. QED
      BY <1>1, <1>2, <3>1, <3>2
  <2>3. (base + writeCursor)' = base + writeCursor + wFrames /\ out' = out
    BY <1>1, <1>4 DEF WritePublish, TypeOK
  <2>4. Fifo!Accept(wFrames)
    BY <1>2, <2>1, <2>2, <2>3 DEF Fifo!Accept
  <2>5. QED
    BY <2>1, <2>4 DEF Fifo!Next
<1>5. CASE ReadPublish
  <2>1. rFrames \in 0..MaxBlock /\ rFrames \in 0..used
    BY <1>1, <1>5 DEF ReadPublish, ConsumerView, TypeOK
  <2>2. out' = Fifo!Block(base + readCursor, rFrames)
    <3>1. /\ got \in Seq(Int) /\ Len(got) = rFrames
          /\ \A i \in 1..rFrames : got[i] = base + readCursor + i - 1
      BY <1>1, <1>5 DEF ReadPublish, ReadsInOrder, TypeOK
    <3>2. got = Fifo!Block(base + readCursor, rFrames)
      <4> DEFINE b == Fifo!Block(base + readCursor, rFrames)
      <4>1. /\ b \in Seq(Int) /\ Len(b) = rFrames
            /\ \A i \in 1..rFrames : b[i] = base + readCursor + i - 1
        <5> DEFINE first == base + readCursor
        <5>1. first \in Int /\ rFrames \in Nat
          BY <1>1, <2>1
        <5> HIDE DEF first
        <5>2. QED
          BY <5>1, BlockIsSeq DEF first
      <4> HIDE DEF b
      <4>2. got = b
        BY <3>1, <4>1, SeqEqual
      <4>3. QED
        BY <4>2 DEF b
    <3>3. QED
      BY <1>5, <3>2 DEF ReadPublish
  <2>3. Queue' = Fifo!Block((base + readCursor) + rFrames, used - rFrames)
    <3>1. /\ readCursor' = readCursor + rFrames
          /\ writeCursor' = writeCursor /\ base' = base
      BY <1>5 DEF ReadPublish, FramesConsumed
    <3>2. /\ base + (readCursor + rFrames) = (base + readCursor) + rFrames
          /\ writeCursor - (readCursor + rFrames) = used - rFrames
      BY <1>1, <2>1 DEF TypeOK
    <3>3. QED
      BY <1>2, <3>1, <3>2
  <2>4. /\ out' = SubSeq(Queue, 1, rFrames)
        /\ Queue' = SubSeq(Queue, rFrames + 1, Len(Queue))
    <3> DEFINE first == base + readCursor
    <3>1. first \in Int /\ used \in Nat /\ rFrames \in 0..used
      BY <1>1, <2>1
    <3>2. /\ Queue = Fifo!Block(first, used) /\ Len(Queue) = used
          /\ out' = Fifo!Block(first, rFrames)
          /\ Queue' = Fifo!Block(first + rFrames, used - rFrames)
      BY <1>2, <2>2, <2>3
    <3> HIDE DEF first, used
    <3>3. /\ SubSeq(Fifo!Block(first, used), 1, rFrames) = Fifo!Block(first, rFrames)
          /\ SubSeq(Fifo!Block(first, used), rFrames + 1, used)
               = Fifo!Block(first + rFrames, used - rFrames)
      BY <3>1, BlockSplit
    <3>4. QED
      BY <3>2, <3>3
  <2>5. (base + writeCursor)' = base + writeCursor
    BY <1>5 DEF ReadPublish
  <2>6. Fifo!Deliver(rFrames)
    BY <1>2, <2>1, <2>4, <2>5 DEF Fifo!Deliver
  <2>7. QED
    BY <2>1, <2>6 DEF Fifo!Next
<1>6. CASE Clear
  <2>1. Queue' = << >>
    BY <1>2, <1>6 DEF Clear, Fifo!Block
  <2>2. (base + writeCursor)' = base + writeCursor /\ out' = out
    BY <1>1, <1>6 DEF Clear, TypeOK
  <2>3. QED
    BY <2>1, <2>2 DEF Fifo!Next, Fifo!Discard
<1>7. ASSUME NEW n \in 1..MaxBlock, WriteBegin(n) \/ WriteRefused(n) \/ ReadBegin(n)
      PROVE  UNCHANGED <<writeCursor, readCursor, base, out>>
  BY <1>7 DEF WriteBegin, WriteRefused, ReadBegin
<1>8. ASSUME CopyIntoRing \/ CopyFromRing \/ UNCHANGED vars
      PROVE  UNCHANGED <<writeCursor, readCursor, base, out>>
  BY <1>8 DEF CopyIntoRing, CopyFromRing, vars
<1>9. QED
  BY <1>3, <1>4, <1>5, <1>6, <1>7, <1>8 DEF Next, Produce, Consume

(* The ring, with all its interleavings and stale cursor loads, implements *)
(* the atomic bounded FIFO its users are written against.                  *)
THEOREM RingImplementsFifo == Spec => ImplementsFifo
<1>1. Spec => Fifo!Spec
  BY FifoInit, FifoStep, RingCorrect, PTL DEF Spec, Fifo!Spec
<1>2. QED
  BY <1>1 DEF ImplementsFifo

-----------------------------------------------------------------------------
(* Part two: the recorder.                                                 *)

\* What the callbacks have put into a track's file and the ring behind it.
All(t) == file[t] \o ring[t]

\* Where the three threads can be at the same time.
ThreadsInv ==
  /\ recording => control = "idle" /\ worker \in {"top", "drain"}
  /\ control = "idle" /\ ~recording => worker = "none"
  /\ control = "opening" => ~recording /\ worker = "none" /\ Idle
  /\ control \in {"stopping", "joining"} => ~recording /\ worker # "none"
  /\ stopRequested /\ worker # "none" => control = "joining"
  /\ worker = "drain" /\ finishing => stopRequested
  /\ worker = "done" => control = "joining"
  /\ cbWriting => ~Idle /\ cbTrack \in selection
  /\ worker = "drain" => draining # 0
  /\ opening \in Tracks \union {TrackCount + 1} <=> control = "opening"

\* What is on the disk, and what start() has prepared of it.
DiskInv ==
  \A t \in Tracks :
    /\ header[t] <= Len(file[t])
    /\ opened[t] => frames[t] = Len(file[t]) /\ (control = "opening" => t < opening)
    /\ opened[t] => control = "opening" \/ worker # "none"
    /\ control = "opening" => file[t] = << >> /\ header[t] = 0
    /\ control = "opening" /\ t < opening => ring[t] = << >> /\ ~bad[t]
    /\ worker # "none" /\ bad[t] => failed
    /\ worker # "none" /\ ~opened[t] => file[t] = << >> /\ header[t] = 0
    /\ control = "idle" /\ worker = "none" /\ ~failed
         => header[t] = LeastOf(Len(file[t]), HeaderLimit)

\* Every track of a whole take began with callback f and has lost none since; those
\* that the callback has yet to come to are one block behind.
Since(f) ==
  \A t \in Tracks :
    /\ \A i \in 1..Len(All(t)) : All(t)[i] = f + i - 1
    /\ t \in selection /\ recording /\ (Idle \/ t < cbTrack)
         => Len(All(t)) = tick - f + 1
    /\ t \in selection /\ ~Idle /\ t >= cbTrack => Len(All(t)) = tick - f

TakeInv == Whole => \E f \in 0..(tick + 1) : Since(f)

RecorderInv == RecorderTypeOK /\ ThreadsInv /\ DiskInv /\ TakeInv

-----------------------------------------------------------------------------
(* Files and rings as sequences. *)

LEMMA AppendBehind ==
  ASSUME NEW f \in Seq(Nat), NEW r \in Seq(Nat), NEW x \in Nat
  PROVE  f \o Append(r, x) = Append(f \o r, x)
<1>1. Append(r, x) \in Seq(Nat) /\ f \o r \in Seq(Nat)
  BY AppendProperties, ConcatProperties
<1>2. f \o Append(r, x) \in Seq(Nat) /\ Append(f \o r, x) \in Seq(Nat)
  BY <1>1, AppendProperties, ConcatProperties
<1>3. Len(f \o Append(r, x)) = Len(f) + Len(r) + 1
  BY <1>1, AppendProperties, ConcatProperties, LenProperties
<1>4. Len(Append(f \o r, x)) = Len(f) + Len(r) + 1
  BY <1>1, AppendProperties, ConcatProperties, LenProperties
<1>5. \A i \in 1..(Len(f) + Len(r) + 1) : (f \o Append(r, x))[i] = Append(f \o r, x)[i]
  <2> SUFFICES ASSUME NEW i \in 1..(Len(f) + Len(r) + 1)
               PROVE  (f \o Append(r, x))[i] = Append(f \o r, x)[i]
    OBVIOUS
  <2>1. Len(f) \in Nat /\ Len(r) \in Nat
    BY LenProperties
  <2>2. CASE i <= Len(f)
    BY <1>1, <2>1, <2>2, AppendProperties, ConcatProperties
  <2>3. CASE Len(f) < i /\ i <= Len(f) + Len(r)
    BY <1>1, <2>1, <2>3, AppendProperties, ConcatProperties
  <2>4. CASE i = Len(f) + Len(r) + 1
    BY <1>1, <2>1, <2>4, AppendProperties, ConcatProperties
  <2> QED BY <2>1, <2>2, <2>3, <2>4
<1> QED BY <1>2, <1>3, <1>4, <1>5, SeqEqual

LEMMA TakenFromRing ==
  ASSUME NEW r \in Seq(Nat), NEW n \in 0..Len(r)
  PROVE  /\ SubSeq(r, 1, n) \in Seq(Nat) /\ Len(SubSeq(r, 1, n)) = n
         /\ \A i \in 1..n : SubSeq(r, 1, n)[i] = r[i]
         /\ SubSeq(r, n + 1, Len(r)) \in Seq(Nat)
         /\ Len(SubSeq(r, n + 1, Len(r))) = Len(r) - n
         /\ \A i \in 1..(Len(r) - n) : SubSeq(r, n + 1, Len(r))[i] = r[n + i]
<1>1. Len(r) \in Nat /\ n \in Nat /\ n <= Len(r) /\ \A i \in 1..Len(r) : r[i] \in Nat
  BY LenProperties, ElementOfSeq
<1>2. \A i \in 1..n : r[i] \in Nat
  BY <1>1
<1>3. \A i \in (n + 1)..Len(r) : r[i] \in Nat
  BY <1>1
<1>4. /\ SubSeq(r, 1, n) \in Seq(Nat)
      /\ Len(SubSeq(r, 1, n)) = IF 1 <= n THEN n - 1 + 1 ELSE 0
      /\ \A i \in 1..(n - 1 + 1) : SubSeq(r, 1, n)[i] = r[1 + i - 1]
  BY <1>1, <1>2, SubSeqProperties
<1>5. /\ SubSeq(r, n + 1, Len(r)) \in Seq(Nat)
      /\ Len(SubSeq(r, n + 1, Len(r))) = IF n + 1 <= Len(r) THEN Len(r) - (n + 1) + 1 ELSE 0
      /\ \A i \in 1..(Len(r) - (n + 1) + 1) :
            SubSeq(r, n + 1, Len(r))[i] = r[(n + 1) + i - 1]
  BY <1>1, <1>3, SubSeqProperties
<1>6. /\ Len(SubSeq(r, 1, n)) = n
      /\ \A i \in 1..n : SubSeq(r, 1, n)[i] = r[i]
  <2>1. n - 1 + 1 = n /\ \A i \in 1..n : 1 + i - 1 = i
    BY <1>1
  <2> QED BY <1>1, <1>4, <2>1
<1>7. /\ Len(SubSeq(r, n + 1, Len(r))) = Len(r) - n
      /\ \A i \in 1..(Len(r) - n) : SubSeq(r, n + 1, Len(r))[i] = r[n + i]
  <2>1. Len(r) - (n + 1) + 1 = Len(r) - n
    BY <1>1
  <2>2. Len(SubSeq(r, n + 1, Len(r))) = Len(r) - n
    BY <1>1, <1>5
  <2>3. ASSUME NEW i \in 1..(Len(r) - n) PROVE SubSeq(r, n + 1, Len(r))[i] = r[n + i]
    <3>1. (n + 1) + i - 1 = n + i
      BY <1>1
    <3> QED BY <1>5, <2>1, <3>1
  <2> QED BY <2>2, <2>3
<1> QED BY <1>4, <1>5, <1>6, <1>7

LEMMA MoveFromRing ==
  ASSUME NEW f \in Seq(Nat), NEW r \in Seq(Nat), NEW n \in 0..Len(r)
  PROVE  (f \o SubSeq(r, 1, n)) \o SubSeq(r, n + 1, Len(r)) = f \o r
<1> DEFINE a == SubSeq(r, 1, n)
           b == SubSeq(r, n + 1, Len(r))
<1>1. /\ a \in Seq(Nat) /\ Len(a) = n /\ \A i \in 1..n : a[i] = r[i]
      /\ b \in Seq(Nat) /\ Len(b) = Len(r) - n /\ \A i \in 1..(Len(r) - n) : b[i] = r[n + i]
  BY TakenFromRing
<1> HIDE DEF a, b
<1>2. Len(f) \in Nat /\ Len(r) \in Nat /\ n \in Nat /\ n <= Len(r)
  BY LenProperties
<1>3. f \o a \in Seq(Nat) /\ Len(f \o a) = Len(f) + n
  BY <1>1, ConcatProperties
<1>4. /\ (f \o a) \o b \in Seq(Nat) /\ f \o r \in Seq(Nat)
      /\ Len((f \o a) \o b) = Len(f) + Len(r) /\ Len(f \o r) = Len(f) + Len(r)
  <2>1. (f \o a) \o b \in Seq(Nat) /\ Len((f \o a) \o b) = Len(f \o a) + Len(b)
    BY <1>1, <1>3, ConcatProperties
  <2>2. f \o r \in Seq(Nat) /\ Len(f \o r) = Len(f) + Len(r)
    BY ConcatProperties
  <2> QED BY <1>1, <1>2, <1>3, <2>1, <2>2
<1>5. ASSUME NEW i \in 1..(Len(f) + Len(r)) PROVE ((f \o a) \o b)[i] = (f \o r)[i]
  <2>1. CASE i <= Len(f)
    BY <1>1, <1>2, <1>3, <2>1, ConcatProperties
  <2>2. CASE Len(f) < i /\ i <= Len(f) + n
    BY <1>1, <1>2, <1>3, <2>2, ConcatProperties
  <2>3. CASE Len(f) + n < i
    <3>1. ((f \o a) \o b)[i] = b[i - (Len(f) + n)]
      <4>1. i \in 1..(Len(f \o a) + Len(b)) /\ ~(i <= Len(f \o a))
        BY <1>1, <1>2, <1>3, <2>3
      <4> DEFINE g == f \o a
      <4> HIDE DEF g
      <4>2. \A j \in 1..(Len(g) + Len(b)) :
               (g \o b)[j] = IF j <= Len(g) THEN g[j] ELSE b[j - Len(g)]
        <5>1. g \in Seq(Nat)
          BY <1>3 DEF g
        <5> QED BY <1>1, <5>1, ConcatProperties
      <4> QED BY <1>3, <4>1, <4>2 DEF g
    <3>2. i - (Len(f) + n) \in 1..(Len(r) - n) /\ n + (i - (Len(f) + n)) = i - Len(f)
      BY <1>2, <2>3
    <3>3. (f \o r)[i] = r[i - Len(f)]
      BY <1>2, <2>3, ConcatProperties
    <3>4. b[i - (Len(f) + n)] = r[i - Len(f)]
      BY <1>1, <3>2
    <3> QED BY <3>1, <3>3, <3>4
  <2>4. i <= Len(f) \/ (Len(f) < i /\ i <= Len(f) + n) \/ Len(f) + n < i
    BY <1>2
  <2> QED BY <2>1, <2>2, <2>3, <2>4
<1>6. (f \o a) \o b = f \o r
  BY <1>4, <1>5, SeqEqual
<1> QED BY <1>6 DEF a, b

-----------------------------------------------------------------------------
LEMMA RecorderInitially == RecorderInit => RecorderInv
<1> SUFFICES ASSUME RecorderInit PROVE RecorderInv
  OBVIOUS
<1> USE RecorderShape, RecorderBounds DEF RecorderInit
<1>1. << >> \in Seq(Nat) /\ Len(<< >>) = 0
  BY EmptySeq
<1>2. RecorderTypeOK
  <2>1. ring \in [Tracks -> Seq(Nat)] /\ \A t \in Tracks : Len(ring[t]) <= RingBlocks
    BY <1>1
  <2>2. /\ opened \in [Tracks -> BOOLEAN] /\ bad \in [Tracks -> BOOLEAN]
        /\ frames \in [Tracks -> Nat]
        /\ file \in [Tracks -> Seq(Nat)] /\ header \in [Tracks -> Nat]
    BY <1>1
  <2>3. 0 \in 0..(TrackCount + 1) /\ 0 \in 0..TrackCount
    OBVIOUS
  <2> QED BY <2>1, <2>2, <2>3 DEF RecorderTypeOK, NoTrack
<1>3. ThreadsInv
  BY DEF ThreadsInv, Idle, NoTrack, Tracks
<1>4. DiskInv
  BY <1>1 DEF DiskInv, LeastOf
<1>5. Since(1)
  <2> SUFFICES ASSUME NEW t \in Tracks PROVE Len(All(t)) = 0
    BY DEF Since, Idle, NoTrack
  <2> QED BY <1>1, ConcatProperties DEF All
<1>6. TakeInv
  BY <1>5 DEF TakeInv
<1> QED BY <1>2, <1>3, <1>4, <1>6 DEF RecorderInv

LEMMA TrackNumbers == /\ NoTrack \notin Tracks /\ 1 \in Tracks /\ TrackCount \in Tracks
                      /\ \A t \in Tracks : t \in Nat /\ t # 0 /\ t <= TrackCount
                      /\ \A n \in 1..TrackCount : n \in Tracks
                      /\ {0, 1} \subseteq 0..(TrackCount + 1)
                      /\ \A t \in Tracks : t + 1 \in 0..(TrackCount + 1)
                      /\ NoTrack = 0
BY RecorderShape DEF NoTrack, Tracks

\* A track of a take, when neither its callbacks nor what they left have changed.
LEMMA SinceKept ==
  ASSUME NEW f \in Nat, Since(f), UNCHANGED <<tick, cbTrack>>,
         \A t \in Tracks : All(t)' = All(t),
         \/ UNCHANGED <<recording, selection>>
         \/ ~recording' /\ UNCHANGED selection
         \/ ~recording' /\ Idle
  PROVE  Since(f)'
BY DEF Since, Idle, All

LEMMA TakeKept ==
  ASSUME TakeInv, Whole' => Whole, tick \in Nat, UNCHANGED <<tick, cbTrack>>,
         \A t \in Tracks : All(t)' = All(t),
         \/ UNCHANGED <<recording, selection>>
         \/ ~recording' /\ UNCHANGED selection
         \/ ~recording' /\ Idle
  PROVE  TakeInv'
<1> SUFFICES ASSUME Whole' PROVE \E f \in 0..(tick + 1) : Since(f)'
  BY DEF TakeInv
<1>1. PICK f \in 0..(tick + 1) : Since(f)
  BY DEF TakeInv
<1> QED BY <1>1, SinceKept

\* refreshSizes() tells what is in the files, and no more than a header can.
LEMMA RefreshedHeader ==
  ASSUME RecorderTypeOK, DiskInv
  PROVE  /\ Refreshed \in [Tracks -> Nat]
         /\ \A t \in Tracks :
              /\ Refreshed[t] <= Len(file[t])
              /\ Refreshed[t] = IF opened[t] /\ ~bad[t] THEN LeastOf(Len(file[t]), HeaderLimit)
                                                        ELSE header[t]
<1>1. \A t \in Tracks : Len(file[t]) \in Nat /\ header[t] \in Nat /\ frames[t] \in Nat
  BY LenProperties DEF RecorderTypeOK
<1> QED BY <1>1, RecorderShape DEF Refreshed, Sizes, LeastOf, DiskInv, RecorderTypeOK

\* start(), which only runs while no callback does.
LEMMA StartStep == ASSUME RecorderInv, Start PROVE RecorderInv'
<1>0. RecorderTypeOK /\ ThreadsInv /\ DiskInv /\ TakeInv /\ tick \in Nat
  BY DEF RecorderInv, RecorderTypeOK
<1> USE RecorderShape, TrackNumbers
    DEF atomics, disk, controlVars, workerVars, callbackVars, NoStraggler
<1>1. ASSUME NEW chosen \in SUBSET Tracks, NEW noDirectory \in BOOLEAN,
             StartRefused(chosen, noDirectory)
      PROVE  RecorderInv'
  <2> USE <1>0, <1>1 DEF StartRefused
  <2>1. RecorderTypeOK'
    BY DEF RecorderTypeOK
  <2>2. ThreadsInv'
    BY DEF ThreadsInv, Idle
  <2>3. DiskInv'
    BY DEF DiskInv
  <2>4. TakeInv'
    BY TakeKept DEF Whole, All
  <2> QED BY <2>1, <2>2, <2>3, <2>4 DEF RecorderInv
<1>2. ASSUME NEW chosen \in SUBSET Tracks, StartBegin(chosen)
      PROVE  RecorderInv'
  <2> USE <1>0, <1>2 DEF StartBegin
  <2>1. RecorderTypeOK'
    BY EmptySeq DEF RecorderTypeOK
  <2>2. ThreadsInv'
    BY DEF ThreadsInv, Idle
  <2>3. DiskInv'
    BY EmptySeq DEF DiskInv, ThreadsInv
  <2>4. TakeInv'
    BY DEF TakeInv, Whole
  <2> QED BY <2>1, <2>2, <2>3, <2>4 DEF RecorderInv
<1>3. CASE OpenTrack
  <2> USE <1>0, <1>3 DEF OpenTrack
  <2>1. RecorderTypeOK'
    <3>1. ring' \in [Tracks -> Seq(Nat)] /\ \A t \in Tracks : Len(ring'[t]) <= RingBlocks
      BY EmptySeq DEF RecorderTypeOK
    <3>2. opened' \in [Tracks -> BOOLEAN] /\ bad' \in [Tracks -> BOOLEAN]
      BY DEF RecorderTypeOK
    <3>3. frames' \in [Tracks -> Nat] /\ opening' \in 0..(TrackCount + 1)
      BY DEF RecorderTypeOK, FramesAtStart, Tracks
    <3> QED BY <3>1, <3>2, <3>3 DEF RecorderTypeOK
  <2>2. ThreadsInv'
    BY DEF ThreadsInv, Idle, RecorderTypeOK, Tracks
  <2>3. DiskInv'
    BY EmptySeq DEF DiskInv, RecorderTypeOK, ThreadsInv, FramesAtStart
  <2>4. TakeInv'
    BY DEF TakeInv, Whole
  <2> QED BY <2>1, <2>2, <2>3, <2>4 DEF RecorderInv
<1>4. CASE OpenTrackFails
  <2> USE <1>0, <1>4 DEF OpenTrackFails
  <2>1. RecorderTypeOK'
    <3>1. ring' \in [Tracks -> Seq(Nat)] /\ \A t \in Tracks : Len(ring'[t]) <= RingBlocks
      BY EmptySeq DEF RecorderTypeOK
    <3>2. opened' \in [Tracks -> BOOLEAN] /\ bad' \in [Tracks -> BOOLEAN]
      BY DEF RecorderTypeOK
    <3>3. frames' \in [Tracks -> Nat] /\ header' \in [Tracks -> Nat]
      BY RefreshedHeader DEF RecorderTypeOK, FramesAtStart
    <3>4. /\ failed' \in BOOLEAN /\ opening' \in 0..(TrackCount + 1) /\ control' = "idle"
          /\ UNCHANGED <<recording, stopRequested, dropped, file, takes, selection, worker,
                         finishing, draining, framesWritten, tick, cbTrack, cbWriting>>
      OBVIOUS
    <3> QED BY <3>1, <3>2, <3>3, <3>4 DEF RecorderTypeOK
  <2>2. ThreadsInv'
    BY DEF ThreadsInv, Idle, RecorderTypeOK, Tracks
  <2>3. DiskInv'
    BY RefreshedHeader DEF DiskInv, RecorderTypeOK, ThreadsInv
  <2>4. TakeInv'
    BY DEF TakeInv, Whole
  <2> QED BY <2>1, <2>2, <2>3, <2>4 DEF RecorderInv
<1>5. CASE StartRun
  <2> USE <1>0, <1>5 DEF StartRun
  <2>1. RecorderTypeOK'
    <3>1. recording' \in BOOLEAN /\ stopRequested' \in BOOLEAN /\ failed' \in BOOLEAN
      OBVIOUS
    <3>2. dropped' \in Nat /\ framesWritten' \in Nat
      OBVIOUS
    <3>3. opening' \in 0..(TrackCount + 1) /\ control' = "idle" /\ worker' = "top"
      OBVIOUS
    <3>4. /\ ring' \in [Tracks -> Seq(Nat)] /\ \A t \in Tracks : Len(ring'[t]) <= RingBlocks
          /\ opened' \in [Tracks -> BOOLEAN] /\ bad' \in [Tracks -> BOOLEAN]
          /\ frames' \in [Tracks -> Nat]
          /\ file' \in [Tracks -> Seq(Nat)] /\ header' \in [Tracks -> Nat]
      BY DEF RecorderTypeOK
    <3>5. /\ selection' \in SUBSET Tracks /\ takes' \in Nat /\ finishing' \in BOOLEAN
          /\ draining' \in 0..(TrackCount + 1)
          /\ tick' \in Nat /\ cbTrack' \in 0..TrackCount /\ cbWriting' \in BOOLEAN
      BY DEF RecorderTypeOK
    <3> QED BY <3>1, <3>2, <3>3, <3>4, <3>5 DEF RecorderTypeOK
  <2>2. ThreadsInv'
    <3>1. NoTrack \notin Tracks \union {TrackCount + 1}
      BY DEF NoTrack
    <3>2. Idle /\ ~cbWriting /\ ~recording /\ UNCHANGED <<cbTrack, cbWriting>>
      BY DEF ThreadsInv
    <3> QED BY <3>1, <3>2 DEF ThreadsInv, Idle
  <2>3. DiskInv'
    BY DEF DiskInv, ThreadsInv
  <2>4. TakeInv'
    <3>1. \A t \in Tracks : t < opening
      OBVIOUS
    <3>a. \A t \in Tracks : file'[t] = << >> /\ ring'[t] = << >>
      BY <3>1 DEF DiskInv
    <3>b. << >> \o << >> = << >>
      BY EmptySeq, ConcatEmptySeq
    <3>2. \A t \in Tracks : Len(All(t)') = 0
      BY <3>a, <3>b, EmptySeq DEF All
    <3>3. Idle' /\ tick' = tick
      BY DEF ThreadsInv, Idle
    <3>4. Since(tick + 1)'
      BY <3>2, <3>3 DEF Since, Idle
    <3> QED BY <3>3, <3>4 DEF TakeInv
  <2> QED BY <2>1, <2>2, <2>3, <2>4 DEF RecorderInv
<1> QED BY <1>1, <1>2, <1>3, <1>4, <1>5 DEF Start

\* stop(): its files are closed once the worker is done.
LEMMA StopStep == ASSUME RecorderInv, Stop PROVE RecorderInv'
<1>0. RecorderTypeOK /\ ThreadsInv /\ DiskInv /\ TakeInv /\ tick \in Nat
  BY DEF RecorderInv, RecorderTypeOK
<1> USE <1>0, RecorderShape, TrackNumbers
    DEF atomics, disk, controlVars, workerVars, callbackVars
<1>1. TakeInv'
  <2>1. /\ UNCHANGED <<failed, dropped, tick, cbTrack, file, ring, selection>>
        /\ ~recording' /\ control # "opening"
    BY DEF Stop, StopBegin, StopRequest, StopJoin, ThreadsInv
  <2>2. (Whole' => Whole) /\ \A t \in Tracks : All(t)' = All(t)
    BY <2>1 DEF Whole, All
  <2> QED BY <2>1, <2>2, TakeKept
<1>2. CASE StopBegin
  <2> USE <1>2 DEF StopBegin
  <2>1. RecorderTypeOK'
    BY DEF RecorderTypeOK
  <2>2. ThreadsInv'
    BY DEF ThreadsInv, Idle
  <2>3. DiskInv'
    BY DEF DiskInv, ThreadsInv
  <2> QED BY <1>1, <2>1, <2>2, <2>3 DEF RecorderInv
<1>3. CASE StopRequest
  <2> USE <1>3 DEF StopRequest
  <2>1. RecorderTypeOK'
    BY DEF RecorderTypeOK
  <2>2. ThreadsInv'
    BY DEF ThreadsInv, Idle
  <2>3. DiskInv'
    BY DEF DiskInv, ThreadsInv
  <2> QED BY <1>1, <2>1, <2>2, <2>3 DEF RecorderInv
<1>4. CASE StopJoin
  <2> USE <1>4 DEF StopJoin
  <2>1. RecorderTypeOK'
    BY RefreshedHeader DEF RecorderTypeOK
  <2>2. ThreadsInv'
    BY DEF ThreadsInv, Idle
  <2>3. DiskInv'
    <3> SUFFICES ASSUME NEW t \in Tracks
                 PROVE  /\ header'[t] <= Len(file[t])
                        /\ ~failed => header'[t] = LeastOf(Len(file[t]), HeaderLimit)
      BY DEF DiskInv, LeastOf
    <3>1. ~opened[t] => header[t] = LeastOf(Len(file[t]), HeaderLimit)
      <4>1. worker # "none"
        OBVIOUS
      <4>2. ~opened[t] => Len(file[t]) = 0 /\ header[t] = 0
        BY <4>1, EmptySeq DEF DiskInv
      <4> QED BY <4>2 DEF LeastOf
    <3>2. bad[t] => failed
      BY DEF DiskInv
    <3> QED BY <3>1, <3>2, RefreshedHeader
  <2> QED BY <1>1, <2>1, <2>2, <2>3 DEF RecorderInv
<1> QED BY <1>2, <1>3, <1>4 DEF Stop

\* run(): blocks move from the rings to the files.
LEMMA WorkStep == ASSUME RecorderInv, Work PROVE RecorderInv'
<1>0. RecorderTypeOK /\ ThreadsInv /\ DiskInv /\ TakeInv /\ tick \in Nat
  BY DEF RecorderInv, RecorderTypeOK
<1> USE <1>0, RecorderShape, TrackNumbers
    DEF atomics, disk, controlVars, workerVars, callbackVars
<1>1. CASE WorkerTop
  <2> USE <1>1 DEF WorkerTop, FinishRequested
  <2>1. RecorderTypeOK'
    BY DEF RecorderTypeOK
  <2>2. ThreadsInv'
    BY DEF ThreadsInv, Idle
  <2>3. DiskInv'
    BY DEF DiskInv
  <2>4. TakeInv'
    BY TakeKept DEF Whole, All
  <2> QED BY <2>1, <2>2, <2>3, <2>4 DEF RecorderInv
<1>2. CASE DrainBlocks
  <2> DEFINE t == draining
             n == LeastOf(Len(ring[t]), ScratchBlocks)
             taken == SubSeq(ring[t], 1, n)
  <2>1. /\ t \in Tracks /\ opened[t] /\ worker = "drain"
        /\ ring' = [ring EXCEPT ![t] = SubSeq(ring[t], n + 1, Len(ring[t]))]
        /\ \/ /\ ~bad[t]
              /\ file' = [file EXCEPT ![t] = file[t] \o taken]
              /\ frames' = [frames EXCEPT ![t] = frames[t] + n]
              /\ UNCHANGED <<failed, bad, draining>>
           \/ /\ failed' = TRUE
              /\ bad' = [bad EXCEPT ![t] = TRUE]
              /\ draining' = draining + 1
              /\ UNCHANGED <<file, frames>>
    BY <1>2 DEF DrainBlocks, RecorderTypeOK
  <2>2. UNCHANGED <<recording, stopRequested, dropped, opened, header, controlVars,
                    worker, finishing, framesWritten, callbackVars>>
    BY <1>2 DEF DrainBlocks
  <2>3. /\ ring[t] \in Seq(Nat) /\ file[t] \in Seq(Nat) /\ Len(ring[t]) <= RingBlocks
        /\ Len(file[t]) \in Nat /\ Len(ring[t]) \in Nat
    BY <2>1, LenProperties DEF RecorderTypeOK
  <2>a. n \in 0..Len(ring[t])
    BY <2>3 DEF LeastOf
  <2> HIDE DEF n, t
  <2>b. /\ taken \in Seq(Nat) /\ Len(taken) = n
        /\ ring'[t] = SubSeq(ring[t], n + 1, Len(ring[t]))
        /\ ring'[t] \in Seq(Nat) /\ Len(ring'[t]) = Len(ring[t]) - n
        /\ (file[t] \o taken) \o ring'[t] = file[t] \o ring[t]
    <3>1. ring'[t] = SubSeq(ring[t], n + 1, Len(ring[t]))
      BY <2>1 DEF RecorderTypeOK
    <3>2. /\ taken \in Seq(Nat) /\ Len(taken) = n
          /\ ring'[t] \in Seq(Nat) /\ Len(ring'[t]) = Len(ring[t]) - n
      BY <2>3, <2>a, <3>1, TakenFromRing
    <3>3. (file[t] \o taken) \o ring'[t] = file[t] \o ring[t]
      <4> DEFINE F == file[t]
                 R == ring[t]
      <4>1. F \in Seq(Nat) /\ R \in Seq(Nat) /\ n \in 0..Len(R)
        BY <2>3, <2>a
      <4> HIDE DEF F, R
      <4>2. (F \o SubSeq(R, 1, n)) \o SubSeq(R, n + 1, Len(R)) = F \o R
        BY <4>1, MoveFromRing
      <4> QED BY <3>1, <4>2 DEF F, R
    <3> QED BY <3>1, <3>2, <3>3
  <2> HIDE DEF taken
  <2>4. /\ ring'[t] \in Seq(Nat) /\ Len(ring'[t]) <= RingBlocks
        /\ file[t] \o taken \in Seq(Nat)
        /\ Len(file[t] \o taken) = Len(file[t]) + n
    <3>1. Len(ring'[t]) <= RingBlocks
      BY <2>3, <2>a, <2>b
    <3>2. /\ file[t] \o taken \in Seq(Nat)
          /\ Len(file[t] \o taken) = Len(file[t]) + Len(taken)
      <4> DEFINE F == file[t]
      <4>1. F \in Seq(Nat) /\ taken \in Seq(Nat)
        BY <2>3, <2>b
      <4> HIDE DEF F
      <4>2. F \o taken \in Seq(Nat) /\ Len(F \o taken) = Len(F) + Len(taken)
        BY <4>1, ConcatProperties
      <4> QED BY <4>2 DEF F
    <3> QED BY <2>b, <3>1, <3>2
  <2>5. RecorderTypeOK'
    <3>1. ring' \in [Tracks -> Seq(Nat)] /\ \A s \in Tracks : Len(ring'[s]) <= RingBlocks
      BY <2>1, <2>4, <2>b DEF RecorderTypeOK
    <3>2. file' \in [Tracks -> Seq(Nat)] /\ frames' \in [Tracks -> Nat]
      <4>1. file \in [Tracks -> Seq(Nat)] /\ frames \in [Tracks -> Nat] /\ n \in Nat
        BY <2>3, <2>a DEF RecorderTypeOK
      <4>2. frames[t] + n \in Nat
        BY <2>1, <4>1
      <4>3. [file EXCEPT ![t] = file[t] \o taken] \in [Tracks -> Seq(Nat)]
        BY <2>1, <2>4, <4>1
      <4> QED BY <2>1, <4>1, <4>2, <4>3
    <3>3. draining' \in 0..(TrackCount + 1)
      <4>1. draining' = t \/ draining' = t + 1
        BY <2>1 DEF t
      <4>2. t \in 0..(TrackCount + 1)
        BY <2>1
      <4> QED BY <2>1, <4>1, <4>2
    <3>4. bad' \in [Tracks -> BOOLEAN] /\ failed' \in BOOLEAN
      BY <2>1 DEF RecorderTypeOK
    <3> QED BY <2>2, <3>1, <3>2, <3>3, <3>4 DEF RecorderTypeOK
  <2>6. ThreadsInv'
    <3>1. draining' # 0
      BY <2>1 DEF t
    <3> QED BY <2>1, <2>2, <3>1 DEF ThreadsInv, Idle
  <2>7. DiskInv'
    <3> SUFFICES ASSUME NEW s \in Tracks
                 PROVE  /\ header[s] <= Len(file'[s])
                        /\ opened[s] => frames'[s] = Len(file'[s])
                        /\ bad'[s] => failed'
                        /\ ~opened[s] => file'[s] = << >> /\ header[s] = 0
      BY <2>1, <2>2 DEF DiskInv, ThreadsInv
    <3>1. header[s] \in Nat /\ Len(file[s]) \in Nat /\ frames[s] \in Nat
      BY LenProperties DEF RecorderTypeOK
    <3>2. /\ header[s] <= Len(file[s])
          /\ opened[s] => frames[s] = Len(file[s])
          /\ bad[s] => failed
          /\ ~opened[s] => file[s] = << >> /\ header[s] = 0
      BY <2>1 DEF DiskInv
    <3>3. /\ file \in [Tracks -> Seq(Nat)] /\ frames \in [Tracks -> Nat]
          /\ bad \in [Tracks -> BOOLEAN]
      BY DEF RecorderTypeOK
    <3>4. CASE s # t
      <4>1. file'[s] = file[s] /\ frames'[s] = frames[s]
        BY <2>1, <3>3, <3>4
      <4>2. bad'[s] = bad[s]
        BY <2>1, <3>3, <3>4
      <4>3. failed => failed'
        BY <2>1
      <4> QED BY <3>2, <4>1, <4>2, <4>3
    <3>5. CASE s = t /\ failed' = TRUE /\ UNCHANGED <<file, frames>>
      BY <2>1, <3>2, <3>5
    <3>6. CASE /\ s = t /\ ~bad[t] /\ UNCHANGED bad
               /\ file' = [file EXCEPT ![t] = file[t] \o taken]
               /\ frames' = [frames EXCEPT ![t] = frames[t] + n]
      <4>1. file'[s] = file[t] \o taken /\ frames'[s] = frames[t] + n
        BY <2>1, <3>3, <3>6
      <4>2. Len(file'[s]) = Len(file[s]) + n /\ n \in Nat
        BY <2>1, <2>3, <2>4, <2>a, <3>6, <4>1
      <4>3. header[s] <= Len(file'[s]) /\ frames'[s] = Len(file'[s])
        BY <2>1, <3>1, <3>2, <3>6, <4>1, <4>2
      <4> QED BY <2>1, <3>6, <4>3
    <3> QED BY <2>1, <3>4, <3>5, <3>6
  <2>8. TakeInv'
    <3>1. CASE failed'
      BY <3>1 DEF TakeInv, Whole
    <3>2. CASE ~failed'
      <4>1. \A s \in Tracks : All(s)' = All(s)
        BY <2>1, <2>b, <3>2 DEF All, RecorderTypeOK
      <4>2. UNCHANGED <<tick, cbTrack, recording, selection, dropped, control>>
        BY <2>2
      <4> QED BY <2>1, <3>2, <4>1, <4>2, TakeKept DEF Whole
    <3> QED BY <3>1, <3>2
  <2> QED BY <2>5, <2>6, <2>7, <2>8 DEF RecorderInv
<1>3. CASE DrainNext
  <2> USE <1>3 DEF DrainNext
  <2>1. RecorderTypeOK'
    <3>1. /\ draining' \in 0..(TrackCount + 1)
          /\ UNCHANGED <<recording, stopRequested, failed, dropped, ring, opened, bad, frames,
                         file, header, control, opening, takes, selection, worker,
                         finishing, framesWritten, tick, cbTrack, cbWriting>>
      OBVIOUS
    <3> QED BY <3>1 DEF RecorderTypeOK
  <2>2. ThreadsInv'
    BY DEF ThreadsInv, Idle
  <2>3. DiskInv'
    BY DEF DiskInv
  <2>4. TakeInv'
    BY TakeKept DEF Whole, All
  <2> QED BY <2>1, <2>2, <2>3, <2>4 DEF RecorderInv
<1>4. CASE WorkerPublish
  <2> USE <1>4 DEF WorkerPublish
  <2>1. RecorderTypeOK'
    <3>1. framesWritten' \in Nat
      BY DEF RecorderTypeOK
    <3>2. header' \in [Tracks -> Nat]
      BY RefreshedHeader DEF RecorderTypeOK
    <3>3. /\ worker' \in {"top", "done"} /\ draining' \in 0..(TrackCount + 1)
          /\ UNCHANGED <<recording, stopRequested, failed, dropped, ring, opened, bad, frames,
                         file, control, opening, takes, selection, finishing, tick,
                         cbTrack, cbWriting>>
      OBVIOUS
    <3> QED BY <3>1, <3>2, <3>3 DEF RecorderTypeOK
  <2>2. ThreadsInv'
    BY DEF ThreadsInv, Idle
  <2>3. DiskInv'
    BY RefreshedHeader, EmptySeq DEF DiskInv, RecorderTypeOK, LeastOf, ThreadsInv
  <2>4. TakeInv'
    BY TakeKept DEF Whole, All
  <2> QED BY <2>1, <2>2, <2>3, <2>4 DEF RecorderInv
<1> QED BY <1>1, <1>2, <1>3, <1>4 DEF Work

\* The audio callback, which may have begun before the take was stopped.
LEMMA CallbackStep == ASSUME RecorderInv, Callback PROVE RecorderInv'
<1>0. /\ RecorderTypeOK /\ ThreadsInv /\ DiskInv /\ TakeInv
      /\ tick \in Nat /\ cbTrack \in 0..TrackCount
  BY DEF RecorderInv, RecorderTypeOK
<1>a. \A t \in Tracks : Len(All(t)) \in Nat
  BY ConcatProperties, LenProperties DEF RecorderInv, RecorderTypeOK, All
<1> USE <1>0, RecorderShape, TrackNumbers
    DEF atomics, disk, controlVars, workerVars, callbackVars
<1>b. ASSUME ~Idle PROVE /\ cbTrack \in Tracks /\ NextTrack \in 0..TrackCount
                         /\ \/ NextTrack = 0 /\ cbTrack = TrackCount
                            \/ NextTrack = cbTrack + 1 /\ cbTrack < TrackCount
  <2>1. cbTrack \in 1..TrackCount
    BY <1>b DEF Idle
  <2>2. CASE cbTrack = TrackCount
    BY <2>1, <2>2 DEF NextTrack
  <2>3. CASE cbTrack # TrackCount
    BY <2>1, <2>3 DEF NextTrack
  <2> QED BY <2>2, <2>3
<1>1. CASE CallbackBegin
  <2> USE <1>1 DEF CallbackBegin
  <2>1. RecorderTypeOK'
    <3>1. /\ tick' \in Nat /\ cbTrack' \in 0..TrackCount
          /\ UNCHANGED <<recording, stopRequested, failed, dropped, ring, opened, bad, frames,
                         file, header, control, opening, takes, selection, worker,
                         finishing, draining, framesWritten, cbWriting>>
      OBVIOUS
    <3> QED BY <3>1 DEF RecorderTypeOK
  <2>2. ThreadsInv'
    BY DEF ThreadsInv, Idle
  <2>3. DiskInv'
    BY DEF DiskInv
  <2>4. TakeInv'
    <3> SUFFICES ASSUME Whole PROVE \E f \in 0..(tick' + 1) : Since(f)'
      BY DEF TakeInv, Whole
    <3>1. PICK f \in 0..(tick + 1) : Since(f)
      BY DEF TakeInv
    <3>2. \A t \in Tracks : All(t)' = All(t)
      BY DEF All
    <3>3. Since(f)'
      BY <3>1, <3>2, <1>a DEF Since, Idle
    <3> QED BY <3>1, <3>3
  <2> QED BY <2>1, <2>2, <2>3, <2>4 DEF RecorderInv
<1>2. CASE WriteCheck
  <2> USE <1>2, <1>b DEF WriteCheck
  <2>1. RecorderTypeOK'
    <3>1. /\ cbTrack' \in 0..TrackCount /\ cbWriting' \in BOOLEAN
          /\ UNCHANGED <<recording, stopRequested, failed, dropped, ring, opened, bad, frames,
                         file, header, control, opening, takes, selection, worker,
                         finishing, draining, framesWritten, tick>>
      BY DEF RecorderTypeOK
    <3> QED BY <3>1 DEF RecorderTypeOK
  <2>2. ThreadsInv'
    BY DEF ThreadsInv, Idle
  <2>3. DiskInv'
    BY DEF DiskInv
  <2>4. TakeInv'
    <3> SUFFICES ASSUME Whole PROVE \E f \in 0..(tick + 1) : Since(f)'
      BY DEF TakeInv, Whole
    <3>1. PICK f \in 0..(tick + 1) : Since(f)
      BY DEF TakeInv
    <3>2. /\ \A t \in Tracks : All(t)' = All(t)
          /\ UNCHANGED <<tick, recording, selection>>
      BY DEF All
    <3>3. CASE UNCHANGED cbTrack
      BY <3>1, <3>2, <3>3, SinceKept
    <3>4. CASE cbTrack' = NextTrack /\ (~recording \/ cbTrack \notin selection)
      <4> SUFFICES ASSUME NEW t \in Tracks
                   PROVE  /\ \A i \in 1..Len(All(t)') : All(t)'[i] = f + i - 1
                          /\ t \in selection' /\ recording' /\ (Idle' \/ t < cbTrack')
                               => Len(All(t)') = tick' - f + 1
                          /\ t \in selection' /\ ~Idle' /\ t >= cbTrack'
                               => Len(All(t)') = tick' - f
        BY DEF Since
      <4>1. /\ \A i \in 1..Len(All(t)) : All(t)[i] = f + i - 1
            /\ t \in selection /\ recording /\ t < cbTrack => Len(All(t)) = tick - f + 1
            /\ t \in selection /\ t >= cbTrack => Len(All(t)) = tick - f
        BY <3>1 DEF Since
      <4>2. recording /\ t \in selection /\ (Idle' \/ t < cbTrack') => t < cbTrack
        BY <3>4 DEF Idle
      <4>3. ~Idle' /\ t >= cbTrack' => t >= cbTrack
        BY <3>4 DEF Idle
      <4>4. All(t)' = All(t) /\ UNCHANGED <<tick, recording, selection>>
        BY <3>2
      <4>5. \A i \in 1..Len(All(t)') : All(t)'[i] = f + i - 1
        BY <4>1, <4>4
      <4>6. t \in selection' /\ recording' /\ (Idle' \/ t < cbTrack')
              => Len(All(t)') = tick' - f + 1
        BY <4>1, <4>2, <4>4
      <4>7. t \in selection' /\ ~Idle' /\ t >= cbTrack' => Len(All(t)') = tick' - f
        BY <4>1, <4>3, <4>4
      <4> QED BY <4>5, <4>6, <4>7
    <3> QED BY <3>3, <3>4
  <2> QED BY <2>1, <2>2, <2>3, <2>4 DEF RecorderInv
<1>3. CASE WriteRing
  <2>1. /\ cbTrack \in Tracks /\ cbTrack \in selection /\ ~Idle /\ cbTrack' = NextTrack
        /\ UNCHANGED <<recording, stopRequested, failed, opened, bad, frames, file, header,
                       control, opening, takes, selection, worker, finishing, draining,
                       framesWritten, tick>>
        /\ cbWriting' = FALSE
    BY <1>3, <1>b DEF WriteRing, ThreadsInv, Whole
  <2>2. ring[cbTrack] \in Seq(Nat) /\ file[cbTrack] \in Seq(Nat) /\ Len(ring[cbTrack]) \in Nat
    BY <2>1, LenProperties DEF RecorderTypeOK
  <2>3. CASE Room(cbTrack)
    <3>1. /\ ring' = [ring EXCEPT ![cbTrack] = Append(ring[cbTrack], tick)]
          /\ UNCHANGED dropped /\ Len(ring[cbTrack]) < RingBlocks
      BY <1>3, <2>3 DEF WriteRing, Room, RecorderTypeOK
    <3>2. /\ Append(ring[cbTrack], tick) \in Seq(Nat)
          /\ Len(Append(ring[cbTrack], tick)) = Len(ring[cbTrack]) + 1
      BY <2>2, AppendProperties
    <3>3. RecorderTypeOK'
      <4>1. /\ ring' \in [Tracks -> Seq(Nat)]
            /\ \A t \in Tracks : Len(ring'[t]) <= RingBlocks
        <5>1. /\ ring \in [Tracks -> Seq(Nat)]
              /\ \A t \in Tracks : Len(ring[t]) <= RingBlocks
          BY DEF RecorderTypeOK
        <5>2. Len(ring[cbTrack]) + 1 <= RingBlocks
          BY <2>2, <3>1
        <5> QED BY <2>1, <3>1, <3>2, <5>1, <5>2
      <4> QED BY <1>b, <2>1, <3>1, <4>1 DEF RecorderTypeOK
    <3>4. ThreadsInv'
      BY <2>1 DEF ThreadsInv, Idle
    <3>5. DiskInv'
      BY <2>1, <3>1 DEF DiskInv, ThreadsInv, RecorderTypeOK
    <3>6. TakeInv'
      <4> SUFFICES ASSUME Whole PROVE \E f \in 0..(tick + 1) : Since(f)'
        BY <2>1, <3>1 DEF TakeInv, Whole
      <4>1. PICK f \in 0..(tick + 1) : Since(f)
        BY DEF TakeInv
      <4>c. PICK c \in Tracks : c = cbTrack
        BY <2>1
      <4>2. Len(All(c)) = tick - f
        BY <2>1, <4>c, <4>1 DEF Since
      <4>3. All(c)' = Append(All(c), tick)
        <5>1. ring'[c] = Append(ring[c], tick)
          BY <4>c, <2>1, <3>1 DEF RecorderTypeOK
        <5> DEFINE F == file[c]
                   R == ring[c]
        <5>2. F \in Seq(Nat) /\ R \in Seq(Nat)
          BY <4>c, <2>2
        <5> HIDE DEF F, R
        <5>3. F \o Append(R, tick) = Append(F \o R, tick)
          BY <5>2, AppendBehind
        <5>4. All(c)' = file[c] \o ring'[c]
          BY <4>c, <2>1 DEF All
        <5> QED BY <5>1, <5>3, <5>4 DEF All, F, R
      <4>4. /\ Len(All(c)') = tick - f + 1
            /\ \A i \in 1..(tick - f) : All(c)'[i] = All(c)[i]
            /\ All(c)'[tick - f + 1] = tick
        <5> DEFINE A == All(c)
        <5>1. A \in Seq(Nat)
          BY <4>c, <2>2, ConcatProperties DEF All
        <5> HIDE DEF A
        <5>2. /\ Len(Append(A, tick)) = Len(A) + 1
              /\ \A i \in 1..Len(A) : Append(A, tick)[i] = A[i]
              /\ Append(A, tick)[Len(A) + 1] = tick
          BY <5>1, AppendProperties
        <5> QED BY <4>2, <4>3, <5>2 DEF A
      <4>5. \A t \in Tracks \ {c} : All(t)' = All(t)
        BY <4>c, <2>1, <3>1 DEF All, RecorderTypeOK
      <4>6. ASSUME NEW t \in Tracks
            PROVE  /\ \A i \in 1..Len(All(t)') : All(t)'[i] = f + i - 1
                   /\ t \in selection' /\ recording' /\ (Idle' \/ t < cbTrack')
                        => Len(All(t)') = tick' - f + 1
                   /\ t \in selection' /\ ~Idle' /\ t >= cbTrack' => Len(All(t)') = tick' - f
        <5>1. /\ \A i \in 1..Len(All(t)) : All(t)[i] = f + i - 1
              /\ t \in selection /\ recording /\ t < cbTrack => Len(All(t)) = tick - f + 1
              /\ t \in selection /\ t >= cbTrack => Len(All(t)) = tick - f
          BY <2>1, <4>1 DEF Since
        <5>2. ~Idle' => cbTrack' = cbTrack + 1
          BY <1>b, <2>1 DEF Idle
        <5>3. Idle' => t <= cbTrack
          BY <1>b, <2>1 DEF Idle
        <5>4. CASE t = c
          <6>1. \A i \in 1..Len(All(t)') : All(t)'[i] = f + i - 1
            BY <4>c, <4>2, <4>4, <5>1, <5>4
          <6>2. ~(~Idle' /\ t >= cbTrack')
            BY <4>c, <5>2, <5>4
          <6> QED BY <4>c, <2>1, <4>4, <5>4, <6>1, <6>2
        <5>5. CASE t # c
          <6>1. All(t)' = All(t)
            BY <4>5, <5>5
          <6>2. (Idle' \/ t < cbTrack') => t < cbTrack
            BY <4>c, <5>2, <5>3, <5>5
          <6>3. ~Idle' /\ t >= cbTrack' => t >= cbTrack
            BY <5>2
          <6> QED BY <2>1, <5>1, <6>1, <6>2, <6>3
        <5> QED BY <5>4, <5>5
      <4>7. Since(f)'
        BY <4>6 DEF Since
      <4> QED BY <4>1, <4>7
    <3> QED BY <3>3, <3>4, <3>5, <3>6 DEF RecorderInv
  <2>4. CASE ~Room(cbTrack)
    <3>1. dropped' = dropped + 1 /\ UNCHANGED ring
      BY <1>3, <2>4 DEF WriteRing, DropCounted
    <3>2. RecorderTypeOK'
      <4>1. dropped \in Nat
        BY DEF RecorderTypeOK
      <4>2. cbTrack' \in 0..TrackCount
        BY <1>b, <2>1
      <4>3. dropped' \in Nat
        BY <3>1, <4>1
      <4> QED BY <2>1, <3>1, <4>2, <4>3 DEF RecorderTypeOK
    <3>3. ThreadsInv'
      BY <2>1 DEF ThreadsInv, Idle
    <3>4. DiskInv'
      BY <2>1, <3>1 DEF DiskInv
    <3>5. TakeInv'
      BY <3>1 DEF TakeInv, Whole, RecorderTypeOK
    <3> QED BY <3>2, <3>3, <3>4, <3>5 DEF RecorderInv
  <2> QED BY <2>3, <2>4
<1> QED BY <1>1, <1>2, <1>3 DEF Callback

-----------------------------------------------------------------------------
\* The invariant holds in every state, for any number of tracks, blocks and takes.
THEOREM RecorderCorrect == RecorderSpec => []RecorderInv
<1>1. RecorderInv /\ [RecorderNext]_recorderVars => RecorderInv'
  <2> SUFFICES ASSUME RecorderInv, [RecorderNext]_recorderVars PROVE RecorderInv'
    OBVIOUS
  <2>1. CASE UNCHANGED recorderVars
    BY <2>1 DEF recorderVars, atomics, disk, controlVars, workerVars, callbackVars,
                RecorderInv, RecorderTypeOK, ThreadsInv, DiskInv, TakeInv, Since, All,
                Whole, Idle
  <2> QED BY <2>1, StartStep, StopStep, WorkStep, CallbackStep DEF RecorderNext
<1> QED BY <1>1, RecorderInitially, PTL DEF RecorderSpec

\* Every variable keeps to its values; a ring never holds more than it has room for.
THEOREM RecorderTypeCorrect == RecorderSpec => []RecorderTypeOK
<1>1. RecorderInv => RecorderTypeOK
  BY DEF RecorderInv
<1> QED BY <1>1, RecorderCorrect, PTL

\* A take that shows no failure and no dropped frame has no gap in any track, and its
\* tracks are sample-aligned, wherever its start and its stop fall in a callback.
\* (process(), write(), start(), stop())
THEOREM TakesAreWhole == RecorderSpec => []TakeIsWhole
<1>1. RecorderInv => TakeIsWhole
  <2> SUFFICES ASSUME RecorderInv, Whole PROVE TakeIsWhole
    BY DEF TakeIsWhole, NoUncountedGap, AlignedUnlessDropped
  <2>1. PICK f \in 0..(tick + 1) : Since(f)
    BY DEF RecorderInv, TakeInv
  <2>2. /\ f \in Int /\ selection \subseteq Tracks
        /\ \A t \in Tracks : file[t] \in Seq(Nat) /\ ring[t] \in Seq(Nat)
    BY DEF RecorderInv, RecorderTypeOK
  <2>3. ASSUME NEW t \in selection
        PROVE  /\ Len(file[t]) \in Nat /\ Len(All(t)) \in Nat
               /\ Len(file[t]) <= Len(All(t))
               /\ \A i \in 1..Len(file[t]) : file[t][i] = All(t)[i]
    <3> DEFINE F == file[t]
               R == ring[t]
    <3>1. F \in Seq(Nat) /\ R \in Seq(Nat)
      BY <2>2
    <3> HIDE DEF F, R
    <3>2. /\ Len(F) \in Nat /\ Len(R) \in Nat /\ Len(F \o R) = Len(F) + Len(R)
          /\ \A i \in 1..Len(F) : (F \o R)[i] = F[i]
      BY <3>1, LenProperties, ConcatProperties
    <3>3. Len(F \o R) \in Nat /\ Len(F) <= Len(F \o R)
      BY <3>2
    <3> QED BY <3>2, <3>3 DEF All, F, R
  <2>4. NoUncountedGap
    <3> SUFFICES ASSUME NEW t \in selection, NEW i \in 1..(Len(All(t)) - 1)
                 PROVE  All(t)[i + 1] = All(t)[i] + 1
      BY DEF NoUncountedGap, All
    <3>1. i \in 1..Len(All(t)) /\ i + 1 \in 1..Len(All(t)) /\ i \in Int
      BY <2>3
    <3>2. All(t)[i] = f + i - 1 /\ All(t)[i + 1] = f + (i + 1) - 1
      BY <2>1, <2>2, <3>1 DEF Since
    <3> QED BY <2>2, <3>1, <3>2
  <2>5. AlignedUnlessDropped
    <3> SUFFICES ASSUME NEW s \in selection, NEW t \in selection,
                        NEW i \in 1..LeastOf(Len(file[s]), Len(file[t]))
                 PROVE  file[s][i] = file[t][i]
      BY DEF AlignedUnlessDropped
    <3>1. i \in 1..Len(file[s]) /\ i \in 1..Len(file[t])
      BY <2>3 DEF LeastOf
    <3>2. i \in 1..Len(All(s)) /\ i \in 1..Len(All(t))
      BY <2>3, <3>1
    <3>3. All(s)[i] = f + i - 1 /\ All(t)[i] = f + i - 1
      BY <2>1, <2>2, <3>2 DEF Since
    <3> QED BY <2>3, <3>1, <3>3
  <2> QED BY <2>4, <2>5 DEF TakeIsWhole
<1> QED BY <1>1, RecorderCorrect, PTL

\* Whenever the process dies, what a header promises is in the file; and once stop()
\* has returned it promises all of it.  (refreshSizes(), run(), stop())
THEOREM HeadersTell == RecorderSpec => []HeaderTells
<1>1. RecorderInv => HeaderTells
  BY DEF RecorderInv, DiskInv, HeaderTells, HeaderNeverAhead, HeaderFinal
<1> QED BY <1>1, RecorderCorrect, PTL
=============================================================================
