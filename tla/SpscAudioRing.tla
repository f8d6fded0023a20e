--------------------------- MODULE SpscAudioRing ---------------------------
(***************************************************************************)
(* include/jamlink/audio/spsc_audio_ring.hpp: the lock-free ring between   *)
(* one producer thread (an audio callback) and one consumer thread (a      *)
(* worker).  Both cursors are atomics that only ever grow; the samples     *)
(* between them are ordinary memory, so the whole safety of the ring is in *)
(* the order of the cursor accesses and the copies.                        *)
(*                                                                         *)
(* Each copy is split into its frames, so the two memcpy calls interleave  *)
(* freely.  An acquire load of the other side's cursor may return a value  *)
(* that side has since replaced (C++ promises no more than that it is not  *)
(* older than the last one this thread saw), so a load picks any value     *)
(* from the last one seen to the current one.                              *)
(*                                                                         *)
(* A frame is a serial number: frame f was the f-th accepted.  The cursors *)
(* are reset by clear(); `base` is what has to be added to a cursor to get *)
(* a serial number back.                                                   *)
(***************************************************************************)
EXTENDS Integers, Sequences

CONSTANTS Capacity,   \* capacityFrames_
          MaxBlock,   \* largest block either side hands over
          MaxFrames,  \* bound: frames accepted between two clears
          MaxMisses,  \* bound: value of each miss counter
          MaxClears   \* bound: number of clears

ASSUME CapacityAssumption == Capacity \in Nat /\ Capacity >= 2
ASSUME BoundAssumption == /\ MaxBlock \in Nat /\ MaxFrames \in Nat
                          /\ MaxMisses \in Nat /\ MaxClears \in Nat

VARIABLES writeCursor, readCursor,       \* the two published cursors
          slot,                          \* samples_, one frame per index
          base, clears,                  \* serial number of position 0; clears made
          overruns, underruns,
          writing, wFrames, wCopied, wSeen,     \* producer inside write()
          reading, rAsked, rFrames, got, rSeen, \* consumer inside readAndZeroFill()
          out                            \* the block the last read returned

producer == <<writing, wFrames, wCopied, wSeen>>
consumer == <<reading, rAsked, rFrames, got, rSeen>>
vars == <<writeCursor, readCursor, slot, base, clears, overruns, underruns,
          producer, consumer, out>>

Empty == -1

(* Mistake: the mask lets the last position of the buffer and the first share a slot. *)
IndexShortMask(position) == position % (Capacity - 1)

Index(position) == position % Capacity

Init == /\ writeCursor = 0 /\ readCursor = 0
        /\ slot = [i \in 0..(Capacity - 1) |-> Empty]
        /\ base = 0 /\ clears = 0
        /\ overruns = 0 /\ underruns = 0
        /\ writing = FALSE /\ wFrames = 0 /\ wCopied = 0 /\ wSeen = 0
        /\ reading = FALSE /\ rAsked = 0 /\ rFrames = 0 /\ got = << >> /\ rSeen = 0
        /\ out = << >>

-----------------------------------------------------------------------------
(* The producer: write() takes the complete block or nothing. *)

(* Mistake: a block may overlap the oldest unread frame. *)
WriteFitsOffByOne(n, read) == n <= Capacity - (writeCursor - read) + 1

WriteFits(n, read) == n <= Capacity - (writeCursor - read)

WriteBegin(n) ==
    /\ ~writing
    /\ writeCursor + n <= MaxFrames
    /\ \E read \in wSeen..readCursor :
          /\ WriteFits(n, read)
          /\ wSeen' = read
    /\ writing' = TRUE
    /\ wFrames' = n
    /\ wCopied' = 0
    /\ UNCHANGED <<writeCursor, readCursor, slot, base, clears, overruns,
                   underruns, consumer, out>>

WriteRefused(n) ==
    /\ ~writing
    /\ overruns < MaxMisses
    /\ \E read \in wSeen..readCursor :
          /\ ~WriteFits(n, read)
          /\ wSeen' = read
    /\ overruns' = overruns + 1
    /\ UNCHANGED <<writeCursor, readCursor, slot, base, clears, underruns,
                   writing, wFrames, wCopied, consumer, out>>

CopyIntoRing ==
    /\ writing
    /\ wCopied < wFrames
    /\ slot' = [slot EXCEPT ![Index(writeCursor + wCopied)] =
                               base + writeCursor + wCopied]
    /\ wCopied' = wCopied + 1
    /\ UNCHANGED <<writeCursor, readCursor, base, clears, overruns, underruns,
                   writing, wFrames, wSeen, consumer, out>>

(* Mistake: the cursor is stored before the copy into the ring is complete. *)
CopyDoneEarly == wCopied + 1 >= wFrames

CopyDone == wCopied = wFrames

WritePublish ==
    /\ writing
    /\ CopyDone
    /\ writeCursor' = writeCursor + wFrames
    /\ writing' = FALSE
    /\ UNCHANGED <<readCursor, slot, base, clears, overruns, underruns,
                   wFrames, wCopied, wSeen, consumer, out>>

-----------------------------------------------------------------------------
(* The consumer: readAndZeroFill() returns what is there, up to what was   *)
(* asked for, and counts an underrun when that is less.                    *)

(* Mistake: the read takes what it was asked for without looking at what is there. *)
FramesToReadUnbounded(n, write) == n

FramesToRead(n, write) == IF n <= write - readCursor THEN n
                                                     ELSE write - readCursor

ReadBegin(n) ==
    /\ ~reading
    /\ \E write \in rSeen..writeCursor :
          /\ rFrames' = FramesToRead(n, write)
          /\ rSeen' = write
    /\ reading' = TRUE
    /\ rAsked' = n
    /\ got' = << >>
    /\ UNCHANGED <<writeCursor, readCursor, slot, base, clears, overruns,
                   underruns, producer, out>>

CopyFromRing ==
    /\ reading
    /\ Len(got) < rFrames
    /\ got' = Append(got, slot[Index(readCursor + Len(got))])
    /\ UNCHANGED <<writeCursor, readCursor, slot, base, clears, overruns,
                   underruns, producer, reading, rAsked, rFrames, rSeen, out>>

(* Mistake: the cursor moves by what was asked for, short read or not. *)
FramesConsumedAll == rAsked

FramesConsumed == rFrames

ReadPublish ==
    /\ reading
    /\ Len(got) = rFrames
    /\ \/ rFrames = rAsked /\ UNCHANGED underruns
       \/ /\ rFrames < rAsked
          /\ underruns < MaxMisses
          /\ underruns' = underruns + 1
    /\ readCursor' = readCursor + FramesConsumed
    /\ out' = got
    /\ reading' = FALSE
    /\ UNCHANGED <<writeCursor, slot, base, clears, overruns, producer,
                   rAsked, rFrames, got, rSeen>>

-----------------------------------------------------------------------------
(* The control thread, with both sides stopped: joining a thread orders    *)
(* everything it did before what follows, so neither side keeps an older   *)
(* view of a cursor.                                                       *)

Clear ==
    /\ ~writing /\ ~reading
    /\ clears < MaxClears
    /\ clears' = clears + 1
    /\ base' = base + writeCursor
    /\ writeCursor' = 0 /\ readCursor' = 0
    /\ overruns' = 0 /\ underruns' = 0
    /\ wSeen' = 0 /\ rSeen' = 0
    /\ UNCHANGED <<slot, writing, wFrames, wCopied, reading, rAsked, rFrames,
                   got, out>>

Produce == \/ \E n \in 1..MaxBlock : WriteBegin(n) \/ WriteRefused(n)
           \/ CopyIntoRing
           \/ WritePublish

Consume == \/ \E n \in 1..MaxBlock : ReadBegin(n)
           \/ CopyFromRing
           \/ ReadPublish

Next == Produce \/ Consume \/ Clear

Spec == Init /\ [][Next]_vars

-----------------------------------------------------------------------------
(* Types, and the arithmetic both sides do on the cursors: the number of   *)
(* used frames never wraps below zero and never exceeds the capacity.      *)
TypeOK ==
    /\ writeCursor \in Nat /\ readCursor \in Nat
    /\ writeCursor - readCursor \in 0..Capacity
    /\ slot \in [0..(Capacity - 1) -> Int]
    /\ base \in Nat /\ clears \in Nat
    /\ overruns \in Nat /\ underruns \in Nat
    /\ writing \in BOOLEAN /\ wFrames \in Nat /\ wCopied \in Nat /\ wSeen \in Nat
    /\ reading \in BOOLEAN /\ rAsked \in Nat /\ rFrames \in Nat /\ rSeen \in Nat
    /\ got \in Seq(Int) /\ out \in Seq(Int)

Unread == readCursor..(writeCursor - 1)
BeingWritten == writeCursor..(writeCursor + wFrames - 1)

(* The plain memory is free of data races: while a block is being copied   *)
(* in, its slots hold no frame the consumer has not given back, in         *)
(* particular none that it is copying out at this moment.                  *)
NoSharedSlot ==
    writing => \A w \in BeingWritten : \A r \in Unread : Index(w) # Index(r)

(* A frame that was published stays in memory unharmed until the consumer  *)
(* has published that it read it, whatever the producer does meanwhile and *)
(* however stale its view of the read cursor is.                           *)
PublishedFramesIntact ==
    \A p \in Unread : slot[Index(p)] = base + p

(* What the consumer has copied so far is the oldest unread audio, in      *)
(* order, with no frame from before the last clear.                        *)
ReadsInOrder ==
    reading => \A i \in 1..Len(got) : got[i] = base + readCursor + i - 1

(* The frames a consumer could still read, oldest first. *)
Queue == [i \in 1..(writeCursor - readCursor) |-> slot[Index(readCursor + i - 1)]]

(* The ring implements the FIFO its users rely on: a publish accepts the   *)
(* whole block, a read delivers the oldest frames, a refusal changes       *)
(* nothing.                                                                *)
Fifo == INSTANCE AudioFifo WITH
            nextFrame <- base + writeCursor,
            queue <- Queue,
            out <- out
ImplementsFifo == Fifo!Spec

-----------------------------------------------------------------------------
(* Why the properties hold: each side's view of the other's cursor is old  *)
(* in the safe direction, and stays so for the whole operation.            *)
ProducerView ==
    /\ wSeen <= readCursor
    /\ writing => /\ wFrames \in 1..MaxBlock /\ wCopied <= wFrames
                  /\ WriteFits(wFrames, wSeen)

ConsumerView ==
    /\ readCursor <= rSeen /\ rSeen <= writeCursor
    /\ reading => /\ rFrames <= MaxBlock /\ Len(got) <= rFrames
                  /\ readCursor + rFrames <= rSeen

(* What has been copied of the block being written is already in place. *)
CopiedFramesInPlace ==
    writing => \A p \in writeCursor..(writeCursor + wCopied - 1) :
                  slot[Index(p)] = base + p

(* The inductive invariant of the ring. *)
RingInv == /\ TypeOK
           /\ ProducerView /\ ConsumerView
           /\ CopiedFramesInPlace
           /\ PublishedFramesIntact
           /\ ReadsInOrder
=============================================================================
