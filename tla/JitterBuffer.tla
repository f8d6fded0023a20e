---------------------------- MODULE JitterBuffer ----------------------------
(***************************************************************************)
(* src/network/audio_stream_receiver.cpp: the jitter buffer between the    *)
(* network worker, which calls submit() for every packet, and the audio    *)
(* callback, whose pull() takes one packet after the other through         *)
(* beginPacket().  Neither waits for the other: all they share is a ring   *)
(* of stamped slots and a few atomics, so every access of those is a step. *)
(*                                                                         *)
(* The samples, the estimate of the jitter and the concealment itself are  *)
(* left out; what is kept of them is which packet the decoder is given,    *)
(* and that the target depth may grow or shrink after every packet.        *)
(***************************************************************************)
EXTENDS Integers

CONSTANTS SlotCount,          \* slots in the ring
          MinDepth, MaxDepth, \* the least minimum and the greatest maximum one may ask for
          TrimSlack,          \* trimSlackPackets
          StretchSlack,       \* stretchSlackPackets
          Modulus,            \* sequence numbers: 2^32 in the code
          FirstNumber,        \* the sender's first number
          RestartNumber,      \* where it goes on after a restart
          MaxRestarts,        \* bound: restarts of the numbering
          MaxPackets,         \* bound: packets submitted
          Losses, Delays      \* bound: packets lost in a row; how late one may come

ASSUME ShapeAssumption ==
    /\ SlotCount \in Nat /\ SlotCount >= 4
    /\ MinDepth \in Nat \ {0} /\ MaxDepth \in Nat /\ MinDepth <= MaxDepth
    /\ 2 * MaxDepth < SlotCount
    /\ TrimSlack \in Nat /\ StretchSlack \in Nat
    /\ Modulus \in Nat \ {0} /\ Modulus % SlotCount = 0
    /\ FirstNumber \in 0..(Modulus - 1) /\ RestartNumber \in 0..(Modulus - 1)
    /\ MaxPackets \in Nat /\ MaxRestarts \in Nat
ASSUME NetworkAssumption == Losses \subseteq Nat /\ Delays \subseteq Nat \ {0}

Numbers == 0..(Modulus - 1)
Slots == 0..(SlotCount - 1)
None == -1

VARIABLES
    next, restarts, packets,             \* the sender and the network
    hasFirst, first, highest, epoch,     \* written by the producer
    limits,                              \* written by the control thread
    target,                              \* targetPackets_, by the producer
    playout, primed,                     \* written by the consumer
    stamp, data,                         \* per slot: its number; the packet in memory
    pAt, pNumber, pPlayout, pPlaying,    \* producer inside submit()
    cAt, cTarget, cHighest, observed,    \* consumer inside beginPacket()
    told                                 \* the last number the decoder was told of

network == <<next, restarts, packets>>
numbering == <<hasFirst, first, highest, epoch>>
depths == <<limits, target>>
producer == <<pAt, pNumber, pPlayout, pPlaying>>
consumer == <<cAt, cTarget, cHighest, observed, told>>
jitterVars == <<network, numbering, depths, playout, primed, stamp, data, producer,
                consumer>>

Plus(number, n) == (number + n) % Modulus
SlotOf(number) == number % SlotCount

(* static_cast<std::int32_t>(left - right) *)
Distance(left, right) == LET d == (left - right) % Modulus
                         IN  IF 2 * d < Modulus THEN d ELSE d - Modulus
SequenceBefore(left, right) == Distance(left, right) < 0

(* A packet is the pair of its number and the run of numbering it is from. *)
Packet(number, run) == [number |-> number, run |-> run]
Torn == Packet(None, 0)

(* minimumDepthPackets_ and maximumDepthPackets_ *)
Settings == {setting \in [least : MinDepth..MaxDepth, most : MinDepth..MaxDepth] :
                setting.least <= setting.most}

JitterInit ==
    /\ next = FirstNumber /\ restarts = 0 /\ packets = 0
    /\ hasFirst = FALSE /\ first = 0 /\ highest = 0 /\ epoch = 0
    /\ limits \in Settings /\ target = limits.least
    /\ playout = 0 /\ primed = FALSE
    /\ stamp = [i \in Slots |-> None] /\ data = [i \in Slots |-> Torn]
    /\ pAt = "idle" /\ pNumber = 0 /\ pPlayout = 0 /\ pPlaying = FALSE
    /\ cAt = "idle" /\ cTarget = MinDepth /\ cHighest = 0 /\ observed = 0
    /\ told = None

-----------------------------------------------------------------------------
(* The sender numbers its packets; the network loses, delays and repeats   *)
(* them.                                                                   *)

Arriving == {Plus(next, k) : k \in Losses}
            \union (IF hasFirst THEN {Plus(next, -k) : k \in Delays} ELSE {})

(* Once the numbers have gone far enough for the receiver to notice. *)
RestartNumbering ==
    /\ pAt = "idle" /\ hasFirst
    /\ Distance(RestartNumber, highest) < -(SlotCount \div 2)
    /\ restarts < MaxRestarts
    /\ restarts' = restarts + 1
    /\ next' = RestartNumber
    /\ UNCHANGED <<packets, numbering, depths, playout, primed, stamp, data,
                   producer, consumer>>

-----------------------------------------------------------------------------
(* The producer: submit(). *)

Jump(number) == Distance(number, highest)
Rebases(number) == Jump(number) > SlotCount \div 2 \/ Jump(number) < -(SlotCount \div 2)

SubmitFirst(number) ==
    /\ ~hasFirst
    /\ hasFirst' = TRUE /\ first' = number /\ highest' = number
    /\ pAt' = "adapt"
    /\ UNCHANGED epoch

SubmitNext(number) ==
    /\ hasFirst /\ ~Rebases(number)
    /\ highest' = IF Jump(number) > 0 THEN number ELSE highest
    /\ pAt' = "adapt"
    /\ UNCHANGED <<hasFirst, first, epoch>>

SubmitRebase(number) ==
    /\ hasFirst /\ Rebases(number)
    /\ first' = number
    /\ pAt' = "rebase"
    /\ UNCHANGED <<hasFirst, highest, epoch>>

Submit(number) ==
    /\ pAt = "idle"
    /\ packets < MaxPackets
    /\ packets' = packets + 1
    /\ next' = IF SequenceBefore(number, next) THEN next ELSE Plus(number, 1)
    /\ pNumber' = number
    /\ SubmitFirst(number) \/ SubmitNext(number) \/ SubmitRebase(number)
    /\ UNCHANGED <<restarts, depths, playout, primed, stamp, data, pPlayout,
                   pPlaying, consumer>>

RebaseHighest ==
    /\ pAt = "rebase"
    /\ highest' = pNumber
    /\ pAt' = "epoch"
    /\ UNCHANGED <<network, hasFirst, first, epoch, depths, playout, primed, stamp,
                   data, pNumber, pPlayout, pPlaying, consumer>>

RebaseEpoch ==
    /\ pAt = "epoch"
    /\ epoch' = epoch + 1
    /\ pAt' = "adapt"
    /\ UNCHANGED <<network, hasFirst, first, highest, depths, playout, primed, stamp,
                   data, pNumber, pPlayout, pPlaying, consumer>>

(* Mistake: the depth that is wanted is not clamped from below. *)
AdaptedUnclamped == {target, target - 1} \union (target + 1)..limits.most

(* Up to what is wanted at once, which is within the limits; down by one.   *)
Adapted == {depth \in limits.least..limits.most : depth > target}
           \union {depth \in {target, target - 1} : depth >= limits.least}

(* submit() returns, and its locals with it. *)
SubmitReturns == pAt' = "idle" /\ pNumber' = 0 /\ pPlayout' = 0 /\ pPlaying' = FALSE

(* The target follows the jitter up at once and down by one at a time; then *)
(* the producer looks how far the consumer has come.                        *)
AdaptTarget ==
    /\ pAt = "adapt"
    /\ target' \in Adapted
    /\ pPlayout' = playout
    /\ pAt' = "look"
    /\ UNCHANGED <<limits, network, numbering, playout, primed, stamp, data, pNumber,
                   pPlaying, consumer>>

LookWhetherLate ==
    /\ pAt = "look"
    /\ IF primed /\ SequenceBefore(pNumber, pPlayout)
       THEN SubmitReturns
       ELSE /\ pPlaying' = primed
            /\ pAt' = "claim"
            /\ UNCHANGED <<pNumber, pPlayout>>
    /\ UNCHANGED <<network, numbering, depths, playout, primed, stamp, data, consumer>>

(* Mistake: a slot whose packet is next to be played may be taken as well. *)
MayReclaimNext(existing) == pPlaying /\ ~SequenceBefore(pPlayout, existing)

MayReclaim(existing) == pPlaying /\ SequenceBefore(existing, pPlayout)

(* A slot that still holds a packet of another number is only taken when   *)
(* the consumer has moved past it; otherwise the new packet is dropped.    *)
ClaimSlot ==
    /\ pAt = "claim"
    /\ LET i == SlotOf(pNumber)
           free == stamp[i] = None \/ (stamp[i] # pNumber /\ MayReclaim(stamp[i]))
       IN IF free
          THEN /\ data' = [data EXCEPT ![i] = Torn]
               /\ pAt' = "copy"
               /\ UNCHANGED <<pNumber, pPlayout, pPlaying>>
          ELSE SubmitReturns /\ UNCHANGED data
    /\ UNCHANGED <<network, numbering, depths, playout, primed, stamp, consumer>>

CopyPayload ==
    /\ pAt = "copy"
    /\ data' = [data EXCEPT ![SlotOf(pNumber)] = Packet(pNumber, restarts)]
    /\ pAt' = "publish"
    /\ UNCHANGED <<network, numbering, depths, playout, primed, stamp, pNumber,
                   pPlayout, pPlaying, consumer>>

PublishStamp ==
    /\ pAt = "publish"
    /\ stamp' = [stamp EXCEPT ![SlotOf(pNumber)] = pNumber]
    /\ SubmitReturns
    /\ UNCHANGED <<network, numbering, depths, playout, primed, data, consumer>>

Produce == \/ \E number \in Arriving : Submit(number)
           \/ RebaseHighest \/ RebaseEpoch \/ AdaptTarget \/ LookWhetherLate
           \/ ClaimSlot \/ CopyPayload \/ PublishStamp

-----------------------------------------------------------------------------
(* The consumer: beginPacket().  A step that leaves it at "idle" ends it.  *)

(* Mistake: a resync does not send the consumer back to priming. *)
StillPrimedAnyway == primed

StillPrimed == primed /\ epoch = observed

BeginPacket ==
    /\ cAt = "idle"
    /\ observed' = epoch
    /\ primed' = StillPrimed
    /\ cAt' = IF primed' THEN "depth" ELSE "prime"
    /\ UNCHANGED <<network, numbering, depths, playout, stamp, data, producer,
                   cTarget, cHighest, told>>

PrimeLook ==
    /\ cAt = "prime"
    /\ IF hasFirst THEN /\ cTarget' = target
                        /\ cHighest' = highest
                        /\ cAt' = "span"
                   ELSE cAt' = "idle" /\ UNCHANGED <<cTarget, cHighest>>
    /\ UNCHANGED <<network, numbering, depths, playout, primed, stamp, data,
                   producer, observed, told>>

PrimeSpan ==
    /\ cAt = "span"
    /\ IF Distance(cHighest, first) + 1 < cTarget
       THEN cAt' = "idle" /\ UNCHANGED <<playout, told>>
       ELSE /\ playout' = Plus(cHighest, -(cTarget - 1))
            /\ told' = None
            /\ cAt' = "primed"
    /\ cTarget' = MinDepth /\ cHighest' = 0      \* locals of tryPrime()
    /\ UNCHANGED <<network, numbering, depths, primed, stamp, data, producer,
                   observed>>

PrimeDone ==
    /\ cAt = "primed"
    /\ primed' = TRUE
    /\ cAt' = "depth"
    /\ UNCHANGED <<network, numbering, depths, playout, stamp, data, producer,
                   cTarget, cHighest, observed, told>>

Depth == Distance(highest, playout) + 1

Stretches == Depth <= 0 \/ Depth < target - StretchSlack

(* Too shallow: a stretch, which consumes nothing.  Too deep: one packet   *)
(* is trimmed first.  Otherwise the packet that is due is played.          *)
CheckDepth ==
    /\ cAt = "depth"
    /\ cAt' = IF Stretches THEN "idle"
              ELSE IF Depth > target + TrimSlack THEN "trim" ELSE "take"
    /\ UNCHANGED <<network, numbering, depths, playout, primed, stamp, data,
                   producer, cTarget, cHighest, observed, told>>

Due == stamp[SlotOf(playout)] = playout
Release == [stamp EXCEPT ![SlotOf(playout)] = None]

(* Mistake: the trimmed packet is played as well. *)
PastTrimmedSame == playout

PastTrimmed == Plus(playout, 1)

TrimPacket ==
    /\ cAt = "trim"
    /\ IF Due
       THEN /\ told' = playout
            /\ cAt' = "discarding"
            /\ UNCHANGED playout
       ELSE /\ playout' = PastTrimmed
            /\ cAt' = "take"
            /\ UNCHANGED told
    /\ UNCHANGED <<network, numbering, depths, primed, stamp, data, producer,
                   cTarget, cHighest, observed>>

DiscardDecoded ==
    /\ cAt = "discarding"
    /\ stamp' = Release
    /\ cAt' = "trimmed"
    /\ UNCHANGED <<network, numbering, depths, playout, primed, data, producer,
                   cTarget, cHighest, observed, told>>

TrimDone ==
    /\ cAt = "trimmed"
    /\ playout' = PastTrimmed
    /\ cAt' = "take"
    /\ UNCHANGED <<network, numbering, depths, primed, stamp, data, producer,
                   cTarget, cHighest, observed, told>>

TakePacket ==
    /\ cAt = "take"
    /\ cAt' = IF Due THEN "decoding" ELSE "conceal"
    /\ told' = playout
    /\ UNCHANGED <<network, numbering, depths, playout, primed, stamp, data,
                   producer, cTarget, cHighest, observed>>

(* A decoded packet moves playout on before its slot is free; one that     *)
(* cannot be decoded frees the slot and is concealed.                      *)
DecodePacket ==
    /\ cAt = "decoding"
    /\ \/ /\ playout' = Plus(playout, 1)
          /\ cAt' = "release"
          /\ UNCHANGED stamp
       \/ /\ stamp' = Release
          /\ cAt' = "conceal"
          /\ UNCHANGED playout
    /\ UNCHANGED <<network, numbering, depths, primed, data, producer, cTarget,
                   cHighest, observed, told>>

ReleaseSlot ==
    /\ cAt = "release"
    /\ stamp' = [stamp EXCEPT ![SlotOf(Plus(playout, -1))] = None]
    /\ cAt' = "idle"
    /\ UNCHANGED <<network, numbering, depths, playout, primed, data, producer,
                   cTarget, cHighest, observed, told>>

ConcealPacket ==
    /\ cAt = "conceal"
    /\ playout' = Plus(playout, 1)
    /\ cAt' = "idle"
    /\ UNCHANGED <<network, numbering, depths, primed, stamp, data, producer,
                   cTarget, cHighest, observed, told>>

Consume == \/ BeginPacket \/ PrimeLook \/ PrimeSpan \/ PrimeDone \/ CheckDepth
           \/ TrimPacket \/ DiscardDecoded \/ TrimDone
           \/ TakePacket \/ DecodePacket \/ ReleaseSlot \/ ConcealPacket

(* The control thread: configureDepth(), while the other two are at work.   *)
(* It waits for neither; where submit() is about to store its own target,   *)
(* either may be the one that stays.                                        *)
ConfigureDepth ==
    /\ limits' \in Settings
    /\ \/ target' = limits'.least
       \/ pAt = "adapt" /\ UNCHANGED target
    /\ UNCHANGED <<network, numbering, playout, primed, stamp, data, producer, consumer>>

JitterNext == RestartNumbering \/ Produce \/ Consume \/ ConfigureDepth

JitterSpec == JitterInit /\ [][JitterNext]_jitterVars

-----------------------------------------------------------------------------
TypeOK ==
    /\ next \in Numbers /\ restarts \in Nat /\ packets \in Nat
    /\ hasFirst \in BOOLEAN /\ first \in Numbers /\ highest \in Numbers /\ epoch \in Nat
    /\ limits \in Settings /\ target \in MinDepth..MaxDepth
    /\ playout \in Numbers /\ primed \in BOOLEAN
    /\ stamp \in [Slots -> Numbers \union {None}]
    /\ data \in [Slots -> [number : Numbers \union {None}, run : Nat]]
    /\ pAt \in {"idle", "rebase", "epoch", "adapt", "look", "claim", "copy", "publish"}
    /\ pNumber \in Numbers /\ pPlayout \in Numbers /\ pPlaying \in BOOLEAN
    /\ cAt \in {"idle", "prime", "span", "primed", "depth", "trim", "discarding",
                "trimmed", "take", "decoding", "release", "conceal"}
    /\ cTarget \in MinDepth..MaxDepth /\ cHighest \in Numbers /\ observed \in Nat
    /\ told \in Numbers \union {None}

(* While the decoder reads a slot, its bytes are the whole packet of the   *)
(* number that is due: the producer never writes there, however old the    *)
(* view of playout is by which it took the slot.  (audio_stream_receiver   *)
(* .cpp:217 says only a slot the consumer has moved past is reclaimed.)    *)
DecodesWhatIsDue ==
    cAt \in {"decoding", "discarding"} =>
        /\ data[SlotOf(playout)].number = playout
        /\ ~(pAt = "copy" /\ SlotOf(pNumber) = SlotOf(playout))

(* The same while the sender keeps its numbering. *)
DecodesWhatIsDueUntilResync == epoch = 0 => DecodesWhatIsDue

(* Between two primings the decoder is told of every number at most once   *)
(* and in order, whatever arrives twice, late or while a slot is released. *)
ToldInOrder ==
    [][/\ cAt \in {"trim", "take"} /\ told # None
       /\ cAt' \in {"discarding", "decoding", "conceal"}
       => SequenceBefore(told, playout)]_jitterVars

(* In a settled numbering, playout never runs more than one packet ahead   *)
(* of what has arrived, so a stream that pauses resumes without skipping.  *)
PlayoutNotAhead ==
    primed /\ observed = epoch /\ pAt \notin {"rebase", "epoch"} => Depth >= 0

(* Both: what is decoded is the packet that is due, and the stream is not   *)
(* run ahead of.                                                            *)
PlaysWhatIsDue == DecodesWhatIsDueUntilResync /\ PlayoutNotAhead
=============================================================================
