------------------------------ MODULE RoomChat ------------------------------
(***************************************************************************)
(* Chat of src/platform/windows/windows_peer_audio_transport.cpp: one      *)
(* sender, who queues a message for everybody in the room and repeats it   *)
(* until each has acknowledged it, and the musicians it goes to.           *)
(*                                                                         *)
(* A datagram that was sent arrives at any time, any number of times, or   *)
(* never, but none survives a restart of the sender, whose socket and keys *)
(* are new.  A musician who was let in goes on believing to be in session. *)
(***************************************************************************)
EXTENDS Integers, FiniteSets, SequencesExt

CONSTANTS Musicians,    \* who may be in the room with the sender
          MaxSlots,     \* maximumPeerSlots
          MaxPending,   \* maximumPendingChatMessages
          MaxAttempts,  \* maximumChatAttempts
          PerPass,      \* messages sent in one pass of the worker
          PerWindow,    \* maximumChatMessagesPerWindow, inbound
          MaxTexts,     \* bound: messages
          MaxJoins      \* bound: join requests

ASSUME BoundAssumption == /\ {MaxSlots, MaxPending, MaxAttempts, PerPass, PerWindow}
                                \subseteq Nat \ {0}
                          /\ {MaxTexts, MaxJoins} \subseteq Nat

Slots == 1..MaxSlots
Texts == 1..MaxTexts
Nobody == "nobody"
ASSUME MusicianAssumption == Nobody \notin Musicians

VARIABLES pending,      \* pendingChat_
          nextId,       \* nextChatMessageId_
          holder,       \* whose slot it is
          connected,    \* slots in session
          chats,        \* Chat datagrams sent
          acks,         \* ChatAck datagrams sent
          remembered,   \* receivedChatIds_ of each musician
          recent,       \* inboundChatTimes_ of each musician
          shown,        \* history: how often a musician was shown a text
          dropped,      \* history: texts over the rate a musician accepts
          written,      \* texts written so far
          addressed,    \* history: who was in the room when a text was first sent
          left,         \* history: who of them left since
          failed,       \* history: texts reported as not delivered
          joins

bounds == <<written, joins>>
sender == <<pending, nextId, holder, connected>>
musicians == <<remembered, recent, shown, dropped>>
history == <<addressed, left, failed>>
vars == <<sender, musicians, history, chats, acks, bounds>>

Init == /\ pending = <<>> /\ nextId = 1
        /\ holder = [k \in Slots |-> Nobody] /\ connected = {}
        /\ chats = {} /\ acks = {}
        /\ remembered = [m \in Musicians |-> {}]
        /\ recent = [m \in Musicians |-> 0]
        /\ shown = [m \in Musicians |-> [t \in Texts |-> 0]]
        /\ dropped = [m \in Musicians |-> {}]
        /\ written = 0
        /\ addressed = [t \in Texts |-> {}] /\ left = [t \in Texts |-> {}]
        /\ failed = {}
        /\ joins = 0

-----------------------------------------------------------------------------
(* sendChatMessage(), called by the interface. *)
SendChatMessage ==
    /\ connected # {}
    /\ Len(pending) < MaxPending
    /\ written < MaxTexts
    /\ written' = written + 1
    /\ pending' = Append(pending, [id |-> nextId, text |-> written + 1, attempts |-> 0,
                                   awaiting |-> {}, addressed |-> FALSE])
    /\ nextId' = nextId + 1
    /\ UNCHANGED <<holder, connected, musicians, history, chats, acks, joins>>

-----------------------------------------------------------------------------
(* servicePendingChat(), one message at a time.                             *)

Awaiting(entry, present) == IF entry.addressed THEN entry.awaiting \cap present
                            ELSE present

(* What the pass makes of one message: done is what it has kept, sent, and *)
(* reported so far; due tells whether the time for a repetition has come.  *)
Serviced(done, entry, present, due) ==
    LET awaiting == Awaiting(entry, present)
        waits == entry.attempts > 0 /\ ~due
        now == [entry EXCEPT !.addressed = TRUE, !.awaiting = awaiting]
    IN IF done.sent = PerPass THEN [done EXCEPT !.kept = Append(@, entry)]
       ELSE IF awaiting = {} THEN done
       ELSE IF waits THEN [done EXCEPT !.kept = Append(@, now)]
       ELSE IF entry.attempts = MaxAttempts THEN [done EXCEPT !.failed = @ \union {entry.text}]
       ELSE [done EXCEPT !.sent = @ + 1,
                         !.kept = Append(@, [now EXCEPT !.attempts = @ + 1]),
                         !.chats = @ \union {[id |-> entry.id, text |-> entry.text,
                                              to |-> holder[k]] : k \in awaiting}]

Service(present, due) ==
    LET done[i \in 0..Len(pending)] ==
          IF i = 0 THEN [kept |-> <<>>, sent |-> 0, chats |-> {}, failed |-> {}]
          ELSE Serviced(done[i - 1], pending[i], present, pending[i].id \in due)
    IN done[Len(pending)]

(* The messages a pass gets to before it has sent all it may send. *)
NewlyAddressed(kept, t) == \E i \in DOMAIN kept, j \in DOMAIN pending :
                              /\ kept[i].text = t /\ pending[j].text = t
                              /\ kept[i].addressed /\ ~pending[j].addressed

(* run(): expireSilentPeers() at the end of a pass, servicePendingChat() at *)
(* the beginning of the next.                                               *)
NextPass(silent, due) ==
    LET present == connected \ silent
        done == Service(present, due)
        gone == {holder[k] : k \in silent}
    IN /\ connected' = present
       /\ IF present = {}
          THEN UNCHANGED <<pending, chats, failed, addressed>>
          ELSE /\ pending' = done.kept
               /\ chats' = chats \union done.chats
               /\ failed' = failed \union done.failed
               /\ addressed' = [t \in Texts |-> IF NewlyAddressed(done.kept, t)
                                                THEN {holder[k] : k \in present}
                                                ELSE addressed[t]]
       /\ left' = [t \in Texts |-> left[t] \union (gone \cap addressed[t])]
       /\ UNCHANGED <<nextId, holder, musicians, acks, bounds>>

FreeSlots == {k \in Slots : holder[k] = Nobody}

(* Mistake: a musician who returns is taken for a stranger. *)
SlotsForStranger(m) == IF FreeSlots # {} THEN FreeSlots ELSE Slots \ connected

(* A join request: the slot of that musician, a free one, or one whose     *)
(* musician is out of session.                                             *)
SlotsFor(m) == LET own == {k \in Slots : holder[k] = m}
               IN IF own # {} THEN own
                  ELSE IF FreeSlots # {} THEN FreeSlots ELSE Slots \ connected

Join(m) ==
    /\ joins < MaxJoins /\ joins' = joins + 1
    /\ \E k \in SlotsFor(m) \ connected :
          /\ holder' = [holder EXCEPT ![k] = m]
          /\ connected' = connected \union {k}
    /\ UNCHANGED <<pending, nextId, musicians, history, chats, acks, written>>

-----------------------------------------------------------------------------
(* Mistake: a repetition is not looked for among what was seen. *)
AlwaysNew(m, id) == TRUE

IsNew(m, id) == id \notin remembered[m]

(* receiveChatMessage(): acknowledged first, then a repetition is dropped, *)
(* then what exceeds the rate; the rest is shown.                          *)
ReceiveChat(m) == \E c \in chats :
    /\ c.to = m
    /\ acks' = acks \union {[id |-> c.id, from |-> m]}
    /\ \/ ~IsNew(m, c.id) /\ UNCHANGED musicians
       \/ /\ IsNew(m, c.id)
          /\ remembered' = [remembered EXCEPT ![m] = @ \union {c.id}]
          /\ IF recent[m] < PerWindow
             THEN /\ recent' = [recent EXCEPT ![m] = @ + 1]
                  /\ shown' = [shown EXCEPT ![m][c.text] = @ + 1]
                  /\ UNCHANGED dropped
             ELSE /\ dropped' = [dropped EXCEPT ![m] = @ \union {c.text}]
                  /\ UNCHANGED <<recent, shown>>
    /\ UNCHANGED <<sender, history, chats, bounds>>

WindowPasses(m) ==
    /\ recent[m] > 0
    /\ recent' = [recent EXCEPT ![m] = 0]
    /\ UNCHANGED <<sender, remembered, shown, dropped, history, chats, acks, bounds>>

(* Mistake: the first acknowledgement finishes the message for everybody. *)
OwingNobody(entry, k) == {}

Owing(entry, k) == entry.awaiting \ {k}

(* receiveChatAcknowledgement(), from a slot in session. *)
ReceiveChatAck == \E a \in acks, k \in connected, found \in DOMAIN pending :
    /\ holder[k] = a.from /\ pending[found].id = a.id
    /\ LET owing == Owing(pending[found], k)
       IN pending' = IF pending[found].addressed /\ owing = {}
                     THEN RemoveAt(pending, found)
                     ELSE [pending EXCEPT ![found].awaiting = owing]
    /\ UNCHANGED <<nextId, holder, connected, musicians, history, chats, acks, bounds>>

Ids == 1..MaxTexts
Sent == {pending[i].id : i \in {j \in DOMAIN pending : pending[j].attempts > 0}}

Next == \/ SendChatMessage \/ ReceiveChatAck
        \/ \E silent \in SUBSET connected, due \in SUBSET Sent : NextPass(silent, due)
        \/ \E m \in Musicians : Join(m) \/ ReceiveChat(m) \/ WindowPasses(m)

Spec == Init /\ [][Next]_vars

-----------------------------------------------------------------------------
Entries == [id : Ids, text : Texts, attempts : 0..MaxAttempts, awaiting : SUBSET Slots,
            addressed : BOOLEAN]

TypeOK ==
    /\ \A i \in DOMAIN pending : pending[i] \in Entries
    /\ Len(pending) <= MaxPending
    /\ nextId \in 1..(MaxTexts + 1)
    /\ holder \in [Slots -> Musicians \union {Nobody}]
    /\ \A j, k \in Slots : holder[j] = holder[k] /\ j # k => holder[j] = Nobody
    /\ connected \in SUBSET {k \in Slots : holder[k] # Nobody}
    /\ chats \subseteq [id : Ids, text : Texts, to : Musicians]
    /\ acks \subseteq [id : Ids, from : Musicians]
    /\ remembered \in [Musicians -> SUBSET Ids] /\ recent \in [Musicians -> 0..PerWindow]
    /\ shown \in [Musicians -> [Texts -> Nat]] /\ dropped \in [Musicians -> SUBSET Texts]
    /\ written \in 0..MaxTexts /\ joins \in 0..MaxJoins
    /\ addressed \in [Texts -> SUBSET Musicians] /\ left \in [Texts -> SUBSET Musicians]
    /\ failed \subseteq Texts

Queued(t) == \E i \in DOMAIN pending : pending[i].text = t
Got(m, t) == shown[m][t] > 0 \/ t \in dropped[m]

(* However often a message is repeated and its acknowledgement lost, a      *)
(* musician is shown it once.                                               *)
ShownOnce == \A m \in Musicians, t \in Texts : shown[m][t] <= 1

(* A message the sender is done with, without having reported a failure,    *)
(* reached everybody who was in the room when it was first sent and stayed. *)
DoneIsDelivered == \A t \in Texts : t <= written /\ ~Queued(t) /\ t \notin failed =>
                      \A m \in addressed[t] : Got(m, t) \/ m \in left[t]
=============================================================================
