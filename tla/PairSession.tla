---------------------------- MODULE PairSession ----------------------------
(***************************************************************************)
(* The session of one pair in src/platform/windows/windows_peer_audio_     *)
(* transport.cpp: the handshake, the keys of the pair, the nonces, the     *)
(* replay window and the endpoint each end holds the other to, over a      *)
(* network that loses, repeats and reorders, while the guest restarts, its *)
(* router moves it, and the host gives its slot away.                      *)
(*                                                                         *)
(* A nonce prefix is a number never drawn before; what BCrypt computes is  *)
(* reduced to who can open what.  Both ends run the same build.            *)
(***************************************************************************)
EXTENDS Integers

CONSTANTS MaxNonce,     \* maximumNonceCounter
          WindowBits,   \* ReplayWindow::windowBits
          MaxSessions,  \* bound: sessions prepared, by either end
          MaxMoves      \* bound: changes of address

ASSUME BoundAssumption == /\ MaxNonce \in Nat \ {0} /\ WindowBits \in Nat \ {0}
                          /\ MaxSessions \in Nat \ {0} /\ MaxMoves \in Nat

Host == "host"
Guest == "guest"
Ends == {Host, Guest}
Other(e) == IF e = Host THEN Guest ELSE Host

NoPrefix == 0
NoAddress == 0

VARIABLES slot,     \* the PeerSlot each end has for the other
          at,       \* the address each end is seen at
          net,      \* every datagram sent: any may arrive, at any time, or never
          drawn,    \* nonce prefixes drawn
          moves,
          taken,    \* history: what passed the window since it was last reset
          reused,   \* history: two datagrams went out under one nonce
          again     \* history: a datagram passed the window twice

vars == <<slot, at, net, drawn, moves, taken, reused, again>>

(* A slot that was just prepared: nothing of an earlier session is left. *)
Fresh(prefix, peer) ==
    [held |-> TRUE, prefix |-> prefix, counter |-> 0, exhausted |-> FALSE,
     heard |-> NoPrefix, connected |-> FALSE, window |-> {}, peer |-> peer]

Unheld == [Fresh(NoPrefix, NoAddress) EXCEPT !.held = FALSE]

(* Mistake: the prefix is drawn once for the slot, not for every session. *)
PrefixKept(e) == IF slot[e].prefix = NoPrefix THEN drawn + 1 ELSE slot[e].prefix

PrefixDrawn(e) == drawn + 1

(* The guest has an invite; the host has nobody. *)
Init == /\ slot = [e \in Ends |-> IF e = Guest THEN Fresh(1, 1) ELSE Unheld]
        /\ at = [e \in Ends |-> 1]
        /\ net = {}
        /\ drawn = 1 /\ moves = 0
        /\ taken = [e \in Ends |-> {}]
        /\ reused = FALSE /\ again = FALSE

-----------------------------------------------------------------------------
(* buildEncryptedPacket() and sendPacket(). *)

RoomKey == {}

(* derivePeerKey(): both ends sort the two prefixes.  The direction is that *)
(* of the datagram.                                                         *)
PairKey(mine, theirs) == {mine, theirs}

(* Mistake: the counter is checked, but the refusal is forgotten. *)
LatchForgotten(s) == FALSE

Latched(s) == s.exhausted \/ s.counter + 1 >= MaxNonce

Counted(s) == IF s.exhausted THEN s
              ELSE [s EXCEPT !.counter = @ + 1, !.exhausted = Latched(s)]

KeyFor(e, s, type) == IF type = "Hello" \/ s.heard = NoPrefix THEN RoomKey
                      ELSE PairKey(s.prefix, s.heard)

(* What leaves for the other end when s, the slot of e, sends. *)
Datagrams(e, s, type) ==
    IF Latched(s) THEN {}
    ELSE {[type |-> type, from |-> e, prefix |-> s.prefix, counter |-> s.counter + 1,
           key |-> KeyFor(e, s, type), src |-> at[e], dst |-> s.peer]}

Nonce(m) == <<m.from, m.key, m.prefix, m.counter>>

Send(e, s, type) ==
    LET out == Datagrams(e, s, type)
    IN /\ slot' = [slot EXCEPT ![e] = Counted(s)]
       /\ net' = net \union out
       /\ reused' = (reused \/ \E m \in out, o \in net : Nonce(o) = Nonce(m))

(* Data is whatever a session carries: control, chat, audio. *)
SendData(e) ==
    /\ slot[e].connected
    /\ Send(e, slot[e], "Data")
    /\ UNCHANGED <<at, drawn, moves, taken, again>>

Probe ==
    /\ ~slot[Guest].connected
    /\ Send(Guest, slot[Guest], "Hello")
    /\ UNCHANGED <<at, drawn, moves, taken, again>>

Punch ==
    /\ slot[Host].held /\ ~slot[Host].connected
    /\ Send(Host, slot[Host], "Punch")
    /\ UNCHANGED <<at, drawn, moves, taken, again>>

-----------------------------------------------------------------------------
(* ReplayWindow, as the set of the counters its bits stand for. *)

(* Mistake: a counter as old as the window is long is let through. *)
TakesAtEdge(w, c) == c \notin w /\ \A h \in w : h - c <= WindowBits

Takes(w, c) == c \notin w /\ \A h \in w : h - c < WindowBits

Slid(w, c) == {s \in w \union {c} : \A h \in w \union {c} : h - s < WindowBits}

Note(e, m) == /\ again' = (again \/ <<m.prefix, m.counter>> \in taken[e])
              /\ taken' = [taken EXCEPT ![e] = @ \union {<<m.prefix, m.counter>>}]

(* Mistake: the room secret is taken for proof enough of the endpoint. *)
RepinsAnybody(s, m) == FALSE

(* A healthy musician's slot does not follow a Hello from elsewhere. *)
Repins(s, m) == s.connected /\ s.peer # m.src

(* Mistake: the window of the session before is kept. *)
WindowKept(s, m) == Slid(s.window, m.counter)

WindowArmed(s, m) == {m.counter}

(* In session with whoever sent m. *)
Joined(s, m, window) == [s EXCEPT !.peer = m.src, !.connected = TRUE, !.window = window]

(* The host's end: handlePacket(), admitStranger(), handlePacketForSlot(). *)
(* The keys follow the prefix of whatever opens, refused later or not.     *)
ReceiveHello(m) ==
    LET s == IF slot[Host].held THEN slot[Host] ELSE Fresh(PrefixDrawn(Host), m.src)
        keyed == [s EXCEPT !.heard = m.prefix]
    IN /\ m.type = "Hello"
       /\ IF slot[Host].held THEN UNCHANGED drawn
          ELSE drawn < MaxSessions /\ drawn' = drawn + 1
       /\ IF Repins(s, m)
          THEN /\ slot' = [slot EXCEPT ![Host] = keyed]
               /\ UNCHANGED <<net, taken, reused>>
          ELSE /\ Send(Host, Joined(keyed, m, WindowArmed(s, m)), "HelloAck")
               /\ taken' = [taken EXCEPT ![Host] = {<<m.prefix, m.counter>>}]
       /\ UNCHANGED <<at, moves, again>>

(* What the slot of e has after opening m, and whether m opens and belongs *)
(* to the slot at all.  A guest still reaching out takes the answer to its *)
(* Hello from any address.                                                 *)
Keyed(e, m) == [slot[e] EXCEPT !.heard = m.prefix]

Opens(e, m) == /\ slot[e].held
               /\ \/ m.src = slot[e].peer
                  \/ m.type = "HelloAck" /\ ~slot[e].connected
               /\ m.key = PairKey(slot[e].prefix, m.prefix)

ReceiveReplayed(e, m) ==
    /\ m.type # "Hello"
    /\ Opens(e, m) /\ ~Takes(slot[e].window, m.counter)
    /\ slot' = [slot EXCEPT ![e] = Keyed(e, m)]
    /\ UNCHANGED <<at, net, drawn, moves, taken, reused, again>>

ReceiveAnswer(m) ==
    /\ m.type = "HelloAck"
    /\ Opens(Guest, m) /\ Takes(slot[Guest].window, m.counter)
    /\ LET s == Keyed(Guest, m)
       IN slot' = [slot EXCEPT ![Guest] = Joined(s, m, Slid(s.window, m.counter))]
    /\ Note(Guest, m)
    /\ UNCHANGED <<at, net, drawn, moves, reused>>

(* Data is consumed in session and dropped out of it, but a Ping among it  *)
(* is answered out of session too; a Punch only shows that its path works. *)
ReceiveData(e, m) ==
    LET s == [Keyed(e, m) EXCEPT !.window = Slid(@, m.counter)]
    IN /\ m.type \in {"Data", "Punch"}
       /\ Opens(e, m) /\ Takes(slot[e].window, m.counter)
       /\ Note(e, m)
       /\ \/ m.type = "Data" /\ ~s.connected /\ Send(e, s, "Data")
          \/ slot' = [slot EXCEPT ![e] = s] /\ UNCHANGED <<net, reused>>
       /\ UNCHANGED <<at, drawn, moves>>

(* The host is reached wherever it is seen; the guest where it is now. *)
Receive == \E m \in net : \E e \in Ends :
              /\ m.from = Other(e)
              /\ e = Guest => m.dst = at[Guest]
              /\ \/ e = Host /\ ReceiveHello(m)
                 \/ e = Guest /\ ReceiveAnswer(m)
                 \/ ReceiveReplayed(e, m) \/ ReceiveData(e, m)

-----------------------------------------------------------------------------
(* expireSilentPeers(): what was sent may take any time, so an end may hear *)
(* nothing for as long as it takes.                                         *)
Expire(e) ==
    /\ slot[e].connected
    /\ slot' = [slot EXCEPT ![e].connected = FALSE]
    /\ UNCHANGED <<at, net, drawn, moves, taken, reused, again>>

(* stop() and join() at the guest: another socket, another port. *)
Restart ==
    /\ drawn < MaxSessions /\ moves < MaxMoves
    /\ drawn' = drawn + 1 /\ moves' = moves + 1
    /\ at' = [at EXCEPT ![Guest] = @ + 1]
    /\ slot' = [slot EXCEPT ![Guest] = Fresh(PrefixDrawn(Guest), 1)]
    /\ taken' = [taken EXCEPT ![Guest] = {}]
    /\ UNCHANGED <<net, reused, again>>

(* A router gives what an end sends another source address. *)
Move(e) ==
    /\ moves < MaxMoves
    /\ moves' = moves + 1
    /\ at' = [at EXCEPT ![e] = @ + 1]
    /\ UNCHANGED <<slot, net, drawn, taken, reused, again>>

(* allocateSlot(): somebody else needs the slot of a guest gone silent. *)
Recycle ==
    /\ slot[Host].held /\ ~slot[Host].connected
    /\ slot' = [slot EXCEPT ![Host] = Unheld]
    /\ taken' = [taken EXCEPT ![Host] = {}]
    /\ UNCHANGED <<at, net, drawn, moves, reused, again>>

Next == \/ Probe \/ Punch \/ Receive \/ Restart \/ Recycle
        \/ \E e \in Ends : SendData(e) \/ Expire(e) \/ Move(e)

Spec == Init /\ [][Next]_vars

-----------------------------------------------------------------------------
Counters == 0..MaxNonce
Prefixes == 0..MaxSessions
Addresses == 0..(MaxMoves + 1)

Slots == [held : BOOLEAN, prefix : Prefixes, counter : Counters, exhausted : BOOLEAN,
          heard : Prefixes, connected : BOOLEAN, window : SUBSET Counters, peer : Addresses]

TypeOK ==
    /\ slot \in [Ends -> Slots]
    /\ \A e \in Ends : slot[e].connected => slot[e].held /\ slot[e].heard # NoPrefix
    /\ at \in [Ends -> Addresses]
    /\ \A m \in net : /\ m.type \in {"Hello", "HelloAck", "Punch", "Data"}
                      /\ m.from \in Ends /\ m.prefix \in Prefixes \ {NoPrefix}
                      /\ m.counter \in 1..(MaxNonce - 1)
                      /\ m.key = RoomKey <=> m.type = "Hello"
                      /\ m.src \in Addresses /\ m.dst \in Addresses
    /\ drawn \in Prefixes /\ moves \in 0..MaxMoves
    /\ taken \in [Ends -> SUBSET (Prefixes \X Counters)]
    /\ reused \in BOOLEAN /\ again \in BOOLEAN

(* No two datagrams are ever sealed under one key with one nonce, through   *)
(* restarts, recycled slots and exhausted counters.                         *)
NoncesUnique == ~reused

(* Whatever the network repeats or reorders, a datagram passes the window   *)
(* at most once between two Hellos.                                         *)
TakenOnce == ~again

(* The window of the host is never ahead of the guest it is held against:   *)
(* a guest that restarts counts from zero, and is heard all the same.       *)
HostFollowsGuest ==
    slot[Host].peer = at[Guest] /\ slot[Host].heard = slot[Guest].prefix =>
        \A c \in slot[Host].window : c <= slot[Guest].counter

(* While a musician is in session, no other endpoint takes the slot over.   *)
HealthyNotRepinned ==
    [][slot[Host].connected /\ slot'[Host].connected =>
          slot'[Host].peer = slot[Host].peer]_vars

(* docs/multi-participant-architecture.md:135: "A peer that restarts still  *)
(* works. It arrives with a new prefix, the candidate path derives fresh    *)
(* keys, and the session re-establishes".  When it is the host's end that   *)
(* begins anew, its counter restarts, but nothing re-arms the window of the *)
(* guest, which then is ahead of all the host sends.                        *)
GuestFollowsHost ==
    slot[Guest].heard = slot[Host].prefix =>
        \A c \in slot[Guest].window : c <= slot[Host].counter
=============================================================================
