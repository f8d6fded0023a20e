----------------------------- MODULE Session_proofs -----------------------------
(***************************************************************************)
(* What PairSession and TakeJournal promise.                               *)
(*                                                                         *)
(* PairSession, for every limit of the nonce counter, every width of the   *)
(* replay window, and any number of sessions and moves: the invariant has  *)
(* two halves, what has been sent lies behind the counter of its prefix,   *)
(* and what has been taken lies in or behind the window.                   *)
(*                                                                         *)
(* TakeJournal, for any number of takes, launches, crashes and refusals of *)
(* the disk: what a take's folder tells.  The properties are about folders *)
(* and manifests alone.  They last because of what ties them to the rest:  *)
(* the take that is recorded is the one the controller has as active, its  *)
(* manifest cannot be Ready, and a write that is under way carries what is *)
(* true of its folder until it is done or the process dies.                *)
(***************************************************************************)
EXTENDS PairSession, TakeJournal, TLAPS

-----------------------------------------------------------------------------
(* Part one: what two ends take from each other.                           *)

(* The slot of an end, whatever it has been through. *)
SlotSound(s) ==
    /\ s \in Slots
    /\ s.connected => s.held /\ s.heard # NoPrefix
    /\ s.held => s.prefix # NoPrefix
    /\ s.exhausted \/ s.counter < MaxNonce

SlotsSound ==
    /\ slot \in [Ends -> Slots]
    /\ \A e \in Ends : SlotSound(slot[e]) /\ slot[e].prefix <= drawn
    /\ slot[Guest].held
    /\ slot[Host].held => slot[Host].heard # NoPrefix

WellFormed(m) == /\ m.type \in {"Hello", "HelloAck", "Punch", "Data"}
                 /\ m.from \in Ends /\ m.prefix \in Prefixes \ {NoPrefix}
                 /\ m.counter \in 1..(MaxNonce - 1)
                 /\ m.key = RoomKey <=> m.type = "Hello"
                 /\ m.src \in Addresses /\ m.dst \in Addresses

(* Nothing was sent under a prefix still to be drawn, nor under a count    *)
(* its sender has yet to reach.                                            *)
NetSound ==
    \A m \in net : /\ WellFormed(m)
                   /\ m.prefix <= drawn
                   /\ m.prefix = slot[m.from].prefix => m.counter <= slot[m.from].counter

BoundsSound ==
    /\ at \in [Ends -> Addresses] /\ \A e \in Ends : at[e] <= moves + 1
    /\ drawn \in Prefixes /\ moves \in 0..MaxMoves

SendingInv == SlotsSound /\ NetSound /\ BoundsSound /\ NoncesUnique

(* The window has a highest count, and whatever was taken is in the window *)
(* or too far behind that count to be taken again.                         *)
Remembers(window, passed) ==
    \/ window = {} /\ passed = {}
    \/ \E top \in window :
          /\ \A c \in window : c <= top
          /\ \A p \in passed : p[2] \in window \/ top - p[2] >= WindowBits

TakingInv == /\ taken \in [Ends -> SUBSET (Prefixes \X Counters)]
             /\ \A e \in Ends : Remembers(slot[e].window, taken[e])
             /\ TakenOnce

(* The verdicts of the two histories are verdicts. *)
FlagsInv == reused \in BOOLEAN /\ again \in BOOLEAN

PairInv == SendingInv /\ TakingInv /\ FlagsInv

-----------------------------------------------------------------------------
(* A slot that was just prepared is sound, and has nothing of an earlier   *)
(* session in it.                                                          *)
LEMMA FreshSound ==
    ASSUME NEW p \in Prefixes, NEW a \in Addresses
    PROVE  /\ Fresh(p, a) \in Slots /\ Fresh(p, a).held
           /\ Fresh(p, a).prefix = p /\ Fresh(p, a).counter = 0
           /\ ~Fresh(p, a).exhausted /\ Fresh(p, a).heard = NoPrefix
           /\ ~Fresh(p, a).connected /\ Fresh(p, a).window = {}
           /\ Fresh(p, a).peer = a
  BY BoundAssumption DEF Fresh, Slots, Counters, Prefixes, NoPrefix

(* The same of the place of nobody. *)
LEMMA UnheldSound ==
    /\ Unheld \in Slots /\ ~Unheld.held /\ Unheld.prefix = NoPrefix
    /\ Unheld.counter = 0 /\ ~Unheld.exhausted /\ Unheld.heard = NoPrefix
    /\ ~Unheld.connected /\ Unheld.window = {}
<1>1. NoPrefix \in Prefixes /\ NoAddress \in Addresses
  BY BoundAssumption DEF NoPrefix, NoAddress, Prefixes, Addresses
<1> DEFINE s == Fresh(NoPrefix, NoAddress)
<1>2. /\ s \in Slots /\ s.held /\ s.prefix = NoPrefix /\ s.counter = 0
      /\ ~s.exhausted /\ s.heard = NoPrefix /\ ~s.connected
      /\ s.window = {} /\ s.peer = NoAddress
  BY <1>1, FreshSound
<1>3. Unheld = [s EXCEPT !.held = FALSE]
  BY Zenon DEF Unheld
<1> HIDE DEF s
<1> QED  BY <1>2, <1>3 DEF Slots

(* sendPacket() takes one count, and latches when it is the last.          *)
LEMMA CountedSound ==
    ASSUME NEW s, SlotSound(s)
    PROVE  /\ SlotSound(Counted(s))
           /\ Counted(s).counter >= s.counter
           /\ ~Latched(s) => Counted(s).counter = s.counter + 1
           /\ Counted(s).held = s.held /\ Counted(s).prefix = s.prefix
           /\ Counted(s).heard = s.heard /\ Counted(s).window = s.window
           /\ Counted(s).connected = s.connected /\ Counted(s).peer = s.peer
<1>0. s \in Slots /\ s.counter \in Nat  BY DEF SlotSound, Slots, Counters
<1>1. CASE s.exhausted
  BY <1>0, <1>1 DEF Counted, Latched, SlotSound
<1>2. CASE ~s.exhausted
  <2>1. s.counter < MaxNonce  BY <1>2 DEF SlotSound
  <2>2. s.counter + 1 \in Counters  BY <1>0, <2>1, BoundAssumption DEF Counters
  <2>3. Latched(s) \in BOOLEAN /\ (Latched(s) \/ s.counter + 1 < MaxNonce)
    BY <1>0, <1>2, BoundAssumption DEF Latched
  <2> DEFINE later == [s EXCEPT !.counter = s.counter + 1]
  <2>4. Counted(s) = [later EXCEPT !.exhausted = Latched(s)]
    BY <1>2, Zenon DEF Counted
  <2>6. /\ later \in Slots /\ later.counter = s.counter + 1
        /\ later.held = s.held /\ later.prefix = s.prefix /\ later.heard = s.heard
        /\ later.window = s.window /\ later.connected = s.connected
        /\ later.peer = s.peer
    BY <1>0, <2>2 DEF Slots
  <2> HIDE DEF later
  <2>5. /\ Counted(s) \in Slots
        /\ Counted(s).counter = s.counter + 1 /\ Counted(s).exhausted = Latched(s)
        /\ Counted(s).held = s.held /\ Counted(s).prefix = s.prefix
        /\ Counted(s).heard = s.heard /\ Counted(s).window = s.window
        /\ Counted(s).connected = s.connected /\ Counted(s).peer = s.peer
    BY <2>3, <2>4, <2>6 DEF Slots
  <2> QED  BY <1>0, <2>3, <2>5 DEF SlotSound
<1> QED  BY <1>1, <1>2

(* Whatever an end sends from its slot, or from one with a prefix just     *)
(* drawn, goes out under a nonce that no datagram had before.              *)
LEMMA SendKeeps ==
    ASSUME SendingInv, NEW e \in Ends, NEW s, SlotSound(s), s.held,
           NEW type \in {"Hello", "HelloAck", "Punch", "Data"},
           type # "Hello" => s.heard # NoPrefix,
           drawn' \in Nat, drawn <= drawn', s.prefix <= drawn',
           \/ s.prefix = slot[e].prefix /\ s.counter = slot[e].counter
           \/ s.prefix > drawn,
           Send(e, s, type)
    PROVE  /\ NetSound' /\ NoncesUnique'
           /\ slot' = [slot EXCEPT ![e] = Counted(s)]
<1>1. /\ slot' = [slot EXCEPT ![e] = Counted(s)]
      /\ net' = net \union Datagrams(e, s, type)
      /\ reused' = (reused \/ \E m \in Datagrams(e, s, type), o \in net : Nonce(o) = Nonce(m))
  BY DEF Send
<1>2. /\ slot \in [Ends -> Slots] /\ s \in Slots /\ s.prefix # NoPrefix
      /\ s.counter \in Nat /\ s.prefix \in Prefixes /\ s.peer \in Addresses
      /\ slot[e].counter \in Nat /\ slot[e].prefix \in Nat /\ slot[e].prefix <= drawn
      /\ drawn \in Nat /\ at[e] \in Addresses
  BY DEF SendingInv, SlotsSound, SlotSound, Slots, BoundsSound, Counters, Prefixes
<1>3. /\ Counted(s) \in Slots /\ Counted(s).counter >= s.counter
      /\ Counted(s).counter \in Nat /\ Counted(s).prefix = s.prefix
      /\ ~Latched(s) => Counted(s).counter = s.counter + 1
  BY CountedSound DEF SlotSound, Slots, Counters
<1>4. /\ slot'[e] = Counted(s)
      /\ \A o \in Ends \ {e} : slot'[o] = slot[o]
  BY <1>1, <1>2
<1>5. ASSUME NEW o \in net
      PROVE  /\ WellFormed(o) /\ o.prefix <= drawn'
             /\ o.prefix = slot'[o.from].prefix => o.counter <= slot'[o.from].counter
             /\ o.from = e /\ o.prefix = s.prefix => o.counter <= s.counter
  <2>1. /\ WellFormed(o) /\ o.prefix <= drawn
        /\ o.prefix = slot[o.from].prefix => o.counter <= slot[o.from].counter
    BY DEF SendingInv, NetSound
  <2>2. o.prefix \in Nat /\ o.counter \in Nat /\ o.from \in Ends
    BY <2>1, BoundAssumption DEF WellFormed, Prefixes
  <2>3. o.from = e /\ o.prefix = s.prefix => o.counter <= s.counter
    BY <2>1, <2>2, <1>2
  <2>4. CASE o.from = e
    BY <2>1, <2>2, <2>3, <2>4, <1>2, <1>3, <1>4
  <2>5. CASE o.from # e
    BY <2>1, <2>2, <2>5, <1>2, <1>4
  <2> QED  BY <2>1, <2>2, <2>3, <2>4, <2>5, <1>2
<1>6. ASSUME NEW m \in Datagrams(e, s, type)
      PROVE  /\ WellFormed(m) /\ m.prefix <= drawn'
             /\ m.prefix = slot'[m.from].prefix => m.counter <= slot'[m.from].counter
             /\ \A o \in net : Nonce(o) # Nonce(m)
  <2>1. /\ ~Latched(s)
        /\ m = [type |-> type, from |-> e, prefix |-> s.prefix, counter |-> s.counter + 1,
                key |-> KeyFor(e, s, type), src |-> at[e], dst |-> s.peer]
    BY <1>6 DEF Datagrams
  <2>2. s.counter + 1 < MaxNonce
    BY <2>1, <1>2, BoundAssumption DEF Latched
  <2>3. KeyFor(e, s, type) = RoomKey <=> type = "Hello"
    BY DEF KeyFor, RoomKey, PairKey
  <2>4. WellFormed(m)
    BY <2>1, <2>2, <2>3, <1>2, BoundAssumption DEF WellFormed
  <2>5. \A o \in net : Nonce(o) # Nonce(m)
    BY <2>1, <1>5, <1>2, BoundAssumption DEF Nonce, WellFormed
  <2> QED  BY <2>1, <2>4, <2>5, <1>2, <1>3, <1>4
<1>7. NetSound'
  BY <1>1, <1>5, <1>6 DEF NetSound, WellFormed
<1>8. NoncesUnique'
  BY <1>1, <1>6 DEF NoncesUnique, SendingInv
<1> QED  BY <1>1, <1>7, <1>8

(* What a slot keeps when its fields are set one after the other. *)
LEMMA HeardSound ==
    ASSUME NEW s \in Slots, NEW h \in Prefixes, NEW k, k = [s EXCEPT !.heard = h]
    PROVE  /\ k \in Slots /\ k.heard = h
           /\ k.held = s.held /\ k.prefix = s.prefix /\ k.counter = s.counter
           /\ k.exhausted = s.exhausted /\ k.connected = s.connected
           /\ k.window = s.window /\ k.peer = s.peer
  BY DEF Slots

(* The same of the window. *)
LEMMA SlidSound ==
    ASSUME NEW s \in Slots, NEW w \in SUBSET Counters, NEW k, k = [s EXCEPT !.window = w]
    PROVE  /\ k \in Slots /\ k.window = w
           /\ k.held = s.held /\ k.prefix = s.prefix /\ k.counter = s.counter
           /\ k.exhausted = s.exhausted /\ k.connected = s.connected
           /\ k.heard = s.heard /\ k.peer = s.peer
  BY DEF Slots

(* And of what makes a session. *)
LEMMA JoinedSound ==
    ASSUME NEW s \in Slots, NEW m, m.src \in Addresses, NEW w \in SUBSET Counters,
           NEW j, j = Joined(s, m, w)
    PROVE  /\ j \in Slots /\ j.window = w /\ j.peer = m.src /\ j.connected
           /\ j.held = s.held /\ j.prefix = s.prefix /\ j.counter = s.counter
           /\ j.exhausted = s.exhausted /\ j.heard = s.heard
<1> DEFINE a == [s EXCEPT !.peer = m.src]
           b == [a EXCEPT !.connected = TRUE]
<1>1. j = [b EXCEPT !.window = w]
  BY Zenon DEF Joined
<1>2. /\ a \in Slots /\ a.peer = m.src /\ a.held = s.held /\ a.prefix = s.prefix
      /\ a.counter = s.counter /\ a.exhausted = s.exhausted /\ a.heard = s.heard
  BY DEF Slots
<1> HIDE DEF a
<1>3. /\ b \in Slots /\ b.peer = m.src /\ b.connected
      /\ b.held = s.held /\ b.prefix = s.prefix
      /\ b.counter = s.counter /\ b.exhausted = s.exhausted /\ b.heard = s.heard
  BY <1>2 DEF Slots
<1> HIDE DEF b
<1> QED  BY <1>1, <1>3 DEF Slots

(* One end's slot is replaced by a sound one. *)
LEMMA SlotKeeps ==
    ASSUME SlotsSound, drawn \in Nat, drawn' \in Nat, drawn <= drawn',
           NEW e \in Ends, NEW s, SlotSound(s), s.prefix <= drawn',
           e = Guest => s.held, e = Host /\ s.held => s.heard # NoPrefix,
           slot' = [slot EXCEPT ![e] = s]
    PROVE  SlotsSound'
<1>1. slot \in [Ends -> Slots] /\ s \in Slots  BY DEF SlotsSound, SlotSound
<1>2. slot' \in [Ends -> Slots]  BY <1>1
<1>3. slot'[e] = s /\ \A o \in Ends \ {e} : slot'[o] = slot[o]  BY <1>1
<1>4. \A o \in Ends : slot[o].prefix \in Nat  BY <1>1 DEF Slots, Prefixes
<1>5. \A o \in Ends : SlotSound(slot'[o]) /\ slot'[o].prefix <= drawn'
  BY <1>3, <1>4 DEF SlotsSound
<1>6. Host \in Ends /\ Guest \in Ends /\ Host # Guest  BY DEF Ends, Host, Guest
<1> QED  BY <1>2, <1>3, <1>5, <1>6 DEF SlotsSound, SlotSound

(* A slot that changes without sending, and goes on counting or begins     *)
(* with a prefix nothing was sent under, leaves the network sound.         *)
LEMMA QuietKeeps ==
    ASSUME SendingInv, NEW e \in Ends, NEW s \in Slots, slot' = [slot EXCEPT ![e] = s],
           drawn' \in Nat, drawn <= drawn', UNCHANGED <<net, reused>>,
           \/ s.prefix = slot[e].prefix /\ s.counter = slot[e].counter
           \/ s.prefix > drawn
           \/ s.prefix = NoPrefix
    PROVE  NetSound' /\ NoncesUnique'
<1>1. slot \in [Ends -> Slots] /\ drawn \in Nat
  BY DEF SendingInv, SlotsSound, BoundsSound, Prefixes
<1>2. slot'[e] = s /\ \A o \in Ends \ {e} : slot'[o] = slot[o]  BY <1>1
<1>3. s.prefix \in Nat /\ s.counter \in Nat  BY DEF Slots, Prefixes, Counters
<1>4. ASSUME NEW m \in net
      PROVE  /\ WellFormed(m) /\ m.prefix <= drawn'
             /\ m.prefix = slot'[m.from].prefix => m.counter <= slot'[m.from].counter
  <2>1. /\ WellFormed(m) /\ m.prefix <= drawn
        /\ m.prefix = slot[m.from].prefix => m.counter <= slot[m.from].counter
    BY DEF SendingInv, NetSound
  <2>2. m.prefix \in Nat /\ m.prefix # NoPrefix /\ m.from \in Ends
    BY <2>1 DEF WellFormed, Prefixes
  <2> QED  BY <2>1, <2>2, <1>1, <1>2, <1>3
<1> QED  BY <1>4 DEF NetSound, SendingInv, NoncesUnique, WellFormed

-----------------------------------------------------------------------------
(* The guest has its invite, and nothing was sent. *)
LEMMA SendingInit == Init => SendingInv
<1> SUFFICES ASSUME Init PROVE SendingInv  OBVIOUS
<1>1. 1 \in Prefixes /\ 1 \in Addresses
  BY BoundAssumption DEF Prefixes, Addresses
<1>2. /\ slot = [e \in Ends |-> IF e = Guest THEN Fresh(1, 1) ELSE Unheld]
      /\ at = [e \in Ends |-> 1] /\ net = {} /\ drawn = 1 /\ moves = 0 /\ reused = FALSE
  BY DEF Init
<1>3. Host \in Ends /\ Guest \in Ends /\ Host # Guest  BY DEF Ends, Host, Guest
<1>4. slot[Guest] = Fresh(1, 1) /\ slot[Host] = Unheld  BY <1>2, <1>3
<1>5. /\ Fresh(1, 1) \in Slots /\ Fresh(1, 1).held
      /\ Fresh(1, 1).prefix = 1 /\ Fresh(1, 1).counter = 0
      /\ ~Fresh(1, 1).connected
  BY <1>1, FreshSound
<1>6. SlotSound(slot[Guest]) /\ slot[Guest].prefix <= drawn /\ slot[Guest].held
  BY <1>2, <1>4, <1>5, BoundAssumption DEF SlotSound, NoPrefix
<1>7. SlotSound(slot[Host]) /\ slot[Host].prefix <= drawn /\ ~slot[Host].held
  BY <1>2, <1>4, UnheldSound, BoundAssumption DEF SlotSound, NoPrefix
<1>8. SlotsSound
  <2>1. \A e \in Ends : slot[e] \in Slots  BY <1>6, <1>7 DEF Ends, SlotSound
  <2> QED  BY <2>1, <1>2, <1>6, <1>7 DEF SlotsSound, Ends
<1>9. NetSound /\ NoncesUnique  BY <1>2 DEF NetSound, NoncesUnique
<1>10. BoundsSound
  BY <1>1, <1>2, BoundAssumption DEF BoundsSound
<1> QED  BY <1>8, <1>9, <1>10 DEF SendingInv

(* Nothing that is sent without more breaks it: sealed probes, punches and *)
(* whatever a session carries.                                             *)
LEMMA SendingKept ==
    ASSUME SendingInv, NEW e \in Ends, NEW s, SlotSound(s), s.held,
           e = Host => s.heard # NoPrefix,
           s.prefix = slot[e].prefix, s.counter = slot[e].counter,
           NEW type \in {"Hello", "HelloAck", "Punch", "Data"},
           type # "Hello" => s.heard # NoPrefix,
           Send(e, s, type), UNCHANGED <<at, drawn, moves>>
    PROVE  SendingInv'
<1>1. drawn \in Nat /\ drawn' \in Nat /\ drawn <= drawn' /\ s.prefix <= drawn'
  BY DEF SendingInv, BoundsSound, SlotsSound, Prefixes
<1>2. NetSound' /\ NoncesUnique' /\ slot' = [slot EXCEPT ![e] = Counted(s)]
  BY <1>1, SendKeeps
<1>3. /\ SlotSound(Counted(s)) /\ Counted(s).prefix = s.prefix
      /\ Counted(s).held = s.held /\ Counted(s).heard = s.heard
  BY CountedSound
<1>4. SlotsSound'
  BY <1>1, <1>2, <1>3, SlotKeeps DEF SendingInv
<1>5. BoundsSound'  BY DEF SendingInv, BoundsSound
<1> QED  BY <1>2, <1>4, <1>5 DEF SendingInv

(* Nor does a slot that goes on counting under its prefix. *)
LEMMA SilentKept ==
    ASSUME SendingInv, NEW e \in Ends, NEW s, SlotSound(s), s.held,
           e = Host => s.heard # NoPrefix,
           s.prefix = slot[e].prefix, s.counter = slot[e].counter,
           slot' = [slot EXCEPT ![e] = s], UNCHANGED <<at, net, drawn, moves, reused>>
    PROVE  SendingInv'
<1>1. drawn \in Nat /\ drawn' \in Nat /\ drawn <= drawn' /\ s.prefix <= drawn'
      /\ s \in Slots
  BY DEF SendingInv, BoundsSound, SlotsSound, Prefixes, SlotSound
<1>2. NetSound' /\ NoncesUnique'  BY <1>1, QuietKeeps
<1>3. SlotsSound'  BY <1>1, SlotKeeps DEF SendingInv
<1>4. BoundsSound'  BY DEF SendingInv, BoundsSound
<1> QED  BY <1>2, <1>3, <1>4 DEF SendingInv

(* The slot of the host after a Hello, and after it was made a session. *)
LEMMA HelloSlot ==
    ASSUME SendingInv, NEW m \in net, ReceiveHello(m),
           NEW s, s = IF slot[Host].held THEN slot[Host] ELSE Fresh(PrefixDrawn(Host), m.src),
           NEW keyed, keyed = [s EXCEPT !.heard = m.prefix]
    PROVE  /\ SlotSound(keyed) /\ keyed.held /\ keyed.heard # NoPrefix
           /\ keyed.prefix <= drawn' /\ drawn' \in Prefixes /\ drawn <= drawn'
           /\ \/ keyed.prefix = slot[Host].prefix /\ keyed.counter = slot[Host].counter
              \/ keyed.prefix > drawn
           /\ keyed.window = s.window /\ keyed.window \in SUBSET Counters
           /\ m.src \in Addresses /\ m.counter \in Counters
<1>1. WellFormed(m)  BY DEF SendingInv, NetSound
<1>2. /\ m.src \in Addresses /\ m.counter \in Counters /\ m.prefix \in Prefixes
      /\ m.prefix # NoPrefix
  BY <1>1, BoundAssumption DEF WellFormed, Counters
<1>3. /\ drawn \in Nat /\ drawn \in Prefixes
      /\ Host \in Ends /\ SlotSound(slot[Host]) /\ slot[Host].prefix <= drawn
  BY DEF SendingInv, BoundsSound, Prefixes, SlotsSound, Ends
<1>4. CASE slot[Host].held
  <2>1. s = slot[Host] /\ s \in Slots /\ drawn' = drawn
    BY <1>3, <1>4 DEF SlotSound, ReceiveHello
  <2>2. /\ keyed \in Slots /\ keyed.heard = m.prefix
        /\ keyed.held = s.held /\ keyed.prefix = s.prefix /\ keyed.counter = s.counter
        /\ keyed.exhausted = s.exhausted /\ keyed.connected = s.connected
        /\ keyed.window = s.window
    BY <2>1, <1>2, HeardSound
  <2>3. SlotSound(keyed)  BY <2>1, <2>2, <1>2, <1>3, <1>4 DEF SlotSound
  <2> QED  BY <2>1, <2>2, <2>3, <1>2, <1>3, <1>4 DEF Slots
<1>5. CASE ~slot[Host].held
  <2>1. s = Fresh(drawn + 1, m.src) /\ drawn < MaxSessions /\ drawn' = drawn + 1
    BY <1>5 DEF ReceiveHello, PrefixDrawn
  <2>2. drawn + 1 \in Prefixes
    BY <2>1, <1>3, BoundAssumption DEF Prefixes
  <2>3. /\ s \in Slots /\ s.held /\ s.prefix = drawn + 1 /\ s.counter = 0
        /\ ~s.exhausted /\ ~s.connected /\ s.window = {}
    BY <2>1, <2>2, <1>2, FreshSound
  <2>4. /\ keyed \in Slots /\ keyed.heard = m.prefix
        /\ keyed.held = s.held /\ keyed.prefix = s.prefix /\ keyed.counter = s.counter
        /\ keyed.exhausted = s.exhausted /\ keyed.connected = s.connected
        /\ keyed.window = s.window
    BY <2>3, <1>2, HeardSound
  <2>5. SlotSound(keyed)
    BY <2>3, <2>4, <1>2, <1>3, BoundAssumption DEF SlotSound, NoPrefix
  <2> QED  BY <2>1, <2>2, <2>3, <2>4, <2>5, <1>2, <1>3
<1> QED  BY <1>4, <1>5

(* A window only ever holds counts. *)
LEMMA SlidTyped ==
    ASSUME NEW w \in SUBSET Counters, NEW c \in Counters
    PROVE  Slid(w, c) \in SUBSET Counters
  BY DEF Slid

(* Every step keeps what is sent under one nonce apart. *)
LEMMA SendingStep == SendingInv /\ [Next]_vars => SendingInv'
<1> SUFFICES ASSUME SendingInv, [Next]_vars PROVE SendingInv'  OBVIOUS
<1>0. /\ Host \in Ends /\ Guest \in Ends /\ Host # Guest
      /\ \A e \in Ends : SlotSound(slot[e]) /\ slot[e] \in Slots
      /\ slot \in [Ends -> Slots]
      /\ slot[Guest].held /\ (slot[Host].held => slot[Host].heard # NoPrefix)
  BY DEF Ends, Host, Guest, SendingInv, SlotsSound, SlotSound
<1>00. /\ drawn \in Nat /\ drawn \in Prefixes /\ moves \in Nat
       /\ at \in [Ends -> Addresses]
  BY DEF SendingInv, BoundsSound, Prefixes
<1>000. \A m \in net : /\ m.prefix \in Prefixes /\ m.prefix # NoPrefix
                       /\ m.counter \in Counters /\ m.src \in Addresses
  BY BoundAssumption DEF SendingInv, NetSound, WellFormed, Counters
<1>1. ASSUME NEW e \in Ends, SendData(e) PROVE SendingInv'
  BY <1>0, <1>1, SendingKept DEF SendData, SlotSound
<1>2. CASE Probe
  BY <1>0, <1>2, SendingKept DEF Probe
<1>3. CASE Punch
  BY <1>0, <1>3, SendingKept DEF Punch
<1>4. ASSUME NEW m \in net, ReceiveHello(m) PROVE SendingInv'
  <2> DEFINE s == IF slot[Host].held THEN slot[Host] ELSE Fresh(PrefixDrawn(Host), m.src)
             keyed == [s EXCEPT !.heard = m.prefix]
             joined == Joined(keyed, m, WindowArmed(s, m))
  <2>1. /\ SlotSound(keyed) /\ keyed.held /\ keyed.heard # NoPrefix
        /\ keyed.prefix <= drawn' /\ drawn' \in Prefixes /\ drawn <= drawn'
        /\ \/ keyed.prefix = slot[Host].prefix /\ keyed.counter = slot[Host].counter
           \/ keyed.prefix > drawn
        /\ m.src \in Addresses /\ m.counter \in Counters
    BY <1>4, HelloSlot
  <2>2. UNCHANGED <<at, moves>>
    BY <1>4 DEF ReceiveHello
  <2>3. BoundsSound'
    BY <2>1, <2>2 DEF SendingInv, BoundsSound
  <2>4. \/ slot' = [slot EXCEPT ![Host] = keyed] /\ UNCHANGED <<net, reused>>
        \/ Send(Host, joined, "HelloAck")
    BY <1>4, Zenon DEF ReceiveHello
  <2>5. WindowArmed(s, m) \in SUBSET Counters
    BY <2>1 DEF WindowArmed
  <2> HIDE DEF s
  <2>50. keyed \in Slots /\ m.src \in Addresses  BY <2>1 DEF SlotSound
  <2> HIDE DEF keyed
  <2> DEFINE armed == WindowArmed(s, m)
  <2> HIDE DEF armed
  <2>6. /\ SlotSound(joined) /\ joined.held /\ joined.heard # NoPrefix
        /\ joined.prefix = keyed.prefix /\ joined.counter = keyed.counter
    <3>1. armed \in SUBSET Counters /\ joined = Joined(keyed, m, armed)
      BY <2>5, Zenon DEF armed
    <3> HIDE DEF joined
    <3>2. /\ joined \in Slots /\ joined.connected
          /\ joined.held = keyed.held /\ joined.prefix = keyed.prefix
          /\ joined.counter = keyed.counter /\ joined.exhausted = keyed.exhausted
          /\ joined.heard = keyed.heard
      BY <2>50, <3>1, JoinedSound
    <3> QED  BY <2>1, <3>2 DEF SlotSound
  <2> HIDE DEF joined
  <2>8. drawn' \in Nat  BY <2>1 DEF Prefixes
  <2>9. CASE slot' = [slot EXCEPT ![Host] = keyed] /\ UNCHANGED <<net, reused>>
    <3>1. NetSound' /\ NoncesUnique'
      BY <1>0, <2>1, <2>8, <2>9, <2>50, QuietKeeps
    <3>2. SlotsSound'
      BY <1>0, <1>00, <2>1, <2>8, <2>9, SlotKeeps DEF SendingInv
    <3> QED  BY <2>3, <3>1, <3>2 DEF SendingInv
  <2>10. CASE Send(Host, joined, "HelloAck")
    <3>1. /\ NetSound' /\ NoncesUnique'
          /\ slot' = [slot EXCEPT ![Host] = Counted(joined)]
      <4>1. /\ joined.held /\ joined.heard # NoPrefix /\ joined.prefix <= drawn'
            /\ \/ joined.prefix = slot[Host].prefix /\ joined.counter = slot[Host].counter
               \/ joined.prefix > drawn
        BY <2>1, <2>6
      <4>2. "HelloAck" \in {"Hello", "HelloAck", "Punch", "Data"}  OBVIOUS
      <4> QED  BY <1>0, <2>1, <2>6, <2>8, <2>10, <4>1, <4>2, SendKeeps, Zenon
    <3>2. /\ SlotSound(Counted(joined)) /\ Counted(joined).prefix = joined.prefix
          /\ Counted(joined).held = joined.held /\ Counted(joined).heard = joined.heard
      BY <2>6, CountedSound
    <3>3. SlotsSound'
      BY <1>0, <1>00, <2>1, <2>6, <2>8, <3>1, <3>2, SlotKeeps DEF SendingInv
    <3> QED  BY <2>3, <3>1, <3>3 DEF SendingInv
  <2> QED  BY <2>4, <2>9, <2>10
<1>5. ASSUME NEW e \in Ends, NEW m \in net, Opens(e, m)
      PROVE  /\ SlotSound(Keyed(e, m)) /\ Keyed(e, m) \in Slots /\ Keyed(e, m).held
             /\ Keyed(e, m).heard # NoPrefix
             /\ Keyed(e, m).prefix = slot[e].prefix /\ Keyed(e, m).counter = slot[e].counter
             /\ Keyed(e, m).window = slot[e].window
  <2>1. /\ Keyed(e, m) \in Slots /\ Keyed(e, m).heard = m.prefix
        /\ Keyed(e, m).held = slot[e].held /\ Keyed(e, m).prefix = slot[e].prefix
        /\ Keyed(e, m).counter = slot[e].counter
        /\ Keyed(e, m).exhausted = slot[e].exhausted
        /\ Keyed(e, m).connected = slot[e].connected
        /\ Keyed(e, m).window = slot[e].window
    BY <1>0, <1>000, HeardSound DEF Keyed
  <2> QED  BY <1>0, <1>000, <1>5, <2>1 DEF SlotSound, Opens
<1>6. ASSUME NEW e \in Ends, NEW m \in net, ReceiveReplayed(e, m) PROVE SendingInv'
  BY <1>5, <1>6, SilentKept DEF ReceiveReplayed
<1>7. ASSUME NEW m \in net, ReceiveAnswer(m) PROVE SendingInv'
  <2> DEFINE s == Keyed(Guest, m)
             joined == Joined(s, m, Slid(s.window, m.counter))
  <2>1. /\ SlotSound(s) /\ s \in Slots /\ s.held /\ s.heard # NoPrefix
        /\ s.prefix = slot[Guest].prefix /\ s.counter = slot[Guest].counter
    BY <1>0, <1>5, <1>7 DEF ReceiveAnswer
  <2>2. slot' = [slot EXCEPT ![Guest] = joined] /\ UNCHANGED <<at, net, drawn, moves, reused>>
    BY <1>7 DEF ReceiveAnswer
  <2> HIDE DEF s
  <2>3. s.window \in SUBSET Counters  BY <2>1 DEF Slots
  <2>30. Slid(s.window, m.counter) \in SUBSET Counters /\ m.src \in Addresses
    BY <2>3, <1>000, SlidTyped
  <2>10. s \in Slots  BY <2>1
  <2>31. m.src \in Addresses  BY <2>30
  <2>4. /\ SlotSound(joined) /\ joined.held /\ joined.heard # NoPrefix
        /\ joined.prefix = s.prefix /\ joined.counter = s.counter
    <3> DEFINE slid == Slid(s.window, m.counter)
    <3>1. slid \in SUBSET Counters /\ joined = Joined(s, m, slid)
      BY <2>30, Zenon
    <3> HIDE DEF joined, slid
    <3>2. /\ joined \in Slots /\ joined.connected
          /\ joined.held = s.held /\ joined.prefix = s.prefix
          /\ joined.counter = s.counter /\ joined.exhausted = s.exhausted
          /\ joined.heard = s.heard
      BY <2>10, <2>31, <3>1, JoinedSound
    <3> QED  BY <2>1, <3>2 DEF SlotSound
  <2> HIDE DEF joined
  <2> QED  BY <1>0, <2>1, <2>2, <2>4, SilentKept
<1>8. ASSUME NEW e \in Ends, NEW m \in net, ReceiveData(e, m) PROVE SendingInv'
  <2> DEFINE keyed == Keyed(e, m)
             slid == Slid(keyed.window, m.counter)
             s == [keyed EXCEPT !.window = slid]
  <2>1. /\ SlotSound(keyed) /\ keyed \in Slots /\ keyed.held /\ keyed.heard # NoPrefix
        /\ keyed.prefix = slot[e].prefix /\ keyed.counter = slot[e].counter
    BY <1>5, <1>8 DEF ReceiveData
  <2>2. /\ UNCHANGED <<at, drawn, moves>>
        /\ \/ Send(e, s, "Data")
           \/ slot' = [slot EXCEPT ![e] = s] /\ UNCHANGED <<net, reused>>
    BY <1>8, Zenon DEF ReceiveData
  <2> HIDE DEF keyed
  <2>3. slid \in SUBSET Counters
    BY <2>1, <1>000, SlidTyped DEF Slots
  <2> HIDE DEF slid
  <2>4. /\ SlotSound(s) /\ s.held /\ s.heard # NoPrefix
        /\ s.prefix = keyed.prefix /\ s.counter = keyed.counter
    <3>1. /\ s \in Slots /\ s.held = keyed.held /\ s.prefix = keyed.prefix
          /\ s.counter = keyed.counter /\ s.exhausted = keyed.exhausted
          /\ s.connected = keyed.connected /\ s.heard = keyed.heard
      BY <2>1, <2>3 DEF Slots
    <3> HIDE DEF s
    <3> QED  BY <2>1, <3>1 DEF SlotSound
  <2> HIDE DEF s
  <2>6. CASE Send(e, s, "Data")
    BY <2>1, <2>2, <2>4, <2>6, SendingKept
  <2>7. CASE slot' = [slot EXCEPT ![e] = s] /\ UNCHANGED <<net, reused>>
    BY <2>1, <2>2, <2>4, <2>7, SilentKept
  <2> QED  BY <2>2, <2>6, <2>7
<1>9. CASE Receive
  BY <1>4, <1>6, <1>7, <1>8, <1>9 DEF Receive
<1>10. ASSUME NEW e \in Ends, Expire(e) PROVE SendingInv'
  <2> DEFINE s == [slot[e] EXCEPT !.connected = FALSE]
  <2>1. slot' = [slot EXCEPT ![e] = s] /\ UNCHANGED <<at, net, drawn, moves, reused>>
    BY <1>0, <1>10 DEF Expire
  <2>2. /\ s \in Slots /\ s.held = slot[e].held /\ s.prefix = slot[e].prefix
        /\ s.counter = slot[e].counter /\ s.exhausted = slot[e].exhausted
        /\ ~s.connected /\ s.heard = slot[e].heard
    BY <1>0 DEF Slots
  <2> HIDE DEF s
  <2>3. slot[e].held  BY <1>0, <1>10 DEF Expire, SlotSound
  <2>4. SlotSound(s)  BY <1>0, <2>2 DEF SlotSound
  <2> QED  BY <1>0, <2>1, <2>2, <2>3, <2>4, SilentKept
<1>11. CASE Restart
  <2>1. /\ drawn < MaxSessions /\ moves < MaxMoves /\ drawn' = drawn + 1 /\ moves' = moves + 1
        /\ at' = [at EXCEPT ![Guest] = @ + 1]
        /\ slot' = [slot EXCEPT ![Guest] = Fresh(drawn + 1, 1)]
        /\ UNCHANGED <<net, reused>>
    BY <1>11 DEF Restart, PrefixDrawn
  <2>2. drawn + 1 \in Prefixes /\ 1 \in Addresses
    BY <1>00, <2>1, BoundAssumption DEF Prefixes, Addresses
  <2> DEFINE s == Fresh(drawn + 1, 1)
  <2>3. /\ s \in Slots /\ s.held /\ s.prefix = drawn + 1 /\ s.counter = 0
        /\ ~s.exhausted /\ ~s.connected
    BY <2>2, FreshSound
  <2> HIDE DEF s
  <2>4. SlotSound(s)  BY <1>00, <2>3, BoundAssumption DEF SlotSound, NoPrefix
  <2>50. /\ drawn' \in Nat /\ drawn <= drawn' /\ s.prefix <= drawn' /\ s.prefix > drawn
         /\ slot' = [slot EXCEPT ![Guest] = s] /\ SlotsSound
    BY <1>00, <2>1, <2>3 DEF s, SendingInv
  <2>5. NetSound' /\ NoncesUnique'
    BY <1>0, <2>1, <2>3, <2>50, QuietKeeps
  <2>6. SlotsSound'
    BY <1>0, <1>00, <2>3, <2>4, <2>50, SlotKeeps
  <2>7. BoundsSound'
    BY <1>0, <1>00, <2>1, <2>2, BoundAssumption DEF SendingInv, BoundsSound, Addresses
  <2> QED  BY <2>5, <2>6, <2>7 DEF SendingInv
<1>12. ASSUME NEW e \in Ends, Move(e) PROVE SendingInv'
  <2>1. /\ moves < MaxMoves /\ moves' = moves + 1 /\ at' = [at EXCEPT ![e] = @ + 1]
        /\ UNCHANGED <<slot, net, drawn, reused>>
    BY <1>12 DEF Move
  <2>2. BoundsSound'
    BY <1>0, <1>00, <2>1, BoundAssumption DEF SendingInv, BoundsSound, Addresses
  <2>3. SlotsSound' /\ NetSound' /\ NoncesUnique'
    BY <2>1 DEF SendingInv, SlotsSound, NetSound, NoncesUnique, WellFormed
  <2> QED  BY <2>2, <2>3 DEF SendingInv
<1>13. CASE Recycle
  <2>1. /\ slot' = [slot EXCEPT ![Host] = Unheld] /\ UNCHANGED <<at, net, drawn, moves, reused>>
    BY <1>13 DEF Recycle
  <2>20. /\ drawn' \in Nat /\ drawn <= drawn' /\ SlotsSound
    BY <1>00, <2>1 DEF SendingInv
  <2>2. NetSound' /\ NoncesUnique'
    BY <1>0, <2>1, <2>20, UnheldSound, QuietKeeps
  <2>3. SlotSound(Unheld) /\ Unheld.prefix <= drawn'
    BY <1>00, <2>1, UnheldSound, BoundAssumption DEF SlotSound, NoPrefix
  <2>4. SlotsSound'
    BY <1>0, <1>00, <2>1, <2>20, <2>3, UnheldSound, SlotKeeps
  <2>5. BoundsSound'  BY <2>1 DEF SendingInv, BoundsSound
  <2> QED  BY <2>2, <2>4, <2>5 DEF SendingInv
<1>14. CASE UNCHANGED vars
  BY <1>14 DEF vars, SendingInv, SlotsSound, NetSound, BoundsSound, NoncesUnique, WellFormed
<1> QED
  BY <1>1, <1>2, <1>3, <1>9, <1>10, <1>11, <1>12, <1>13, <1>14 DEF Next

-----------------------------------------------------------------------------
(* The argument for the window: what passes it was not taken before, and   *)
(* the window it leaves remembers everything taken, that one included.     *)
LEMMA PassSound ==
    ASSUME NEW w \in SUBSET Counters, NEW passed \in SUBSET (Prefixes \X Counters),
           Remembers(w, passed), NEW p \in Prefixes \X Counters, Takes(w, p[2])
    PROVE  p \notin passed /\ Remembers(Slid(w, p[2]), passed \union {p})
<1> DEFINE c == p[2]
           n == Slid(w, c)
<1>1. c \in Nat /\ WindowBits \in Nat /\ WindowBits > 0 /\ \A h \in w : h \in Nat
  BY BoundAssumption DEF Counters
<1>2. \A q \in passed : q[2] \in Nat  BY DEF Counters
<1>3. c \notin w /\ \A h \in w : h - c < WindowBits  BY DEF Takes
<1>4. \A s : s \in n <=> s \in w \union {c} /\ \A h \in w \union {c} : h - s < WindowBits
  BY DEF Slid
<1> HIDE DEF c, n
<1>5. CASE w = {} /\ passed = {}
  <2>1. n = {c}  BY <1>1, <1>4, <1>5
  <2>2. \A q \in passed \union {p} : q[2] \in n  BY <1>5, <2>1 DEF c
  <2> QED  BY <1>1, <1>5, <2>1, <2>2 DEF Remembers, n, c
<1>6. ASSUME NEW top \in w, \A h \in w : h <= top,
             \A q \in passed : q[2] \in w \/ top - q[2] >= WindowBits
      PROVE  p \notin passed /\ Remembers(n, passed \union {p})
  <2>1. p \notin passed  BY <1>1, <1>3, <1>6 DEF c
  <2> DEFINE head == IF c > top THEN c ELSE top
  <2>2. /\ head \in w \union {c} /\ head \in Nat
        /\ \A h \in w \union {c} : h <= head
    BY <1>1, <1>6
  <2> HIDE DEF head
  <2>3. head \in n /\ \A s \in n : s <= head
    <3>1. ASSUME NEW h \in w \union {c} PROVE h - head < WindowBits
      <4>1. h \in Nat /\ h <= head  BY <1>1, <2>2
      <4> QED  BY <1>1, <2>2, <4>1
    <3>2. head \in n  BY <1>4, <2>2, <3>1
    <3> QED  BY <1>4, <2>2, <3>2
  <2>4. ASSUME NEW s \in w \union {c} PROVE s \in n \/ head - s >= WindowBits
    BY <1>1, <1>4, <2>2
  <2>5. ASSUME NEW q \in passed \union {p} PROVE q[2] \in n \/ head - q[2] >= WindowBits
    <3>1. CASE q[2] \in w \union {c}  BY <2>4, <3>1
    <3>2. CASE q[2] \notin w \union {c}
      <4>1. q \in passed /\ top - q[2] >= WindowBits /\ q[2] \in Nat /\ top <= head
        BY <1>2, <1>6, <2>2, <3>2 DEF c
      <4> QED  BY <1>1, <2>2, <4>1
    <3> QED  BY <3>1, <3>2
  <2> QED  BY <2>1, <2>3, <2>5 DEF Remembers
<1> QED  BY <1>5, <1>6 DEF Remembers, n, c

(* One end's slot, and what its window is asked to remember, are replaced. *)
LEMMA TakingSet ==
    ASSUME TakingInv, slot \in [Ends -> Slots], NEW e \in Ends,
           NEW s, slot' = [slot EXCEPT ![e] = s],
           NEW passed \in SUBSET (Prefixes \X Counters),
           taken' = [taken EXCEPT ![e] = passed],
           Remembers(s.window, passed), ~again'
    PROVE  TakingInv'
<1>1. /\ slot'[e] = s /\ \A o \in Ends \ {e} : slot'[o] = slot[o]
      /\ taken'[e] = passed /\ \A o \in Ends \ {e} : taken'[o] = taken[o]
      /\ taken' \in [Ends -> SUBSET (Prefixes \X Counters)]
  BY DEF TakingInv
<1>2. ASSUME NEW o \in Ends PROVE Remembers(slot'[o].window, taken'[o])
  <2>1. CASE o = e  BY <1>1, <2>1
  <2>2. CASE o # e
    <3>1. Remembers(slot[o].window, taken[o])  BY DEF TakingInv
    <3>2. slot'[o] = slot[o] /\ taken'[o] = taken[o]  BY <1>1, <2>2
    <3> QED  BY <3>1, <3>2
  <2> QED  BY <2>1, <2>2
<1> QED  BY <1>1, <1>2 DEF TakingInv, TakenOnce

(* A slot that keeps its window keeps what the window has to remember.     *)
LEMMA TakingKept ==
    ASSUME TakingInv, slot \in [Ends -> Slots], NEW e \in Ends,
           NEW s, slot' = [slot EXCEPT ![e] = s], s.window = slot[e].window,
           UNCHANGED <<taken, again>>
    PROVE  TakingInv'
<1>1. /\ taken[e] \in SUBSET (Prefixes \X Counters)
      /\ taken' = [taken EXCEPT ![e] = taken[e]]
      /\ Remembers(slot[e].window, taken[e]) /\ ~again'
  BY DEF TakingInv, TakenOnce
<1>2. Remembers(s.window, taken[e])  BY <1>1
<1> QED  BY <1>1, <1>2, TakingSet

(* What passed the window of a slot is noted with the window it leaves.    *)
LEMMA TakingNoted ==
    ASSUME SendingInv, TakingInv, NEW e \in Ends, NEW m \in net,
           Takes(slot[e].window, m.counter), Note(e, m),
           NEW s, slot' = [slot EXCEPT ![e] = s],
           s.window = Slid(slot[e].window, m.counter)
    PROVE  TakingInv'
<1> DEFINE p == <<m.prefix, m.counter>>
<1>1. WellFormed(m)  BY DEF SendingInv, NetSound
<1>2. p \in Prefixes \X Counters /\ p[2] = m.counter
  BY <1>1, BoundAssumption DEF WellFormed, Counters
<1>3. slot \in [Ends -> Slots] /\ slot[e].window \in SUBSET Counters
  BY DEF SendingInv, SlotsSound, Slots
<1>4. /\ again' = (again \/ p \in taken[e])
      /\ taken' = [taken EXCEPT ![e] = taken[e] \union {p}]
  BY DEF Note
<1>5. /\ taken[e] \in SUBSET (Prefixes \X Counters) /\ ~again
      /\ Remembers(slot[e].window, taken[e])
  BY DEF TakingInv, TakenOnce
<1> HIDE DEF p
<1>6. /\ p \notin taken[e]
      /\ Remembers(Slid(slot[e].window, m.counter), taken[e] \union {p})
  BY <1>2, <1>3, <1>5, PassSound
<1>7. Remembers(s.window, taken[e] \union {p})  BY <1>6
<1>8. taken[e] \union {p} \in SUBSET (Prefixes \X Counters)  BY <1>2, <1>5
<1>9. ~again'  BY <1>4, <1>5, <1>6
<1> QED  BY <1>3, <1>4, <1>7, <1>8, <1>9, TakingSet

(* Nothing was taken by anybody. *)
LEMMA TakingInit == Init => TakingInv
<1> SUFFICES ASSUME Init PROVE TakingInv  OBVIOUS
<1>1. 1 \in Prefixes /\ 1 \in Addresses
  BY BoundAssumption DEF Prefixes, Addresses
<1>2. ASSUME NEW e \in Ends PROVE slot[e].window = {} /\ taken[e] = {}
  BY <1>1, FreshSound, UnheldSound DEF Init
<1>3. \A e \in Ends : Remembers(slot[e].window, taken[e])
  BY <1>2 DEF Remembers
<1>4. taken \in [Ends -> SUBSET (Prefixes \X Counters)] /\ TakenOnce
  BY DEF Init, TakenOnce
<1> QED  BY <1>3, <1>4 DEF TakingInv

(* Every step keeps every datagram from being taken twice. *)
LEMMA TakingStep == SendingInv /\ TakingInv /\ [Next]_vars => TakingInv'
<1> SUFFICES ASSUME SendingInv, TakingInv, [Next]_vars PROVE TakingInv'  OBVIOUS
<1>0. /\ Host \in Ends /\ Guest \in Ends /\ slot \in [Ends -> Slots]
      /\ \A e \in Ends : SlotSound(slot[e]) /\ slot[e] \in Slots
  BY DEF Ends, SendingInv, SlotsSound
<1>1. \A m \in net : /\ m.prefix \in Prefixes /\ m.counter \in Counters
                     /\ m.src \in Addresses
  BY BoundAssumption DEF SendingInv, NetSound, WellFormed, Counters
<1>2. ASSUME NEW e \in Ends, NEW type, Send(e, slot[e], type), UNCHANGED <<taken, again>>
      PROVE  TakingInv'
  <2>1. slot' = [slot EXCEPT ![e] = Counted(slot[e])]  BY <1>2 DEF Send
  <2>2. Counted(slot[e]).window = slot[e].window  BY <1>0, CountedSound
  <2> QED  BY <1>0, <1>2, <2>1, <2>2, TakingKept
<1>3. ASSUME NEW e \in Ends, SendData(e) PROVE TakingInv'
  BY <1>2, <1>3 DEF SendData
<1>4. CASE Probe
  BY <1>0, <1>2, <1>4 DEF Probe
<1>5. CASE Punch
  BY <1>0, <1>2, <1>5 DEF Punch
<1>6. ASSUME NEW e \in Ends, NEW m \in net, Opens(e, m)
      PROVE  /\ Keyed(e, m).window = slot[e].window /\ Keyed(e, m) \in Slots
             /\ SlotSound(Keyed(e, m))
  <2>1. /\ Keyed(e, m) \in Slots /\ Keyed(e, m).heard = m.prefix
        /\ Keyed(e, m).held = slot[e].held /\ Keyed(e, m).prefix = slot[e].prefix
        /\ Keyed(e, m).counter = slot[e].counter
        /\ Keyed(e, m).exhausted = slot[e].exhausted
        /\ Keyed(e, m).connected = slot[e].connected
        /\ Keyed(e, m).window = slot[e].window
    BY <1>0, <1>1, HeardSound DEF Keyed
  <2>2. m.prefix # NoPrefix  BY DEF SendingInv, NetSound, WellFormed
  <2> QED  BY <1>0, <2>1, <2>2 DEF SlotSound
<1>7. ASSUME NEW m \in net, ReceiveHello(m) PROVE TakingInv'
  <2> DEFINE s == IF slot[Host].held THEN slot[Host] ELSE Fresh(PrefixDrawn(Host), m.src)
             keyed == [s EXCEPT !.heard = m.prefix]
             armed == WindowArmed(s, m)
             joined == Joined(keyed, m, armed)
  <2>1. /\ SlotSound(keyed) /\ keyed.window = s.window /\ drawn' \in Prefixes
        /\ m.src \in Addresses /\ m.counter \in Counters
    BY <1>7, HelloSlot
  <2>2. \/ Repins(s, m) /\ slot' = [slot EXCEPT ![Host] = keyed] /\ UNCHANGED taken
        \/ /\ Send(Host, joined, "HelloAck")
           /\ taken' = [taken EXCEPT ![Host] = {<<m.prefix, m.counter>>}]
    BY <1>7, Zenon DEF ReceiveHello
  <2>3. UNCHANGED again  BY <1>7 DEF ReceiveHello
  <2>4. ~slot[Host].held => s = Fresh(drawn + 1, m.src) /\ drawn' = drawn + 1
    BY <1>7 DEF PrefixDrawn, ReceiveHello
  <2>5. slot[Host].held => s = slot[Host]  OBVIOUS
  <2>6. armed = {m.counter}  BY DEF WindowArmed
  <2> HIDE DEF s, armed
  <2>7. keyed \in Slots  BY <2>1 DEF SlotSound
  <2> HIDE DEF keyed
  <2>8. CASE Repins(s, m) /\ slot' = [slot EXCEPT ![Host] = keyed] /\ UNCHANGED taken
    <3>1. slot[Host].held
      <4>1. ASSUME ~slot[Host].held PROVE FALSE
        <5>1. ~s.connected  BY <2>1, <2>4, <4>1, FreshSound
        <5> QED  BY <5>1, <2>8 DEF Repins
      <4> QED  BY <4>1
    <3>2. keyed.window = slot[Host].window  BY <2>1, <2>5, <3>1
    <3> QED  BY <1>0, <2>3, <2>8, <3>2, TakingKept
  <2>9. CASE /\ Send(Host, joined, "HelloAck")
             /\ taken' = [taken EXCEPT ![Host] = {<<m.prefix, m.counter>>}]
    <3>1. armed \in SUBSET Counters /\ joined = Joined(keyed, m, armed)
      BY <2>1, <2>6
    <3> DEFINE after == Counted(joined)
    <3>2. slot' = [slot EXCEPT ![Host] = after]
      BY <2>9 DEF Send
    <3> HIDE DEF joined
    <3>30. m.src \in Addresses  BY <2>1
    <3>3. /\ joined \in Slots /\ joined.window = armed /\ joined.connected
          /\ joined.held = keyed.held /\ joined.exhausted = keyed.exhausted
          /\ joined.heard = keyed.heard /\ joined.prefix = keyed.prefix
          /\ joined.counter = keyed.counter
      BY <2>7, <3>1, <3>30, JoinedSound
    <3>4. keyed.held /\ keyed.heard # NoPrefix
      BY <1>7, HelloSlot, Zenon DEF keyed, s
    <3>5. SlotSound(joined)  BY <2>1, <3>3, <3>4 DEF SlotSound
    <3>6. after.window = {m.counter}  BY <2>6, <3>3, <3>5, CountedSound
    <3> HIDE DEF after
    <3>7. Remembers(after.window, {<<m.prefix, m.counter>>})
      BY <1>1, <3>6 DEF Remembers, Counters
    <3>8. {<<m.prefix, m.counter>>} \in SUBSET (Prefixes \X Counters)
      BY <1>1
    <3>9. ~again'  BY <2>3 DEF TakingInv, TakenOnce
    <3> QED  BY <1>0, <2>9, <3>2, <3>7, <3>8, <3>9, TakingSet
  <2> QED  BY <2>2, <2>8, <2>9
<1>8. ASSUME NEW e \in Ends, NEW m \in net, ReceiveReplayed(e, m) PROVE TakingInv'
  BY <1>0, <1>6, <1>8, TakingKept DEF ReceiveReplayed
<1>9. ASSUME NEW m \in net, ReceiveAnswer(m) PROVE TakingInv'
  <2> DEFINE s == Keyed(Guest, m)
             slid == Slid(s.window, m.counter)
             joined == Joined(s, m, slid)
  <2>1. /\ Opens(Guest, m) /\ Takes(slot[Guest].window, m.counter) /\ Note(Guest, m)
        /\ slot' = [slot EXCEPT ![Guest] = joined]
    BY <1>9 DEF ReceiveAnswer
  <2>2. s \in Slots /\ s.window = slot[Guest].window
    BY <1>0, <1>6, <2>1
  <2> HIDE DEF s
  <2>3. slid \in SUBSET Counters /\ slid = Slid(slot[Guest].window, m.counter)
    BY <1>1, <2>2, SlidTyped DEF Slots
  <2>4. joined = Joined(s, m, slid)  OBVIOUS
  <2> HIDE DEF slid, joined
  <2>5. joined.window = slid
    BY <1>1, <2>2, <2>3, <2>4, JoinedSound
  <2>6. joined.window = Slid(slot[Guest].window, m.counter)  BY <2>3, <2>5
  <2> QED  BY <1>0, <2>1, <2>6, TakingNoted
<1>10. ASSUME NEW e \in Ends, NEW m \in net, ReceiveData(e, m) PROVE TakingInv'
  <2> DEFINE keyed == Keyed(e, m)
             slid == Slid(keyed.window, m.counter)
             s == [keyed EXCEPT !.window = slid]
  <2>1. /\ Opens(e, m) /\ Takes(slot[e].window, m.counter) /\ Note(e, m)
        /\ Send(e, s, "Data") \/ slot' = [slot EXCEPT ![e] = s]
    BY <1>10, Zenon DEF ReceiveData
  <2>2. keyed \in Slots /\ SlotSound(keyed) /\ keyed.window = slot[e].window
    BY <1>6, <2>1
  <2> HIDE DEF keyed
  <2>3. slid \in SUBSET Counters /\ slid = Slid(slot[e].window, m.counter)
    BY <1>1, <2>2, SlidTyped DEF Slots
  <2> HIDE DEF slid
  <2>4. /\ s \in Slots /\ s.window = slid
        /\ s.held = keyed.held /\ s.prefix = keyed.prefix
        /\ s.counter = keyed.counter /\ s.exhausted = keyed.exhausted
        /\ s.connected = keyed.connected /\ s.heard = keyed.heard
    BY <2>2, <2>3 DEF Slots
  <2> HIDE DEF s
  <2>5. SlotSound(s)  BY <2>2, <2>4 DEF SlotSound
  <2>6. /\ s.window = Slid(slot[e].window, m.counter)
        /\ Counted(s).window = Slid(slot[e].window, m.counter)
    BY <2>3, <2>4, <2>5, CountedSound
  <2>7. CASE slot' = [slot EXCEPT ![e] = s]
    BY <2>1, <2>6, <2>7, TakingNoted
  <2>8. CASE Send(e, s, "Data")
    <3>1. slot' = [slot EXCEPT ![e] = Counted(s)]  BY <2>8 DEF Send
    <3> QED  BY <2>1, <2>6, <3>1, TakingNoted
  <2> QED  BY <2>1, <2>7, <2>8
<1>11. CASE Receive
  BY <1>0, <1>7, <1>8, <1>9, <1>10, <1>11 DEF Receive
<1>12. ASSUME NEW e \in Ends, Expire(e) PROVE TakingInv'
  <2> DEFINE s == [slot[e] EXCEPT !.connected = FALSE]
  <2>1. slot' = [slot EXCEPT ![e] = s] /\ UNCHANGED <<taken, again>>
    BY <1>0, <1>12 DEF Expire
  <2>2. s.window = slot[e].window  BY <1>0 DEF Slots
  <2> HIDE DEF s
  <2> QED  BY <1>0, <2>1, <2>2, TakingKept
<1>13. {} \in SUBSET (Prefixes \X Counters) /\ Remembers({}, {})
  BY DEF Remembers
<1>14. CASE Restart
  <2>1. /\ drawn < MaxSessions /\ slot' = [slot EXCEPT ![Guest] = Fresh(drawn + 1, 1)]
        /\ taken' = [taken EXCEPT ![Guest] = {}] /\ UNCHANGED again
    BY <1>14 DEF Restart, PrefixDrawn
  <2>2. drawn + 1 \in Prefixes /\ 1 \in Addresses
    BY <2>1, BoundAssumption DEF Prefixes, Addresses, SendingInv, BoundsSound
  <2>3. Fresh(drawn + 1, 1).window = {}  BY <2>2, FreshSound
  <2> QED  BY <1>0, <1>13, <2>1, <2>3, TakingSet DEF TakingInv, TakenOnce
<1>15. CASE Recycle
  <2>1. /\ slot' = [slot EXCEPT ![Host] = Unheld]
        /\ taken' = [taken EXCEPT ![Host] = {}] /\ UNCHANGED again
    BY <1>15 DEF Recycle
  <2>2. ~again'  BY <2>1 DEF TakingInv, TakenOnce
  <2>3. Remembers(Unheld.window, {})  BY <1>13, UnheldSound
  <2> QED  BY <1>0, <1>13, <2>1, <2>2, <2>3, TakingSet
<1>16. ASSUME NEW e \in Ends, Move(e) PROVE TakingInv'
  BY <1>16 DEF Move, TakingInv, TakenOnce
<1>17. CASE UNCHANGED vars
  BY <1>17 DEF vars, TakingInv, TakenOnce
<1> QED
  BY <1>3, <1>4, <1>5, <1>11, <1>12, <1>14, <1>15, <1>16, <1>17 DEF Next

(* The histories only ever hold a truth value. *)
LEMMA FlagsStep == FlagsInv /\ [Next]_vars => FlagsInv'
<1> SUFFICES ASSUME FlagsInv, [Next]_vars PROVE FlagsInv'  OBVIOUS
<1>1. ASSUME NEW e, NEW s, NEW type, Send(e, s, type) PROVE reused' \in BOOLEAN
  BY <1>1 DEF Send
<1>2. ASSUME NEW e, NEW m, Note(e, m) PROVE again' \in BOOLEAN
  BY <1>2 DEF Note
<1>3. ASSUME NEW m, ReceiveHello(m) PROVE FlagsInv'
  BY <1>1, <1>3 DEF ReceiveHello, FlagsInv
<1>4. ASSUME NEW e, NEW m, ReceiveData(e, m) PROVE FlagsInv'
  BY <1>1, <1>2, <1>4 DEF ReceiveData, FlagsInv
<1>5. ASSUME NEW e, NEW m, ReceiveReplayed(e, m) PROVE FlagsInv'
  BY <1>5 DEF ReceiveReplayed, FlagsInv
<1>6. ASSUME NEW m, ReceiveAnswer(m) PROVE FlagsInv'
  BY <1>2, <1>6 DEF ReceiveAnswer, FlagsInv
<1>7. CASE Receive
  BY <1>3, <1>4, <1>5, <1>6, <1>7 DEF Receive
<1>8. CASE Probe \/ Punch
  BY <1>1, <1>8 DEF Probe, Punch, FlagsInv
<1>9. ASSUME NEW e, SendData(e) PROVE FlagsInv'
  BY <1>1, <1>9 DEF SendData, FlagsInv
<1>10. ASSUME NEW e, Expire(e) \/ Move(e) PROVE FlagsInv'
  BY <1>10 DEF Expire, Move, FlagsInv
<1>11. CASE Restart \/ Recycle
  BY <1>11 DEF Restart, Recycle, FlagsInv
<1>12. CASE UNCHANGED vars
  BY <1>12 DEF vars, FlagsInv
<1> QED  BY <1>7, <1>8, <1>9, <1>10, <1>11, <1>12 DEF Next

(* The two halves and the flags together are inductive. *)
LEMMA PairInvariant == Spec => []PairInv
<1>1. Init => PairInv
  BY SendingInit, TakingInit DEF PairInv, FlagsInv, Init
<1>2. PairInv /\ [Next]_vars => PairInv'
  BY SendingStep, TakingStep, FlagsStep DEF PairInv
<1> QED  BY <1>1, <1>2, PTL DEF Spec

-----------------------------------------------------------------------------
(* Both slots, everything ever sent and everything taken have the fields   *)
(* and the ranges the transport declares, and nobody is in session without *)
(* a slot and a prefix heard.                                              *)
THEOREM TypeCorrect == Spec => []TypeOK
<1>1. PairInv => TypeOK
  <2> SUFFICES ASSUME PairInv PROVE TypeOK  OBVIOUS
  <2>1. /\ slot \in [Ends -> Slots]
        /\ \A e \in Ends : slot[e].connected => slot[e].held /\ slot[e].heard # NoPrefix
    BY DEF PairInv, SendingInv, SlotsSound, SlotSound
  <2>2. at \in [Ends -> Addresses] /\ drawn \in Prefixes /\ moves \in 0..MaxMoves
    BY DEF PairInv, SendingInv, BoundsSound
  <2>3. \A m \in net : WellFormed(m)
    BY DEF PairInv, SendingInv, NetSound
  <2>4. /\ taken \in [Ends -> SUBSET (Prefixes \X Counters)]
        /\ reused \in BOOLEAN /\ again \in BOOLEAN
    BY DEF PairInv, TakingInv, FlagsInv
  <2> QED  BY <2>1, <2>2, <2>3, <2>4 DEF TypeOK, WellFormed
<1> QED  BY <1>1, PairInvariant, PTL

(* No two datagrams ever leave under one key with one nonce: sendPacket()  *)
(* latches before the counter can run out, and every session prepared      *)
(* counts under a prefix of its own.                                       *)
THEOREM NoncesNeverRepeat == Spec => []NoncesUnique
<1>1. PairInv => NoncesUnique  BY DEF PairInv, SendingInv
<1> QED  BY <1>1, PairInvariant, PTL

(* ReplayWindow::accept() lets a datagram through once between two Hellos, *)
(* however long its window and whatever slid out of it.                    *)
THEOREM WindowTakesOnce == Spec => []TakenOnce
<1>1. PairInv => TakenOnce  BY DEF PairInv, TakingInv
<1> QED  BY <1>1, PairInvariant, PTL

(* A musician in session keeps the endpoint the session was made with:     *)
(* nothing handlePacketForSlot() accepts moves it while it is healthy.     *)
THEOREM NotRepinned == Spec => HealthyNotRepinned
<1> DEFINE Pinned == slot[Host].connected /\ slot'[Host].connected =>
                         slot'[Host].peer = slot[Host].peer
<1>1. PairInv /\ [Next]_vars => Pinned
  <2> SUFFICES ASSUME SendingInv, [Next]_vars, slot[Host].connected
               PROVE  slot'[Host].connected => slot'[Host].peer = slot[Host].peer
    BY DEF PairInv
  <2>0. /\ Host \in Ends /\ Guest \in Ends /\ Host # Guest
        /\ slot \in [Ends -> Slots] /\ slot[Host] \in Slots /\ slot[Host].held
        /\ \A e \in Ends : SlotSound(slot[e])
    BY DEF Ends, Host, Guest, SendingInv, SlotsSound, SlotSound
  <2>1. \A m \in net : /\ m.prefix \in Prefixes /\ m.prefix # NoPrefix
                       /\ m.counter \in Counters /\ m.src \in Addresses
    BY BoundAssumption DEF SendingInv, NetSound, WellFormed, Counters
  <2>2. ASSUME NEW s, slot' = [slot EXCEPT ![Guest] = s] PROVE slot'[Host] = slot[Host]
    BY <2>0, <2>2
  <2>3. ASSUME NEW s, SlotSound(s), s.peer = slot[Host].peer,
               \/ slot' = [slot EXCEPT ![Host] = s]
               \/ slot' = [slot EXCEPT ![Host] = Counted(s)]
        PROVE  slot'[Host].peer = slot[Host].peer
    <3>1. Counted(s).peer = s.peer  BY <2>3, CountedSound
    <3> QED  BY <2>0, <2>3, <3>1
  <2>4. ASSUME NEW e \in Ends, SendData(e) PROVE slot'[Host].peer = slot[Host].peer
    <3>1. slot' = [slot EXCEPT ![e] = Counted(slot[e])]  BY <2>4 DEF SendData, Send
    <3> QED  BY <2>0, <2>2, <2>3, <3>1 DEF Ends
  <2>5. CASE Probe
    BY <2>2, <2>5 DEF Probe, Send
  <2>6. ~Punch /\ ~Recycle  BY DEF Punch, Recycle
  <2>7. ASSUME NEW m \in net
        PROVE  /\ SlotSound(Keyed(Host, m)) /\ Keyed(Host, m) \in Slots
               /\ Keyed(Host, m).peer = slot[Host].peer
               /\ Keyed(Host, m).connected
    <3> DEFINE k == Keyed(Host, m)
               old == slot[Host]
    <3>0. k = [old EXCEPT !.heard = m.prefix] /\ old \in Slots  BY <2>0 DEF Keyed
    <3> HIDE DEF k, old
    <3>1. /\ k \in Slots /\ k.heard = m.prefix /\ k.held = old.held
          /\ k.prefix = old.prefix /\ k.counter = old.counter
          /\ k.exhausted = old.exhausted /\ k.connected = old.connected
          /\ k.peer = old.peer
      BY <2>1, <3>0, HeardSound
    <3>2. SlotSound(old) /\ old.connected  BY <2>0 DEF old
    <3>3. SlotSound(k)  BY <2>1, <3>1, <3>2 DEF SlotSound
    <3> QED  BY <3>1, <3>2, <3>3 DEF k, old
  <2>8. ASSUME NEW m \in net, ReceiveHello(m) PROVE slot'[Host].peer = slot[Host].peer
    <3> DEFINE keyed == Keyed(Host, m)
               joined == Joined(keyed, m, WindowArmed(slot[Host], m))
    <3>1. \/ slot' = [slot EXCEPT ![Host] = keyed]
          \/ ~Repins(slot[Host], m) /\ slot' = [slot EXCEPT ![Host] = Counted(joined)]
      BY <2>0, <2>8 DEF ReceiveHello, Send, Keyed
    <3>2. SlotSound(keyed) /\ keyed \in Slots /\ keyed.peer = slot[Host].peer
      BY <2>7
    <3>3. keyed.held /\ keyed.heard # NoPrefix
      BY <2>7 DEF SlotSound
    <3> HIDE DEF keyed
    <3> DEFINE armed == WindowArmed(slot[Host], m)
    <3>4. armed \in SUBSET Counters /\ joined = Joined(keyed, m, armed)
      BY <2>1 DEF WindowArmed
    <3> HIDE DEF armed, joined
    <3>5. /\ joined \in Slots /\ joined.peer = m.src /\ joined.connected
          /\ joined.held = keyed.held /\ joined.exhausted = keyed.exhausted
          /\ joined.heard = keyed.heard /\ joined.counter = keyed.counter
          /\ joined.prefix = keyed.prefix
      BY <2>1, <3>2, <3>4, JoinedSound
    <3>6. SlotSound(joined)  BY <3>2, <3>3, <3>5 DEF SlotSound
    <3>7. ~Repins(slot[Host], m) => joined.peer = slot[Host].peer
      BY <3>5 DEF Repins
    <3> QED  BY <2>3, <3>1, <3>2, <3>6, <3>7
  <2>9. ASSUME NEW e \in Ends, NEW m \in net, ReceiveReplayed(e, m)
        PROVE  slot'[Host].peer = slot[Host].peer
    BY <2>0, <2>2, <2>3, <2>7, <2>9 DEF ReceiveReplayed, Ends
  <2>10. ASSUME NEW m \in net, ReceiveAnswer(m) PROVE slot'[Host].peer = slot[Host].peer
    BY <2>2, <2>10 DEF ReceiveAnswer
  <2>11. ASSUME NEW e \in Ends, NEW m \in net, ReceiveData(e, m)
         PROVE  slot'[Host].peer = slot[Host].peer
    <3> DEFINE keyed == Keyed(Host, m)
               slid == Slid(keyed.window, m.counter)
               s == [keyed EXCEPT !.window = slid]
    <3>1. CASE e = Guest
      BY <2>2, <2>11, <3>1 DEF ReceiveData, Send
    <3>2. CASE e = Host
      <4>1. slot' = [slot EXCEPT ![Host] = s] \/ slot' = [slot EXCEPT ![Host] = Counted(s)]
        BY <2>11, <3>2, Zenon DEF ReceiveData, Send
      <4>2. keyed \in Slots /\ SlotSound(keyed) /\ keyed.peer = slot[Host].peer
        BY <2>7
      <4> HIDE DEF keyed
      <4>3. slid \in SUBSET Counters  BY <2>1, <4>2, SlidTyped DEF Slots
      <4> HIDE DEF slid
      <4>4. /\ s \in Slots /\ s.held = keyed.held /\ s.prefix = keyed.prefix
            /\ s.counter = keyed.counter /\ s.exhausted = keyed.exhausted
            /\ s.connected = keyed.connected /\ s.heard = keyed.heard
            /\ s.peer = keyed.peer
        BY <4>2, <4>3 DEF Slots
      <4> HIDE DEF s
      <4>5. SlotSound(s)  BY <4>2, <4>4 DEF SlotSound
      <4> QED  BY <2>3, <4>1, <4>2, <4>4, <4>5
    <3> QED  BY <3>1, <3>2 DEF Ends
  <2>12. CASE Receive
    BY <2>8, <2>9, <2>10, <2>11, <2>12 DEF Receive
  <2>13. ASSUME NEW e \in Ends, Expire(e)
         PROVE  slot'[Host].connected => slot'[Host].peer = slot[Host].peer
    <3>1. CASE e = Host  BY <2>0, <2>13, <3>1 DEF Expire, Slots
    <3>2. CASE e = Guest  BY <2>0, <2>2, <2>13, <3>2 DEF Expire
    <3> QED  BY <3>1, <3>2 DEF Ends
  <2>14. CASE Restart
    BY <2>2, <2>14 DEF Restart
  <2>15. ASSUME NEW e \in Ends, Move(e) PROVE slot'[Host].peer = slot[Host].peer
    BY <2>15 DEF Move
  <2>16. CASE UNCHANGED vars
    BY <2>16 DEF vars
  <2> QED
    BY <2>4, <2>5, <2>6, <2>12, <2>13, <2>14, <2>15, <2>16 DEF Next
<1>2. PairInv /\ [Next]_vars => [Pinned]_vars  BY <1>1
<1> QED  BY <1>2, PairInvariant, PTL DEF Spec, HealthyNotRepinned

-----------------------------------------------------------------------------
(* Why the host's window is never ahead of the guest it is held against: an *)
(* address is the guest's only once, so that all it sent from the one it is *)
(* at now was counted by the count it has now, and a session with that      *)
(* address holds nothing else in its window.                                *)
FollowInv ==
    /\ 1 <= at[Guest] /\ slot[Host].peer <= at[Guest]
    /\ \A m \in net : m.from = Guest =>
          /\ m.type # "HelloAck"
          /\ m.src <= at[Guest]
          /\ m.src = at[Guest] => m.counter <= slot[Guest].counter
    /\ slot[Host].peer = at[Guest] =>
          \A c \in slot[Host].window : c <= slot[Guest].counter

(* What a step makes of the peer and the window in the host's slot: they    *)
(* stay, nobody holds it, a Hello arms it, or a datagram of the peer slides *)
(* into the window.                                                         *)
Follows(s) ==
    \/ s.peer = slot[Host].peer /\ s.window = slot[Host].window
    \/ s.peer = NoAddress
    \/ \E m \in net : /\ m.from = Guest
                      /\ \/ s.peer = m.src /\ s.window = {m.counter}
                         \/ /\ s.peer = slot[Host].peer /\ m.src = s.peer
                            /\ s.window \subseteq slot[Host].window \union {m.counter}

(* What leaves for the other end, from the slot s of e. *)
SentBy(m, e, s) ==
    m.from = e /\ (e = Guest => /\ m.type # "HelloAck" /\ m.src = at[Guest]
                                /\ m.counter <= s.counter)

(* The types the argument needs. *)
LEMMA FollowTypes ==
    ASSUME SendingInv
    PROVE  /\ Host \in Ends /\ Guest \in Ends /\ Host # Guest
           /\ slot \in [Ends -> Slots] /\ at \in [Ends -> Nat]
           /\ slot[Guest].counter \in Nat /\ slot[Host].peer \in Nat
           /\ slot[Host].window \subseteq Nat
           /\ \A m \in net : m.counter \in Nat /\ m.src \in Nat /\ m.prefix \in Prefixes
                             /\ m.prefix # NoPrefix /\ m.counter \in Counters
                             /\ m.src \in Addresses
<1>1. slot \in [Ends -> Slots] /\ at \in [Ends -> Addresses]
  BY DEF SendingInv, SlotsSound, BoundsSound
<1>2. Host \in Ends /\ Guest \in Ends /\ Host # Guest  BY DEF Ends, Host, Guest
<1>3. slot[Guest] \in Slots /\ slot[Host] \in Slots  BY <1>1, <1>2
<1>4. slot[Guest].counter \in Nat /\ slot[Host].peer \in Nat /\ slot[Host].window \subseteq Nat
  BY <1>3 DEF Slots, Counters, Addresses
<1>5. Addresses \subseteq Nat  BY DEF Addresses
<1>6. \A m \in net : m.counter \in Nat /\ m.src \in Nat /\ m.prefix \in Prefixes
                     /\ m.prefix # NoPrefix /\ m.counter \in Counters
                     /\ m.src \in Addresses
  BY BoundAssumption DEF SendingInv, NetSound, WellFormed, Counters, Addresses
<1> QED  BY <1>1, <1>2, <1>4, <1>5, <1>6

(* One end's slot changes, and it may have sent something. *)
LEMMA FollowEnd ==
    ASSUME SendingInv, FollowInv, NEW e \in Ends, NEW s \in Slots,
           slot' = [slot EXCEPT ![e] = s], at' = at,
           \A m \in net' : m \in net \/ SentBy(m, e, s),
           e = Guest => s.counter >= slot[Guest].counter,
           e = Host => Follows(s)
    PROVE  FollowInv'
<1>1. /\ slot'[e] = s /\ \A o \in Ends \ {e} : slot'[o] = slot[o]
      /\ s.counter \in Nat /\ s.peer \in Nat /\ s.window \subseteq Nat
  BY FollowTypes DEF Slots, Counters, Addresses
<1>2. CASE e = Guest
  <2>1. slot'[Host] = slot[Host] /\ slot'[Guest] = s
    BY <1>1, <1>2, FollowTypes
  <2>2. \A m \in net' : m.from = Guest =>
          /\ m.type # "HelloAck" /\ m.src <= at[Guest]
          /\ m.src = at[Guest] => m.counter <= s.counter
    BY <1>1, <1>2, FollowTypes DEF FollowInv, SentBy
  <2>3. slot[Host].peer = at[Guest] => \A c \in slot[Host].window : c <= s.counter
    BY <1>1, <1>2, FollowTypes DEF FollowInv
  <2> QED  BY <2>1, <2>2, <2>3 DEF FollowInv
<1>3. CASE e = Host
  <2>1. slot'[Host] = s /\ slot'[Guest] = slot[Guest]
    BY <1>1, <1>3, FollowTypes
  <2>2. \A m \in net' : m.from = Guest => m \in net
    BY <1>3, FollowTypes DEF SentBy
  <2>3. s.peer <= at[Guest]
    BY <1>3, FollowTypes DEF FollowInv, Follows, NoAddress
  <2>4. s.peer = at[Guest] => \A c \in s.window : c <= slot[Guest].counter
    <3>1. s.peer = at[Guest] => s.peer # NoAddress
      BY FollowTypes DEF FollowInv, NoAddress
    <3> QED  BY <1>3, <3>1, FollowTypes DEF FollowInv, Follows
  <2> QED  BY <2>1, <2>2, <2>3, <2>4 DEF FollowInv
<1> QED  BY <1>2, <1>3 DEF Ends

(* The guest is seen somewhere it never was before. *)
LEMMA FollowMoved ==
    ASSUME SendingInv, FollowInv, at'[Guest] = at[Guest] + 1,
           slot'[Host] = slot[Host], net' = net
    PROVE  FollowInv'
<1>1. slot[Host].peer # at'[Guest] /\ slot[Host].peer <= at'[Guest] /\ 1 <= at'[Guest]
  BY FollowTypes DEF FollowInv
<1>2. \A m \in net : m.from = Guest =>
         m.type # "HelloAck" /\ m.src <= at'[Guest] /\ m.src # at'[Guest]
  BY FollowTypes DEF FollowInv
<1> QED  BY <1>1, <1>2 DEF FollowInv

(* An end sends from its slot, or from what a datagram has made of it. *)
LEMMA FollowSent ==
    ASSUME SendingInv, FollowInv, NEW e \in Ends, NEW s, SlotSound(s), NEW type,
           Send(e, s, type), at' = at,
           e = Guest => type # "HelloAck" /\ s.counter = slot[Guest].counter,
           e = Host => Follows(s)
    PROVE  FollowInv'
<1>1. /\ slot' = [slot EXCEPT ![e] = Counted(s)]
      /\ net' = net \union Datagrams(e, s, type)
  BY DEF Send
<1>2. /\ Counted(s) \in Slots /\ Counted(s).counter >= s.counter
      /\ ~Latched(s) => Counted(s).counter = s.counter + 1
      /\ Counted(s).peer = s.peer /\ Counted(s).window = s.window
  BY CountedSound DEF SlotSound
<1>3. \A m \in Datagrams(e, s, type) :
         m.from = e /\ m.type = type /\ m.src = at[e] /\ m.counter = Counted(s).counter
  BY <1>2 DEF Datagrams
<1>4. Follows(s) => Follows(Counted(s))
  BY <1>2 DEF Follows
<1>5. Counted(s).counter \in Nat  BY <1>2 DEF Slots, Counters
<1>6. \A m \in net' : m \in net \/ SentBy(m, e, Counted(s))
  BY <1>1, <1>3, <1>5 DEF SentBy
<1>7. e = Guest => Counted(s).counter >= slot[Guest].counter
  BY <1>2
<1>8. e = Host => Follows(Counted(s))
  BY <1>4
<1> QED  BY <1>1, <1>2, <1>6, <1>7, <1>8, FollowEnd

(* An end's slot changes, and nothing is sent. *)
LEMMA FollowQuiet ==
    ASSUME SendingInv, FollowInv, NEW e \in Ends, NEW s \in Slots,
           slot' = [slot EXCEPT ![e] = s], at' = at, net' = net,
           s.counter = slot[e].counter, e = Host => Follows(s)
    PROVE  FollowInv'
<1>1. e = Guest => s.counter >= slot[Guest].counter  BY FollowTypes
<1>2. \A m \in net' : m \in net \/ SentBy(m, e, s)  OBVIOUS
<1> QED  BY <1>1, <1>2, FollowEnd

(* What the slot of an end is after it opened something. *)
LEMMA KeyedSound ==
    ASSUME SendingInv, NEW e \in Ends, NEW m \in net
    PROVE  /\ SlotSound(Keyed(e, m)) /\ Keyed(e, m) \in Slots
           /\ Keyed(e, m).counter = slot[e].counter
           /\ Keyed(e, m).peer = slot[e].peer /\ Keyed(e, m).window = slot[e].window
<1>1. SlotSound(slot[e]) /\ slot[e] \in Slots
  BY DEF SendingInv, SlotsSound, SlotSound
<1>2. /\ Keyed(e, m) \in Slots /\ Keyed(e, m).heard = m.prefix
      /\ Keyed(e, m).held = slot[e].held /\ Keyed(e, m).prefix = slot[e].prefix
      /\ Keyed(e, m).counter = slot[e].counter
      /\ Keyed(e, m).exhausted = slot[e].exhausted
      /\ Keyed(e, m).connected = slot[e].connected
      /\ Keyed(e, m).window = slot[e].window /\ Keyed(e, m).peer = slot[e].peer
  BY <1>1, FollowTypes, HeardSound DEF Keyed
<1> QED  BY <1>1, <1>2, FollowTypes DEF SlotSound

(* The guest has an invite, and the host holds nobody to anything. *)
LEMMA FollowInit == Init => FollowInv
<1> SUFFICES ASSUME Init PROVE FollowInv  OBVIOUS
<1>1. Host \in Ends /\ Guest \in Ends /\ Host # Guest  BY DEF Ends, Host, Guest
<1>2. slot[Host] = Unheld /\ at[Guest] = 1 /\ net = {}  BY <1>1 DEF Init
<1>3. Unheld.peer = NoAddress
  <2>1. NoPrefix \in Prefixes /\ NoAddress \in Addresses
    BY BoundAssumption DEF NoPrefix, NoAddress, Prefixes, Addresses
  <2> DEFINE f == Fresh(NoPrefix, NoAddress)
  <2>2. f \in Slots /\ f.peer = NoAddress  BY <2>1, FreshSound
  <2>3. Unheld = [f EXCEPT !.held = FALSE]  BY Zenon DEF Unheld
  <2> HIDE DEF f
  <2> QED  BY <2>2, <2>3 DEF Slots
<1> QED  BY <1>2, <1>3, UnheldSound DEF FollowInv, NoAddress

(* Every step keeps the host's window behind the guest. *)
LEMMA FollowStep == SendingInv /\ FollowInv /\ [Next]_vars => FollowInv'
<1> SUFFICES ASSUME SendingInv, FollowInv, [Next]_vars PROVE FollowInv'  OBVIOUS
<1>0. /\ \A e \in Ends : SlotSound(slot[e]) /\ slot[e] \in Slots
      /\ Host \in Ends /\ Guest \in Ends /\ Host # Guest /\ slot \in [Ends -> Slots]
  BY FollowTypes DEF SendingInv, SlotsSound
<1>1. Follows(slot[Host])  BY DEF Follows
<1>2. ASSUME NEW e \in Ends, SendData(e) PROVE FollowInv'
  <2>1. Send(e, slot[e], "Data") /\ at' = at  BY <1>2 DEF SendData
  <2> QED  BY <1>0, <1>1, <2>1, FollowSent
<1>3. CASE Probe
  <2>1. Send(Guest, slot[Guest], "Hello") /\ at' = at  BY <1>3 DEF Probe
  <2> QED  BY <1>0, <2>1, FollowSent
<1>4. CASE Punch
  <2>1. Send(Host, slot[Host], "Punch") /\ at' = at  BY <1>4 DEF Punch
  <2> QED  BY <1>0, <1>1, <2>1, FollowSent
<1>5. ASSUME NEW m \in net, m.from = Guest, ReceiveHello(m) PROVE FollowInv'
  <2> DEFINE s == IF slot[Host].held THEN slot[Host] ELSE Fresh(PrefixDrawn(Host), m.src)
             keyed == [s EXCEPT !.heard = m.prefix]
             armed == WindowArmed(s, m)
             joined == Joined(keyed, m, armed)
  <2>1. \/ Repins(s, m) /\ slot' = [slot EXCEPT ![Host] = keyed] /\ net' = net
        \/ Send(Host, joined, "HelloAck")
    BY <1>5, Zenon DEF ReceiveHello
  <2>2. at' = at  BY <1>5 DEF ReceiveHello
  <2>3. /\ SlotSound(keyed) /\ keyed.held /\ keyed.heard # NoPrefix
        /\ m.src \in Addresses /\ m.counter \in Counters
    BY <1>5, HelloSlot
  <2>4. armed = {m.counter}  BY DEF WindowArmed
  <2>5. s.connected => s = slot[Host]
    <3>1. CASE slot[Host].held
      BY <3>1
    <3>2. CASE ~slot[Host].held
      <4>1. s = Fresh(drawn + 1, m.src) /\ drawn < MaxSessions
        BY <1>5, <3>2 DEF ReceiveHello, PrefixDrawn
      <4>2. drawn + 1 \in Prefixes
        BY <4>1, BoundAssumption DEF SendingInv, BoundsSound, Prefixes
      <4>3. ~s.connected  BY <2>3, <4>1, <4>2, FreshSound
      <4> QED  BY <4>3
    <3> QED  BY <3>1, <3>2
  <2> HIDE DEF s, armed
  <2>6. keyed \in Slots  BY <2>3 DEF SlotSound
  <2>7. CASE Repins(s, m) /\ slot' = [slot EXCEPT ![Host] = keyed] /\ net' = net
    <3>1. s = slot[Host]  BY <2>5, <2>7 DEF Repins
    <3>2. /\ keyed.peer = slot[Host].peer /\ keyed.window = slot[Host].window
          /\ keyed.counter = slot[Host].counter
      BY <1>0, <2>3, <3>1, FollowTypes, HeardSound
    <3> HIDE DEF keyed
    <3>3. Follows(keyed)  BY <3>2 DEF Follows
    <3> QED  BY <1>0, <2>2, <2>6, <2>7, <3>2, <3>3, FollowQuiet
  <2> HIDE DEF keyed
  <2>8. CASE Send(Host, joined, "HelloAck")
    <3>1. armed \in SUBSET Counters /\ joined = Joined(keyed, m, armed)
      BY <2>3, <2>4
    <3>10. m.src \in Addresses  BY <2>3
    <3> HIDE DEF joined
    <3>2. /\ joined \in Slots /\ joined.window = armed /\ joined.peer = m.src
          /\ joined.connected /\ joined.held = keyed.held
          /\ joined.exhausted = keyed.exhausted /\ joined.heard = keyed.heard
          /\ joined.prefix = keyed.prefix /\ joined.counter = keyed.counter
      BY <2>6, <3>1, <3>10, JoinedSound
    <3>3. SlotSound(joined)  BY <2>3, <3>2 DEF SlotSound
    <3>4. Follows(joined)  BY <1>5, <2>4, <3>2 DEF Follows
    <3> QED  BY <1>0, <2>2, <2>8, <3>3, <3>4, FollowSent
  <2> QED  BY <2>1, <2>7, <2>8
<1>6. ASSUME NEW e \in Ends, NEW m \in net, ReceiveReplayed(e, m) PROVE FollowInv'
  <2>1. slot' = [slot EXCEPT ![e] = Keyed(e, m)] /\ net' = net /\ at' = at
    BY <1>6 DEF ReceiveReplayed
  <2>2. /\ Keyed(e, m) \in Slots /\ Keyed(e, m).counter = slot[e].counter
        /\ Keyed(e, m).peer = slot[e].peer /\ Keyed(e, m).window = slot[e].window
    BY KeyedSound
  <2>3. e = Host => Follows(Keyed(e, m))  BY <2>2 DEF Follows
  <2> QED  BY <2>1, <2>2, <2>3, FollowQuiet
<1>7. ASSUME NEW m \in net, ReceiveAnswer(m) PROVE FollowInv'
  <2> DEFINE k == Keyed(Guest, m)
             w == Slid(k.window, m.counter)
             j == Joined(k, m, w)
  <2>1. slot' = [slot EXCEPT ![Guest] = j] /\ net' = net /\ at' = at
    BY <1>7, Zenon DEF ReceiveAnswer
  <2>2. k \in Slots /\ k.counter = slot[Guest].counter  BY <1>0, KeyedSound
  <2>3. m.src \in Addresses /\ m.counter \in Counters  BY FollowTypes
  <2> HIDE DEF k
  <2>4. w \in SUBSET Counters  BY <2>2, <2>3, SlidTyped DEF Slots
  <2> HIDE DEF w
  <2>5. j \in Slots /\ j.counter = slot[Guest].counter
    BY <2>2, <2>3, <2>4, JoinedSound
  <2> HIDE DEF j
  <2> QED  BY <1>0, <2>1, <2>5, FollowQuiet
<1>8. ASSUME NEW e \in Ends, NEW m \in net, m.from = Other(e), ReceiveData(e, m)
      PROVE  FollowInv'
  <2> DEFINE k == Keyed(e, m)
             w == Slid(k.window, m.counter)
             s == [k EXCEPT !.window = w]
  <2>1. /\ \/ Send(e, s, "Data")
           \/ slot' = [slot EXCEPT ![e] = s] /\ net' = net
        /\ at' = at /\ Opens(e, m) /\ m.type # "HelloAck"
    BY <1>8, Zenon DEF ReceiveData
  <2>2. /\ SlotSound(k) /\ k \in Slots /\ k.counter = slot[e].counter
        /\ k.peer = slot[e].peer /\ k.window = slot[e].window
    BY KeyedSound
  <2>3. m.src = slot[e].peer  BY <2>1 DEF Opens
  <2>4. m.counter \in Counters  BY FollowTypes
  <2> HIDE DEF k
  <2>5. w \in SUBSET Counters /\ w \subseteq k.window \union {m.counter}
    BY <2>2, <2>4, SlidTyped DEF Slots, Slid
  <2> HIDE DEF w
  <2>6. /\ s \in Slots /\ s.window = w /\ s.counter = k.counter /\ s.peer = k.peer
        /\ s.held = k.held /\ s.prefix = k.prefix /\ s.exhausted = k.exhausted
        /\ s.connected = k.connected /\ s.heard = k.heard
    BY <2>2, <2>5, SlidSound
  <2> HIDE DEF s
  <2>7. SlotSound(s)  BY <2>2, <2>6 DEF SlotSound
  <2>8. e = Host => Follows(s)
    <3>1. e = Host => m.from = Guest  BY <1>8 DEF Other
    <3> QED  BY <2>2, <2>3, <2>5, <2>6, <3>1 DEF Follows
  <2>9. s.counter = slot[e].counter /\ s.counter \in Nat
    BY <2>2, <2>6 DEF Slots, Counters
  <2>10. CASE Send(e, s, "Data")
    BY <2>1, <2>7, <2>8, <2>9, <2>10, FollowSent
  <2>11. CASE slot' = [slot EXCEPT ![e] = s] /\ net' = net
    BY <2>1, <2>6, <2>8, <2>9, <2>11, FollowQuiet
  <2> QED  BY <2>1, <2>10, <2>11
<1>9. CASE Receive
  <2>1. PICK m \in net, e \in Ends :
          /\ m.from = Other(e)
          /\ \/ e = Host /\ ReceiveHello(m)
             \/ e = Guest /\ ReceiveAnswer(m)
             \/ ReceiveReplayed(e, m) \/ ReceiveData(e, m)
    BY <1>9 DEF Receive
  <2>2. e = Host => m.from = Guest  BY <2>1 DEF Other
  <2> QED  BY <1>5, <1>6, <1>7, <1>8, <2>1, <2>2
<1>10. ASSUME NEW e \in Ends, Expire(e) PROVE FollowInv'
  <2> DEFINE s == [slot[e] EXCEPT !.connected = FALSE]
  <2>1. slot' = [slot EXCEPT ![e] = s] /\ net' = net /\ at' = at
    BY <1>10, Zenon DEF Expire
  <2>2. /\ s \in Slots /\ s.counter = slot[e].counter /\ s.peer = slot[e].peer
        /\ s.window = slot[e].window
    BY <1>0 DEF Slots
  <2> HIDE DEF s
  <2>3. e = Host => Follows(s)  BY <2>2 DEF Follows
  <2> QED  BY <2>1, <2>2, <2>3, FollowQuiet
<1>11. CASE Restart
  <2>1. at'[Guest] = at[Guest] + 1 /\ slot'[Host] = slot[Host] /\ net' = net
    BY <1>0, <1>11, FollowTypes DEF Restart
  <2> QED  BY <2>1, FollowMoved
<1>12. ASSUME NEW e \in Ends, Move(e) PROVE FollowInv'
  <2>1. slot' = slot /\ net' = net /\ at' = [at EXCEPT ![e] = @ + 1]
    BY <1>12 DEF Move
  <2>2. CASE e = Guest
    BY <1>0, <2>1, <2>2, FollowTypes, FollowMoved
  <2>3. CASE e = Host
    <3>1. at'[Guest] = at[Guest]  BY <1>0, <2>1, <2>3, FollowTypes
    <3> QED  BY <2>1, <3>1 DEF FollowInv
  <2> QED  BY <2>2, <2>3 DEF Ends
<1>13. CASE Recycle
  <2>1. slot' = [slot EXCEPT ![Host] = Unheld] /\ net' = net /\ at' = at
    BY <1>13 DEF Recycle
  <2>2. Follows(Unheld)  BY DEF Follows, Unheld, Fresh
  <2> QED  BY <1>0, <2>1, <2>2, UnheldSound, FollowEnd
<1>14. CASE UNCHANGED vars
  BY <1>14 DEF vars, FollowInv
<1> QED  BY <1>2, <1>3, <1>4, <1>9, <1>10, <1>11, <1>12, <1>13, <1>14 DEF Next

(* A guest that restarts counts from zero, and is heard all the same: the   *)
(* window that the host holds against it is one a Hello of its own armed.   *)
THEOREM HostKeepsUp == Spec => []HostFollowsGuest
<1>1. FollowInv => HostFollowsGuest  BY DEF FollowInv, HostFollowsGuest
<1>2. SendingInv /\ FollowInv /\ [Next]_vars => FollowInv'  BY FollowStep
<1>3. PairInv => SendingInv  BY DEF PairInv
<1> QED  BY <1>1, <1>2, <1>3, FollowInit, PairInvariant, PTL DEF Spec

-----------------------------------------------------------------------------
(* Part two: what is kept of a take.                                       *)

Whole == {"Recording", "Ready", "RecoveredNeedsReview"}

\* Ready is said of takes that were closed, with their gaps.
TellsTruth(f, m) == /\ m.state \in Whole
                    /\ m.take = folder[f].audio /\ folder[f].audio # 0
                    /\ m.state = "Ready" => /\ folder[f].end = "Closed"
                                            /\ folder[f].gaps => m.gaps

\* What is on the disk.
FolderInv ==
  \A f \in Folders : /\ folder[f].manifest.state # "None"
                          => TellsTruth(f, folder[f].manifest)
                     /\ f \notin Refusing /\ folder[f].begun
                          => folder[f].manifest.state # "None"

\* Where the control thread is.
ControlInv ==
  /\ control = "writing" <=> job.at # "none"
  /\ control \in {"down", "recovering"} => active = NoFolder
  /\ control = "writing" /\ job.next = "recovering" => active = NoFolder
  /\ control = "begin" => active # NoFolder
  /\ control = "finalise" => recording = NoFolder /\ polled.dropped = dropped

\* The take the controller has as active, which is the one being recorded if any.
ActiveInv ==
  /\ recording # NoFolder => active = recording
  /\ active # NoFolder =>
       /\ folder[active].audio = takes /\ takes # 0
       /\ folder[active].manifest.state \in {"None", "Recording"}
       /\ folder[active].end = IF recording = active THEN "Open" ELSE "Closed"
       /\ folder[active].gaps => dropped

\* What is being written, and where.
JobInv ==
  job.at # "none" =>
    /\ job.target \in Folders
    /\ TellsTruth(job.target, job.text)
    /\ active # NoFolder => job.text.state = "Recording"
    /\ job.at \in {"rename", "remove", "again"}
         => folder[job.target].temporary = job.text
    /\ job.at \in {"remove", "again"} => job.target \in Refusing

\* What a launch found interrupted and has not come to yet.
PendingInv ==
  \A f \in pending : /\ folder[f].manifest.state = "Recording"
                     /\ job.at # "none" => f # job.target
                     /\ \/ control = "recovering"
                        \/ control = "writing" /\ job.next = "recovering"

\* The type invariant, with names for its parts.
FolderRecords == [audio : 0..MaxTakes, end : {"None", "Open", "Closed", "Cut"},
                  failed : BOOLEAN, gaps : BOOLEAN,
                  manifest : Manifests, temporary : Manifests, begun : BOOLEAN]

Jobs == [at : {"none", "open", "flush", "rename", "remove", "again"},
         target : Folders \union {NoFolder}, text : Manifests,
         next : {"idle", "recovering"}]

JournalTyped ==
  /\ folder \in [Folders -> FolderRecords]
  /\ recording \in Folders \union {NoFolder} /\ dropped \in BOOLEAN
  /\ control \in {"down", "recovering", "idle", "begin", "finalise", "writing"}
  /\ pending \in SUBSET Folders
  /\ active \in Folders \union {NoFolder}
  /\ polled \in [recording : BOOLEAN, dropped : BOOLEAN]
  /\ job \in Jobs
  /\ second \in Folders /\ takes \in 0..MaxTakes /\ launches \in 0..MaxLaunches

JournalInv == /\ JournalTyped /\ FolderInv /\ ControlInv /\ ActiveInv /\ JobInv
              /\ PendingInv

\* Steps that leave the recording in a folder as it is, and what is said of it.
SameAudio(f) == /\ folder'[f].audio = folder[f].audio /\ folder'[f].end = folder[f].end
                /\ folder'[f].gaps = folder[f].gaps

SameManifest(f) == /\ folder'[f].manifest = folder[f].manifest
                   /\ folder'[f].begun = folder[f].begun

-------------------------------------------------------------------------------

LEMMA ManifestTypes ==
  /\ NoManifest \in Manifests /\ Torn \in Manifests
  /\ NoManifest.state = "None" /\ Torn.state = "Torn"
  /\ \A take \in 0..MaxTakes, state \in States, gaps \in BOOLEAN :
       /\ Manifest(take, state, gaps) \in Manifests
       /\ Manifest(take, state, gaps).take = take
       /\ Manifest(take, state, gaps).state = state
       /\ Manifest(take, state, gaps).gaps = gaps
  /\ \A m \in Manifests : /\ [m EXCEPT !.state = Recovered] \in Manifests
                          /\ [m EXCEPT !.state = Recovered].take = m.take
                          /\ [m EXCEPT !.state = Recovered].state = Recovered
                          /\ m.state \in States
BY JournalBounds DEF NoManifest, Torn, Manifest, Manifests, States, Recovered

LEMMA JobTypes ==
  /\ NoJob \in Jobs /\ NoJob.at = "none"
  /\ \A j \in Jobs : /\ \A a \in {"flush", "rename", "remove", "again"} :
                          /\ [j EXCEPT !.at = a] \in Jobs
                          /\ [j EXCEPT !.at = a].at = a
                          /\ [j EXCEPT !.at = a].target = j.target
                          /\ [j EXCEPT !.at = a].text = j.text
                          /\ [j EXCEPT !.at = a].next = j.next
                     /\ j.target \in Folders \union {NoFolder}
                     /\ j.text \in Manifests /\ j.next \in {"idle", "recovering"}
BY ManifestTypes DEF NoJob, Jobs

LEMMA FolderNumbers == NoFolder \notin Folders /\ \A f \in Folders : f \in Nat
BY JournalBounds DEF NoFolder, Folders

LEMMA JournalInitially == JournalInit => JournalInv
<1> SUFFICES ASSUME JournalInit PROVE JournalInv
  OBVIOUS
<1>1. EmptyFolder \in FolderRecords
  BY ManifestTypes, JournalBounds DEF EmptyFolder, FolderRecords
<1>2. JournalTyped
  <2>1. folder \in [Folders -> FolderRecords]
    BY <1>1 DEF JournalInit
  <2>2. job \in Jobs /\ polled \in [recording : BOOLEAN, dropped : BOOLEAN]
    BY JobTypes DEF JournalInit, NotPolled
  <2>3. second \in Folders /\ takes \in 0..MaxTakes /\ launches \in 0..MaxLaunches
    BY JournalBounds DEF JournalInit, Folders
  <2> QED BY <2>1, <2>2, <2>3 DEF JournalInit, JournalTyped
<1>3. FolderInv
  BY ManifestTypes DEF FolderInv, JournalInit, EmptyFolder
<1>4. ControlInv /\ ActiveInv /\ JobInv /\ PendingInv
  BY JobTypes DEF JournalInit, ControlInv, ActiveInv, JobInv, PendingInv
<1> QED BY <1>2, <1>3, <1>4 DEF JournalInv

\* What follows from what a write leaves of the folders: only that of the job
\* changes, and there only the manifest, if it does, to the text that is true of it.
LEMMA WritingStep ==
  ASSUME JournalInv, JournalTyped', job.at # "none",
         UNCHANGED <<recorder, pending, active, polled, bounds>>,
         \/ job' = NoJob /\ control' = job.next
         \/ /\ job'.at # "none" /\ UNCHANGED control
            /\ job'.target = job.target /\ job'.text = job.text /\ job'.next = job.next,
         job'.at \in {"rename", "remove", "again"}
           => folder'[job.target].temporary = job.text,
         job'.at \in {"remove", "again"} => job.target \in Refusing,
         \A f \in Folders : SameAudio(f),
         \A f \in Folders \ {job.target} : SameManifest(f),
         \/ SameManifest(job.target)
         \/ folder'[job.target].manifest = job.text
         \/ folder'[job.target].manifest.state = "None" /\ job.target \in Refusing
  PROVE  JournalInv'
<1>0. /\ JournalTyped /\ FolderInv /\ ControlInv /\ ActiveInv /\ JobInv /\ PendingInv
  BY DEF JournalInv
<1>1. /\ job.target \in Folders /\ TellsTruth(job.target, job.text)
      /\ job.next \in {"idle", "recovering"} /\ control = "writing"
      /\ UNCHANGED <<recording, dropped, pending, active, polled, takes>>
  BY <1>0 DEF JobInv, ControlInv, JournalTyped, Jobs, recorder, bounds
<1>2. NoJob.at = "none"
  BY DEF NoJob
<1>3. FolderInv'
  <2> SUFFICES ASSUME NEW f \in Folders
               PROVE  /\ folder'[f].manifest.state # "None" => TellsTruth(f, folder[f].manifest)'
                      /\ f \notin Refusing /\ folder'[f].begun => folder'[f].manifest.state # "None"
    BY DEF FolderInv
  <2>1. CASE SameManifest(f)
    BY <1>0, <2>1 DEF FolderInv, TellsTruth, SameManifest, SameAudio
  <2>2. CASE f = job.target /\ folder'[f].manifest = job.text
    BY <1>1, <2>2 DEF TellsTruth, Whole, SameAudio
  <2>3. CASE f = job.target /\ folder'[f].manifest.state = "None" /\ f \in Refusing
    BY <2>3
  <2> QED BY <2>1, <2>2, <2>3
<1>4. ControlInv'
  <2>1. control' = "writing" <=> job'.at # "none"
    BY <1>1, <1>2
  <2>2. /\ control' \in {"down", "recovering"} => active = NoFolder
        /\ control' = "writing" /\ job'.next = "recovering" => active = NoFolder
        /\ control' \notin {"begin", "finalise"}
    BY <1>0, <1>1, <1>2, <2>1 DEF ControlInv
  <2> QED BY <1>1, <2>1, <2>2 DEF ControlInv
<1>5. ActiveInv'
  <2>1. active \in Folders \union {NoFolder}
    BY <1>0 DEF JournalTyped
  <2>2. ASSUME active # NoFolder
        PROVE  folder'[active].manifest.state \in {"None", "Recording"}
    <3>1. CASE SameManifest(active)
      BY <1>0, <2>2, <3>1 DEF ActiveInv, SameManifest
    <3>2. CASE ~SameManifest(active)
      BY <1>0, <2>1, <2>2, <3>2 DEF JobInv
    <3> QED BY <3>1, <3>2
  <2> QED BY <1>0, <1>1, <2>1, <2>2 DEF ActiveInv, SameAudio
<1>6. JobInv'
  BY <1>0, <1>1, <1>2 DEF JobInv, TellsTruth, SameAudio
<1>7. PendingInv'
  <2> SUFFICES ASSUME NEW f \in pending
               PROVE  /\ folder'[f].manifest.state = "Recording"
                      /\ job'.at # "none" => f # job'.target
                      /\ \/ control' = "recovering"
                         \/ control' = "writing" /\ job'.next = "recovering"
    BY <1>1 DEF PendingInv
  <2>1. /\ f \in Folders /\ f # job.target /\ folder[f].manifest.state = "Recording"
        /\ job.next = "recovering"
    BY <1>0, <1>1 DEF PendingInv, JournalTyped
  <2> QED BY <1>1, <1>2, <2>1 DEF SameManifest
<1> QED BY <1>3, <1>4, <1>5, <1>6, <1>7 DEF JournalInv

LEMMA FolderTypes ==
  ASSUME JournalTyped, NEW f \in Folders, NEW m \in Manifests
  PROVE  /\ [folder EXCEPT ![f].temporary = m] \in [Folders -> FolderRecords]
         /\ [folder EXCEPT ![f].manifest = m] \in [Folders -> FolderRecords]
         /\ [folder EXCEPT ![f].manifest = m, ![f].temporary = NoManifest, ![f].begun = TRUE]
              \in [Folders -> FolderRecords]
<1>1. folder[f] \in FolderRecords /\ folder \in [Folders -> FolderRecords]
  BY DEF JournalTyped
<1>2. /\ [folder[f] EXCEPT !.temporary = m] \in FolderRecords
      /\ [folder[f] EXCEPT !.manifest = m] \in FolderRecords
      /\ [folder[f] EXCEPT !.manifest = m, !.temporary = NoManifest, !.begun = TRUE]
           \in FolderRecords
  BY <1>1, ManifestTypes DEF FolderRecords
<1> QED BY <1>1, <1>2

\* Closing a take ends it, and says nothing else of any folder.
LEMMA ClosedFolder ==
  ASSUME JournalInv
  PROVE  /\ Closed \in [Folders -> FolderRecords]
         /\ \A f \in Folders :
              /\ Closed[f].manifest = folder[f].manifest
              /\ Closed[f].audio = folder[f].audio /\ Closed[f].gaps = folder[f].gaps
              /\ Closed[f].begun = folder[f].begun
              /\ Closed[f].end = IF f = recording THEN "Closed" ELSE folder[f].end
BY FolderNumbers DEF JournalTyped, Closed, JournalInv, FolderRecords

LEMMA ClosingTake ==
  ASSUME JournalInv, folder' = Closed, recording' = NoFolder,
         control' \in {"idle", "finalise"},
         polled' \in [recording : BOOLEAN, dropped : BOOLEAN],
         UNCHANGED <<dropped, pending, active, job, bounds>>
  PROVE  JournalTyped' /\ FolderInv' /\ ActiveInv'
<1>1. JournalTyped /\ FolderInv /\ ActiveInv
  BY DEF JournalInv
<1>2. JournalTyped'
  BY <1>1, ClosedFolder DEF JournalTyped, bounds
<1>3. FolderInv'
  BY <1>1, ClosedFolder DEF FolderInv, TellsTruth
<1>4. ActiveInv'
  <2>1. active \in Folders \union {NoFolder}
    BY <1>1 DEF JournalTyped
  <2> QED BY <1>1, <2>1, ClosedFolder DEF ActiveInv, bounds
<1> QED BY <1>2, <1>3, <1>4

\* The writes of writeAtomically(), each of which may fail.
LEMMA JournalStep == ASSUME JournalInv, Journal PROVE JournalInv'
<1>0. JournalTyped /\ ControlInv /\ JobInv
  BY DEF JournalInv
<1>1. /\ job.at # "none" /\ job.target \in Folders /\ job.text \in Manifests
      /\ folder[job.target] \in FolderRecords /\ folder \in [Folders -> FolderRecords]
  BY <1>0 DEF Journal, JournalOpen, JournalFlush, JournalRename, JournalRemove,
              JournalRenameAgain, JobInv, JournalTyped, Jobs
<1>2. UNCHANGED <<recorder, pending, active, polled, bounds>>
  BY DEF Journal, JournalOpen, JournalFlush, JournalRename, JournalRemove,
         JournalRenameAgain, controller
<1>3. Written => job' \in Jobs /\ control' \in {"idle", "recovering"}
  BY <1>0, JobTypes DEF Written, JournalTyped, Jobs
<1>4. ASSUME folder' \in [Folders -> FolderRecords], job' \in Jobs,
             Written \/ UNCHANGED control
      PROVE  JournalTyped'
  BY <1>0, <1>2, <1>3, <1>4 DEF JournalTyped, recorder, bounds
<1>5. ASSUME UNCHANGED folder,
             \/ Written
             \/ /\ job'.at = "remove" /\ job.at = "rename" /\ UNCHANGED control
                /\ job' \in Jobs /\ job'.target = job.target /\ job'.text = job.text
                /\ job'.next = job.next /\ job.target \in Refusing
      PROVE  JournalInv'
  <2>1. JournalTyped' /\ NoJob.at = "none"
    BY <1>0, <1>3, <1>4, <1>5, JobTypes DEF JournalTyped
  <2> QED BY <1>0, <1>1, <1>2, <1>5, <2>1, WritingStep
          DEF SameAudio, SameManifest, JobInv, Written
<1>6. CASE JournalOpen
  <2>1. CASE Written /\ UNCHANGED folder
    BY <1>5, <2>1
  <2>2. CASE /\ folder' = Opened(job.target) /\ UNCHANGED control
             /\ job' = [job EXCEPT !.at = "flush"]
    <3>1. folder' \in [Folders -> FolderRecords] /\ job' \in Jobs
      BY <1>0, <1>1, <2>2, FolderTypes, ManifestTypes, JobTypes DEF Opened, JournalTyped
    <3>2. \A f \in Folders : SameAudio(f) /\ SameManifest(f)
      BY <1>1, <2>2 DEF Opened, FolderRecords, SameAudio, SameManifest
    <3>3. /\ job'.at = "flush" /\ job'.target = job.target
          /\ job'.text = job.text /\ job'.next = job.next
      BY <1>0, <2>2, JobTypes DEF JournalTyped
    <3> QED BY <1>1, <1>2, <1>4, <2>2, <3>1, <3>2, <3>3, WritingStep
  <2> QED BY <1>6, <2>1, <2>2 DEF JournalOpen
<1>7. CASE JournalFlush
  <2>1. CASE Written /\ UNCHANGED folder
    BY <1>5, <2>1
  <2>2. CASE /\ folder' = [folder EXCEPT ![job.target].temporary = job.text]
             /\ job' = [job EXCEPT !.at = "rename"] /\ UNCHANGED control
    <3>1. folder' \in [Folders -> FolderRecords] /\ job' \in Jobs
      BY <1>0, <1>1, <2>2, FolderTypes, JobTypes DEF JournalTyped
    <3>2. \A f \in Folders : SameAudio(f) /\ SameManifest(f)
      BY <1>1, <2>2 DEF FolderRecords, SameAudio, SameManifest
    <3>3. folder'[job.target].temporary = job.text
      BY <1>1, <2>2 DEF FolderRecords
    <3>4. /\ job'.at = "rename" /\ job'.target = job.target
          /\ job'.text = job.text /\ job'.next = job.next
      BY <1>0, <2>2, JobTypes DEF JournalTyped
    <3> QED BY <1>1, <1>2, <1>4, <2>2, <3>1, <3>2, <3>3, <3>4, WritingStep
  <2> QED BY <1>7, <2>1, <2>2 DEF JournalFlush
<1>8. ASSUME folder' = Renamed(job.target), Written, job.at \in {"rename", "again"}
      PROVE  JournalInv'
  <2>1. folder[job.target].temporary = job.text
    BY <1>0, <1>1, <1>8 DEF JobInv
  <2>2. folder' \in [Folders -> FolderRecords] /\ job' \in Jobs /\ NoJob.at = "none"
    BY <1>0, <1>1, <1>3, <1>8, <2>1, FolderTypes, JobTypes DEF Renamed
  <2>3. \A f \in Folders : SameAudio(f)
    BY <1>1, <1>8 DEF Renamed, FolderRecords, SameAudio
  <2>4. \A f \in Folders \ {job.target} : SameManifest(f)
    BY <1>1, <1>8 DEF Renamed, SameManifest
  <2>5. folder'[job.target].manifest = job.text
    BY <1>1, <1>8, <2>1 DEF Renamed, FolderRecords
  <2> QED BY <1>1, <1>2, <1>4, <1>8, <2>2, <2>3, <2>4, <2>5, WritingStep DEF Written
<1>9. CASE JournalRename
  <2>1. CASE folder' = Renamed(job.target) /\ Written
    BY <1>8, <1>9, <2>1 DEF JournalRename
  <2>2. CASE /\ job.target \in Refusing /\ UNCHANGED <<folder, control>>
             /\ job' = [job EXCEPT !.at = "remove"]
    <3>1. /\ job'.at = "remove" /\ job'.target = job.target /\ job' \in Jobs
          /\ job'.text = job.text /\ job'.next = job.next
      BY <1>0, <2>2, JobTypes DEF JournalTyped
    <3> QED BY <1>5, <1>9, <2>2, <3>1 DEF JournalRename
  <2> QED BY <1>9, <2>1, <2>2 DEF JournalRename
<1>10. CASE JournalRemove
  <2>1. /\ folder' = [folder EXCEPT ![job.target].manifest = NoManifest]
        /\ job' = [job EXCEPT !.at = "again"] /\ UNCHANGED control
        /\ folder[job.target].temporary = job.text /\ job.target \in Refusing
    BY <1>0, <1>1, <1>10 DEF JournalRemove, controller, JobInv
  <2>2. folder' \in [Folders -> FolderRecords] /\ job' \in Jobs
    BY <1>0, <1>1, <2>1, FolderTypes, ManifestTypes, JobTypes DEF JournalTyped
  <2>3. \A f \in Folders : SameAudio(f)
    BY <1>1, <2>1 DEF FolderRecords, SameAudio
  <2>4. \A f \in Folders \ {job.target} : SameManifest(f)
    BY <1>1, <2>1 DEF SameManifest
  <2>5. /\ folder'[job.target].manifest.state = "None"
        /\ folder'[job.target].temporary = job.text
    BY <1>1, <2>1, ManifestTypes DEF FolderRecords
  <2>6. /\ job'.at = "again" /\ job'.target = job.target
        /\ job'.text = job.text /\ job'.next = job.next
    BY <1>0, <2>1, JobTypes DEF JournalTyped
  <2> QED BY <1>1, <1>2, <1>4, <2>1, <2>2, <2>3, <2>4, <2>5, <2>6, WritingStep
<1>11. CASE JournalRenameAgain
  <2>1. CASE folder' = Renamed(job.target)
    BY <1>8, <1>11, <2>1 DEF JournalRenameAgain
  <2>2. CASE UNCHANGED folder
    BY <1>5, <1>11, <2>2 DEF JournalRenameAgain
  <2> QED BY <1>11, <2>1, <2>2 DEF JournalRenameAgain
<1> QED BY <1>6, <1>7, <1>9, <1>10, <1>11 DEF Journal

\* A launch recovers what it finds interrupted, one take after the other.
LEMMA StartupStep ==
  ASSUME JournalInv, Launch \/ RecoverTake \/ RecoveryDone
  PROVE  JournalInv'
<1>0. /\ JournalTyped /\ FolderInv /\ ControlInv /\ ActiveInv /\ JobInv /\ PendingInv
  BY DEF JournalInv
<1> USE DEF recorder, controller, bounds, TellsTruth
<1>1. CASE Launch
  <2> USE <1>0, <1>1 DEF Launch, Interrupted
  <2>1. JournalTyped'
    BY JournalBounds DEF JournalTyped
  <2>2. FolderInv' /\ ControlInv' /\ ActiveInv' /\ JobInv'
    BY DEF FolderInv, ControlInv, ActiveInv, JobInv
  <2>3. PendingInv'
    BY DEF PendingInv, ControlInv
  <2> QED BY <2>1, <2>2, <2>3 DEF JournalInv
<1>2. CASE RecoverTake
  <2> USE <1>0
  <2>1. PICK f \in pending :
          /\ pending' = pending \ {f}
          /\ Write(f, [folder[f].manifest EXCEPT !.state = Recovered], "recovering")
    BY <1>2 DEF RecoverTake
  <2>2. /\ f \in Folders /\ folder[f] \in FolderRecords /\ folder[f].manifest \in Manifests
        /\ folder[f].manifest.state = "Recording" /\ f # NoFolder
    BY <2>1, FolderNumbers DEF JournalTyped, FolderRecords, PendingInv
  <2>3. /\ control = "recovering" /\ control' = "writing" /\ job'.at = "open" /\ job'.target = f
        /\ job'.text = [folder[f].manifest EXCEPT !.state = Recovered]
        /\ job'.next = "recovering" /\ job' \in Jobs
        /\ UNCHANGED <<folder, recorder, active, polled, bounds>>
    BY <1>2, <2>1, <2>2, ManifestTypes DEF RecoverTake, Write, Jobs
  <2>4. JournalTyped'
    BY <2>1, <2>3 DEF JournalTyped
  <2>5. FolderInv' /\ ControlInv' /\ ActiveInv'
    BY <2>3 DEF FolderInv, ControlInv, ActiveInv
  <2>6. JobInv'
    BY <2>2, <2>3, ManifestTypes DEF JobInv, FolderInv, ControlInv, Whole, Recovered
  <2>7. PendingInv'
    BY <2>1, <2>3 DEF PendingInv
  <2> QED BY <2>4, <2>5, <2>6, <2>7 DEF JournalInv
<1>3. CASE RecoveryDone
  <2> USE <1>0, <1>3 DEF RecoveryDone
  <2>1. JournalTyped'
    BY DEF JournalTyped
  <2>2. FolderInv' /\ ControlInv' /\ ActiveInv' /\ JobInv' /\ PendingInv'
    BY DEF FolderInv, ControlInv, ActiveInv, JobInv, PendingInv
  <2> QED BY <2>1, <2>2 DEF JournalInv
<1> QED BY <1>1, <1>2, <1>3

\* A take begins in a folder that has none, and is finalised once it is closed.
LEMMA ToggleStep ==
  ASSUME JournalInv, Toggle \/ StopAudio \/ PollTelemetry
  PROVE  JournalInv'
<1>0. /\ JournalTyped /\ FolderInv /\ ControlInv /\ ActiveInv /\ JobInv /\ PendingInv
      /\ folder \in [Folders -> FolderRecords]
  BY DEF JournalTyped, JournalInv
<1> USE <1>0 DEF recorder, controller, bounds, TellsTruth
<1>1. CASE StartRecording
  <2> USE <1>1, FolderNumbers DEF StartRecording, NewSecond, FolderOfTake
  <2>1. /\ second \in Folders /\ takes \in Nat /\ takes + 1 \in 0..MaxTakes /\ takes + 1 # 0
        /\ folder[second] \in FolderRecords
    BY JournalBounds DEF JournalTyped
  <2>2. folder[second].manifest.state = "None" /\ folder[second].manifest \in Manifests
    BY <2>1 DEF FolderInv, FolderRecords
  <2>3. /\ folder'[second].manifest = folder[second].manifest
        /\ folder'[second].begun = folder[second].begun
        /\ folder'[second].audio = takes + 1 /\ folder'[second].end = "Open"
        /\ folder'[second].gaps = FALSE
        /\ folder'[second].temporary = folder[second].temporary
        /\ \A f \in Folders \ {second} : folder'[f] = folder[f]
        /\ folder'[second] \in FolderRecords
    BY <2>1 DEF FolderRecords
  <2>4. JournalTyped'
    BY <2>1, <2>3 DEF JournalTyped
  <2>5. FolderInv'
    BY <2>2, <2>3 DEF FolderInv
  <2>6. job.at = "none" /\ pending = {}
    BY DEF ControlInv, PendingInv
  <2>7. ControlInv'
    BY <2>1, <2>6 DEF ControlInv
  <2>8. JobInv' /\ PendingInv'
    BY <2>6 DEF JobInv, PendingInv
  <2>9. ActiveInv'
    BY <2>1, <2>2, <2>3 DEF ActiveInv
  <2> QED BY <2>4, <2>5, <2>7, <2>8, <2>9 DEF JournalInv
<1>2. CASE BeginTake
  <2> USE <1>2
  <2> DEFINE m == Manifest(takes, "Recording", FALSE)
  <2>1. /\ control = "begin" /\ active \in Folders /\ takes \in 0..MaxTakes
        /\ pending = {} /\ active # NoFolder
    BY DEF JournalTyped, BeginTake, ControlInv, PendingInv
  <2>2. m \in Manifests /\ m.take = takes /\ m.state = "Recording"
    BY <2>1, ManifestTypes DEF States
  <2>3. /\ control' = "writing" /\ job'.at = "open" /\ job'.target = active
        /\ job'.text = m /\ job'.next = "idle" /\ job' \in Jobs
        /\ UNCHANGED <<folder, recorder, pending, active, polled, bounds>>
    BY <2>1, <2>2 DEF BeginTake, Write, Jobs
  <2> HIDE DEF m
  <2>4. JournalTyped'
    BY <2>3 DEF JournalTyped
  <2>5. FolderInv' /\ ActiveInv' /\ PendingInv'
    BY <2>1, <2>3 DEF FolderInv, ActiveInv, PendingInv
  <2>6. ControlInv'
    BY <2>1, <2>3 DEF ControlInv
  <2>7. JobInv'
    BY <2>1, <2>2, <2>3 DEF JobInv, ActiveInv, Whole
  <2> QED BY <2>4, <2>5, <2>6, <2>7 DEF JournalInv
<1>3. CASE StopRecording
  <2>1. job.at = "none" /\ control = "idle" /\ control' = "finalise" /\ pending = {}
    BY <1>3 DEF StopRecording, ControlInv, PendingInv
  <2>2. /\ polled' \in [recording : BOOLEAN, dropped : BOOLEAN] /\ polled'.dropped = dropped
        /\ recording' = NoFolder /\ folder' = Closed
        /\ UNCHANGED <<dropped, pending, active, job, bounds>>
    BY <1>3 DEF JournalTyped, StopRecording, FinalDropped
  <2>3. ControlInv' /\ PendingInv' /\ JobInv'
    BY <2>1, <2>2 DEF ControlInv, PendingInv, JobInv
  <2>4. JournalTyped' /\ FolderInv' /\ ActiveInv'
    BY <2>1, <2>2, ClosingTake
  <2> QED BY <2>3, <2>4 DEF JournalInv
<1>4. CASE FinaliseTake
  <2>1. CASE active = NoFolder
    <3> USE <1>4, <2>1 DEF FinaliseTake
    <3>1. JournalTyped'
      BY DEF JournalTyped
    <3>2. FolderInv' /\ ControlInv' /\ ActiveInv' /\ JobInv' /\ PendingInv'
      BY DEF FolderInv, ControlInv, ActiveInv, JobInv, PendingInv
    <3> QED BY <3>1, <3>2 DEF JournalInv
  <2>2. CASE active # NoFolder
    <3>1. /\ control = "finalise" /\ active \in Folders /\ takes \in 0..MaxTakes
          /\ polled.dropped \in BOOLEAN /\ polled.dropped = dropped /\ recording = NoFolder
          /\ pending = {}
      BY <1>4, <2>2 DEF JournalTyped, FinaliseTake, ControlInv, PendingInv
    <3>2. Manifest(takes, "Ready", polled.dropped) \in Manifests
      BY <3>1, ManifestTypes DEF States
    <3>3. /\ control' = "writing" /\ job'.at = "open" /\ job'.target = active
          /\ job'.text = Manifest(takes, "Ready", polled.dropped)
          /\ job'.next = "idle" /\ job' \in Jobs /\ active' = NoFolder
          /\ UNCHANGED <<folder, recorder, pending, polled, bounds>>
      BY <1>4, <2>2, <3>1, <3>2 DEF FinaliseTake, Write, Jobs
    <3>4. JournalTyped'
      BY <3>3 DEF JournalTyped
    <3>5. FolderInv' /\ ActiveInv' /\ PendingInv' /\ ControlInv'
      BY <3>1, <3>3 DEF FolderInv, ActiveInv, PendingInv, ControlInv
    <3>6. JobInv'
      BY <2>2, <3>1, <3>3, ManifestTypes DEF JobInv, ActiveInv, Whole, States
    <3> QED BY <3>4, <3>5, <3>6 DEF JournalInv
  <2> QED BY <2>1, <2>2
<1>5. CASE StopAudio
  <2>1. job.at = "none" /\ pending = {}
    BY <1>5 DEF StopAudio, ControlInv, PendingInv
  <2>2. /\ recording' = NoFolder /\ folder' = Closed /\ control = "idle"
        /\ UNCHANGED <<dropped, control, polled, pending, active, job, bounds>>
    BY <1>5 DEF StopAudio
  <2>3. ControlInv' /\ PendingInv' /\ JobInv'
    BY <2>1, <2>2 DEF ControlInv, PendingInv, JobInv
  <2>4. JournalTyped' /\ FolderInv' /\ ActiveInv'
    BY <2>1, <2>2, ClosingTake DEF JournalTyped
  <2> QED BY <2>3, <2>4 DEF JournalInv
<1>6. CASE PollTelemetry
  <2> USE <1>6 DEF PollTelemetry
  <2>1. JournalTyped'
    BY DEF JournalTyped
  <2>2. FolderInv' /\ ControlInv' /\ ActiveInv' /\ JobInv' /\ PendingInv'
    BY DEF FolderInv, ControlInv, ActiveInv, JobInv, PendingInv
  <2> QED BY <2>1, <2>2 DEF JournalInv
<1> QED BY <1>1, <1>2, <1>3, <1>4, <1>5, <1>6 DEF Toggle

\* A crash cuts the take that is recorded, whose manifest is not Ready.
LEMMA WorldStep ==
  ASSUME JournalInv, RecorderFails \/ RecorderDrops \/ Crash \/ Quit \/ TickSecond
  PROVE  JournalInv'
<1>0. /\ JournalTyped /\ FolderInv /\ ControlInv /\ ActiveInv /\ JobInv /\ PendingInv
      /\ folder \in [Folders -> FolderRecords]
  BY DEF JournalTyped, JournalInv
<1> USE <1>0 DEF recorder, controller, bounds
<1>1. CASE RecorderFails \/ RecorderDrops
  <2>1. /\ recording \in Folders /\ folder[recording] \in FolderRecords
        /\ UNCHANGED <<recording, controller, job, bounds>>
        /\ active = recording
    BY <1>1 DEF JournalTyped, RecorderFails, RecorderDrops, ActiveInv
  <2>2. /\ folder' \in [Folders -> FolderRecords] /\ dropped' \in BOOLEAN
        /\ \A f \in Folders \ {recording} : folder'[f] = folder[f]
        /\ \/ folder'[recording] = [folder[recording] EXCEPT !.failed = TRUE]
           \/ folder'[recording] = [folder[recording] EXCEPT !.gaps = TRUE]
    <3>1. [folder[recording] EXCEPT !.failed = TRUE] \in FolderRecords
      BY <2>1 DEF FolderRecords
    <3>2. [folder[recording] EXCEPT !.gaps = TRUE] \in FolderRecords
      BY <2>1 DEF FolderRecords
    <3> QED BY <1>1, <2>1, <3>1, <3>2 DEF JournalTyped, RecorderFails, RecorderDrops
  <2>a. /\ folder'[recording].manifest = folder[recording].manifest
        /\ folder'[recording].temporary = folder[recording].temporary
        /\ folder'[recording].audio = folder[recording].audio
        /\ folder'[recording].end = folder[recording].end
        /\ folder'[recording].begun = folder[recording].begun
    BY <2>1, <2>2 DEF FolderRecords
  <2>3. \/ folder'[recording].gaps = folder[recording].gaps /\ dropped' = dropped
        \/ dropped' = TRUE
    BY <1>1, <2>1 DEF RecorderFails, RecorderDrops, FolderRecords
  <2>4. JournalTyped'
    BY <2>1, <2>2 DEF JournalTyped
  <2>5. FolderInv'
    BY <2>1, <2>2, <2>a, FolderNumbers DEF FolderInv, TellsTruth, ActiveInv
  <2>6. ControlInv'
    BY <2>1, FolderNumbers DEF ControlInv
  <2>7. ActiveInv'
    BY <2>1, <2>2, <2>a, <2>3 DEF ActiveInv
  <2>8. JobInv'
    BY <2>1, <2>2, <2>a, FolderNumbers DEF JobInv, TellsTruth, ActiveInv
  <2>9. PendingInv'
    BY <2>1, <2>2, <2>a DEF JournalTyped, PendingInv
  <2> QED BY <2>4, <2>5, <2>6, <2>7, <2>8, <2>9 DEF JournalInv
<1>2. CASE Crash
  <2>1. \A f \in Folders : folder'[f] = IF f = recording THEN [folder[f] EXCEPT !.end = "Cut"]
                                                          ELSE folder[f]
    BY <1>2 DEF Crash
  <2>2. folder' \in [Folders -> FolderRecords]
    BY <1>2, <2>1 DEF Crash, FolderRecords
  <2>3. JournalTyped'
    BY <1>2, <2>2, JobTypes DEF JournalTyped, Crash, Down, NotPolled
  <2>4. FolderInv'
    <3>1. \A f \in Folders : /\ folder'[f].manifest = folder[f].manifest
                             /\ folder'[f].audio = folder[f].audio
                             /\ folder'[f].gaps = folder[f].gaps
                             /\ folder'[f].begun = folder[f].begun
                             /\ f # recording => folder'[f].end = folder[f].end
      BY <2>1 DEF FolderRecords
    <3>2. recording \in Folders => folder[recording].manifest.state # "Ready"
      BY FolderNumbers DEF ActiveInv
    <3> QED BY <3>1, <3>2 DEF FolderInv, TellsTruth
  <2>5. ControlInv' /\ ActiveInv' /\ JobInv' /\ PendingInv'
    BY <1>2, JobTypes DEF Crash, Down, ControlInv, ActiveInv, JobInv, PendingInv
  <2> QED BY <2>3, <2>4, <2>5 DEF JournalInv
<1>3. CASE Quit
  <2>1. JournalTyped'
    BY <1>3, ClosedFolder, JobTypes DEF JournalTyped, Quit, Down, NotPolled
  <2>2. FolderInv'
    BY <1>3, ClosedFolder DEF Quit, FolderInv, TellsTruth
  <2>3. ControlInv' /\ ActiveInv' /\ JobInv' /\ PendingInv'
    BY <1>3, JobTypes DEF Quit, Down, ControlInv, ActiveInv, JobInv, PendingInv
  <2> QED BY <2>1, <2>2, <2>3 DEF JournalInv
<1>4. CASE TickSecond
  <2> USE <1>4 DEF TickSecond
  <2>1. JournalTyped'
    BY JournalBounds DEF JournalTyped, Folders
  <2>2. FolderInv' /\ ControlInv' /\ ActiveInv' /\ JobInv' /\ PendingInv'
    BY DEF FolderInv, ControlInv, ActiveInv, JobInv, PendingInv, TellsTruth
  <2> QED BY <2>1, <2>2 DEF JournalInv
<1> QED BY <1>1, <1>2, <1>3, <1>4

-------------------------------------------------------------------------------

\* What is written to a folder is true of it, whatever comes between two writes.
THEOREM JournalCorrect ==
  JournalSpec => []JournalInv
<1>1. JournalInv /\ [JournalNext]_journalVars => JournalInv'
  <2>1. CASE UNCHANGED journalVars
    BY <2>1 DEF journalVars, recorder, controller, bounds, JournalInv, JournalTyped, FolderInv,
                ControlInv, ActiveInv, JobInv, PendingInv, TellsTruth
  <2> QED BY <2>1, JournalStep, StartupStep, ToggleStep, WorldStep DEF JournalNext
<1> QED BY <1>1, JournalInitially, PTL DEF JournalSpec

\* Every variable keeps to its values.
THEOREM JournalTypeCorrect == JournalSpec => []JournalTypeOK
<1>1. JournalInv => JournalTypeOK
  BY DEF JournalInv, JournalTyped, JournalTypeOK, FolderRecords, Jobs
<1> QED BY <1>1, JournalCorrect, PTL

\* A take that was begun has a whole manifest in every state a crash could leave,
\* which speaks of the audio beside it, tells of its gaps, and does not call
\* finished what was cut off.  (writeAtomically(), finaliseTake(), recoverTake())
THEOREM ManifestsTell == JournalSpec => []ManifestTells
<1>1. JournalInv => ManifestTells
  <2>1. JournalInv => CutIsNeverReady
    BY DEF JournalInv, FolderInv, TellsTruth, CutIsNeverReady
  <2>2. JournalInv => ManifestKept
    BY DEF JournalInv, FolderInv, TellsTruth, ManifestKept, Whole
  <2>3. JournalInv => ManifestOfItsAudio /\ GapsAreTold
    BY DEF JournalInv, FolderInv, TellsTruth, ManifestOfItsAudio, GapsAreTold
  <2> QED BY <2>1, <2>2, <2>3 DEF ManifestTells
<1> QED BY <1>1, JournalCorrect, PTL
=============================================================================
