------------------------------ MODULE MeshRoster ------------------------------
(***************************************************************************)
(* A room of more than two: how musicians who joined the same creator find *)
(* one another (windows_peer_audio_transport.cpp, room_roster.cpp).        *)
(*                                                                         *)
(* Every end of a session tells the other once where it can be reached.    *)
(* The creator alone passes on what it was told; of two musicians it has   *)
(* introduced, the one with the greater identifier reaches out.            *)
(*                                                                         *)
(* A musician who leaves and returns has another address.  Between two     *)
(* machines packets keep their order here; some of those that are sent     *)
(* again until they are answered get lost.  Keys and replay are the        *)
(* subject of PairSession, the silence of a path that of PairLink.         *)
(***************************************************************************)
EXTENDS Integers, Sequences, FiniteSets, FiniteSetsExt

CONSTANTS Profiles,     \* profile identifiers: integers, compared as such
          Creator,       \* the musician whose invite the others used
          Near,          \* pairs {a, b} who reach each other's LAN address
          Restless,      \* guests who may leave
          PeerSlots,     \* maximumRemotePeers places: 1..n
          RosterPlaces,  \* RoomRoster::maximumMembers
          MaxReturns,    \* bound: times a guest comes back
          Losable,       \* kinds of packets the network may lose
          MaxLost        \* bound: packets lost

ASSUME ProfilesAssumption == /\ Profiles \subseteq Nat \ {0} /\ IsFiniteSet(Profiles)
                             /\ Creator \in Profiles
                             /\ Restless \subseteq Profiles \ {Creator}
ASSUME SlotsAssumption == IsFiniteSet(PeerSlots) /\ PeerSlots = 1..Cardinality(PeerSlots)

Guests == Profiles \ {Creator}

NoProfile == 0
Nowhere == 0

VARIABLES up,       \* the transport of a musician runs
          home,     \* its address: changed whenever it comes back
          me,       \* what its worker knows: see Fresh
          wire,     \* packets on their way, by sender and receiver
          lost      \* packets lost

meshVars == <<up, home, me, wire, lost>>

\* A session begins with a nonce prefix no other session has.
NoSession == <<NoProfile, 0>>

Unused == [used |-> FALSE, dials |-> FALSE, name |-> NoProfile, who |-> NoProfile,
           at |-> Nowhere, settled |-> FALSE, sess |-> NoSession, far |-> NoSession,
           connected |-> FALSE, published |-> FALSE, announced |-> 0,
           introducer |-> FALSE]

\* peers_, roster_, rosterVersion_, and how many nonce prefixes were drawn.
Fresh == [slots |-> [s \in PeerSlots |-> Unused],
          roster |-> [n \in Profiles |-> Nowhere],
          version |-> 0,
          drawn |-> 0]

Pairs == Profiles \X Profiles

MeshInit == /\ up = [m \in Profiles |-> m = Creator]
            /\ home = [m \in Profiles |-> 1]
            /\ me = [m \in Profiles |-> Fresh]
            /\ wire = [pair \in Pairs |-> <<>>]
            /\ lost = 0

-------------------------------------------------------------------------------
(* Places.  The operators below take what a worker knows, my.               *)

Lowest(S) == CHOOSE s \in S : \A t \in S : s <= t

Connected(my) == {s \in PeerSlots : my.slots[s].connected}

\* canAdmitAnotherMusician(): the room is built for one more than the places.
CanAdmit(my) == Cardinality(Connected(my)) < Cardinality(PeerSlots)

\* allocateSlot(): a free place, or one whose musician is not there; which of
\* those has been silent longest is not told apart.
Free(my) == LET unused == {s \in PeerSlots : ~my.slots[s].used}
            IN IF unused # {} THEN {Lowest(unused)} ELSE PeerSlots \ Connected(my)

\* prepareSlotSession(); the introducer and what was announced are left alone.
Prepared(old, dials, session) ==
  [Unused EXCEPT !.used = TRUE, !.dials = dials, !.sess = session,
                 !.announced = old.announced, !.introducer = old.introducer]

\* slotForPacket(): whose address it is, or else, for an answer, whoever is
\* still being reached out to.
SlotsAt(my, p) == {s \in PeerSlots : LET slot == my.slots[s] IN
                     slot.used /\ slot.settled /\ slot.who = p.from /\ slot.at = p.home}
Reaching(my) == {s \in PeerSlots : LET slot == my.slots[s] IN
                     slot.used /\ slot.dials /\ ~slot.connected}
SlotFor(my, p) == IF SlotsAt(my, p) # {} THEN {Lowest(SlotsAt(my, p))}
                  ELSE IF p.type = "HelloAck" /\ Reaching(my) # {} THEN {Lowest(Reaching(my))}
                  ELSE {}

\* slotForParticipant()
SlotNamed(my, n) == {s \in PeerSlots : my.slots[s].used /\ my.slots[s].name = n}

-------------------------------------------------------------------------------
(* Packets.                                                                 *)

Packet(m, type, slot) == [type |-> type, from |-> m, home |-> home[m], to |-> slot.who,
                          at |-> slot.at, dials |-> slot.dials, sess |-> slot.sess,
                          far |-> slot.far, member |-> NoProfile, address |-> Nowhere]

\* Packets to an address where nobody is any more are gone.
Reached(slot) == up[slot.who] /\ home[slot.who] = slot.at

\* A request to join is sent again when neither it nor its answer is on its way.
Carries(from, to, type) == \E i \in DOMAIN wire[<<from, to>>] : wire[<<from, to>>][i].type = type
Pestered(m, n) == Carries(m, n, "Hello") \/ Carries(n, m, "HelloAck")

\* m has taken the first packet from n, if n is somebody, and sends others.
Transmitted(m, n, packets) ==
  wire' = [pair \in Pairs |-> IF pair[1] = m THEN wire[pair] \o packets[pair[2]]
                             ELSE IF pair = <<n, m>> THEN Tail(wire[pair])
                             ELSE wire[pair]]

-------------------------------------------------------------------------------
(* Reaching out: openSessionsTheRosterNames().                              *)

\* roleToward()
ReachesOut(m, n) == m > n

Pending(m, my) == {n \in Profiles : /\ my.roster[n] # Nowhere /\ ReachesOut(m, n)
                                     /\ SlotNamed(my, n) = {}}

\* The musician is named before the handshake proves it.
Dialled(m, n, my, old) ==
  [Prepared(old, TRUE, <<m, my.drawn + 1>>) EXCEPT
     !.who = n, !.at = my.roster[n], !.name = n, !.settled = {m, n} \in Near]

Open(m, n, my) ==
  IF CanAdmit(my) /\ Free(my) # {}
    THEN [my EXCEPT !.slots[Lowest(Free(my))] = Dialled(m, n, my, @), !.drawn = @ + 1]
    ELSE my

Opened(m, my) == FoldSet(LAMBDA n, acc : Open(m, n, acc), my, Pending(m, my))

-------------------------------------------------------------------------------
(* What a pass of the worker sends: run().                                  *)

Hellos(m, slot) == IF slot.dials /\ ~slot.connected /\ ~Pestered(m, slot.who)
                     THEN <<Packet(m, "Hello", slot)>> ELSE <<>>

Entry(m, slot, n, address) ==
  [Packet(m, "Candidates", slot) EXCEPT !.member = n, !.address = address]

Reports(m, slot) == IF slot.connected /\ ~slot.published
                      THEN <<Entry(m, slot, m, home[m])>> ELSE <<>>

\* Mistake: the room is introduced once to whoever has the place.
NotTold(my, slot) == slot.announced = 0

\* The roster has changed since the musician was told.
Untold(my, slot) == slot.announced # my.version

\* introduceRoomTo()
Introductions(m, my, slot) ==
  IF m = Creator /\ slot.connected /\ Untold(my, slot)
    THEN FoldSet(LAMBDA n, acc : Append(acc, Entry(m, slot, n, my.roster[n])), <<>>,
                 {n \in Profiles : my.roster[n] # Nowhere /\ n \notin {m, slot.name}})
    ELSE <<>>

\* What it sends to n.
PassSends(m, my, n) ==
  FoldSet(LAMBDA s, acc : acc \o Hellos(m, my.slots[s]) \o Reports(m, my.slots[s])
                              \o Introductions(m, my, my.slots[s]),
          <<>>, {s \in PeerSlots : my.slots[s].who = n /\ Reached(my.slots[s])})

Passed(my, slot) == [slot EXCEPT !.published = @ \/ slot.connected,
                                 !.announced = IF slot.connected THEN my.version ELSE @]

AfterPass(my) == [my EXCEPT !.slots = [s \in PeerSlots |-> Passed(my, my.slots[s])]]

-------------------------------------------------------------------------------
(* Receiving: handlePacket(), admitStranger() and handlePacketForSlot().  A  *)
(* handler gives what the worker knows afterwards and the packets it sends.  *)

Ignored(my) == {[my |-> my, out |-> <<>>]}

\* A request to join, at a place: refused while the musician there is in
\* session from another address, or is being reached out to.
Joined(m, my, p, s) ==
  LET slot == my.slots[s]
      in == [slot EXCEPT !.who = p.from, !.at = p.home, !.settled = TRUE,
                         !.name = p.from, !.far = p.sess, !.connected = TRUE]
  IN IF slot.dials \/ (slot.connected /\ ~(slot.who = p.from /\ slot.at = p.home))
       THEN Ignored(my)
       ELSE {[my |-> [my EXCEPT !.slots[s] = in],
              out |-> IF Reached(in) THEN <<Packet(m, "HelloAck", in)>> ELSE <<>>]}

\* admitStranger(): at the place of that name, or at a place of one's own.
Given(m, my, s) == [my EXCEPT !.slots[s] = Prepared(@, FALSE, <<m, my.drawn + 1>>),
                              !.drawn = @ + 1]

\* Mistake: the address alone tells whose place it is.
PlaceByAddress(my, p) == SlotFor(my, p)

PlaceOf(my, p) == IF SlotFor(my, p) # {} THEN SlotFor(my, p) ELSE SlotNamed(my, p.from)

OnHello(m, my, p) ==
  LET known == PlaceOf(my, p)
  IN IF known # {} THEN Joined(m, my, p, Lowest(known))
     ELSE IF CanAdmit(my) THEN UNION {Joined(m, Given(m, my, s), p, s) : s \in Free(my)}
     ELSE Ignored(my)

\* An answer is sealed for the session that asked.
OnAnswer(my, p) ==
  LET asked == {s \in SlotFor(my, p) : my.slots[s].dials /\ p.far = my.slots[s].sess}
  IN IF asked = {} THEN Ignored(my)
     ELSE {[my |-> [my EXCEPT !.slots[s] =
                      [@ EXCEPT !.who = p.from, !.at = p.home, !.settled = TRUE,
                                !.name = p.from, !.far = p.sess, !.connected = TRUE]],
            out |-> <<>>] : s \in asked}

\* Musicians describe themselves, and the introducer describes anybody else.
Believed(m, my, p) == \E s \in SlotFor(my, p) :
  LET slot == my.slots[s]
  IN /\ slot.connected /\ slot.dials # p.dials /\ p.far = slot.sess
     /\ p.member = slot.name \/ slot.introducer
     /\ p.member # m

\* RoomRoster::remember()
Remembered(known, n, address) ==
  IF known[n] = Nowhere /\ Cardinality({x \in Profiles : known[x] # Nowhere}) >= RosterPlaces
    THEN known ELSE [known EXCEPT ![n] = address]

OnCandidates(m, my, p) ==
  IF Believed(m, my, p)
    THEN {[my |-> [my EXCEPT !.roster = Remembered(@, p.member, p.address),
                             !.version = IF m = Creator THEN @ + 1 ELSE @],
           out |-> <<>>]}
    ELSE Ignored(my)

Received(m, my, p) ==
  CASE p.type = "Hello"      -> OnHello(m, my, p)
    [] p.type = "HelloAck"   -> OnAnswer(my, p)
    [] p.type = "Candidates" -> OnCandidates(m, my, p)

Receive(m, n) ==
  /\ up[m] /\ wire[<<n, m>>] # <<>>
  /\ \E result \in Received(m, me[m], Head(wire[<<n, m>>])) :
       /\ me' = [me EXCEPT ![m] = result.my]
       /\ Transmitted(m, n, [to \in Profiles |-> IF to = n THEN result.out ELSE <<>>])
  /\ UNCHANGED <<up, home, lost>>

Pass(m) ==
  /\ up[m]
  /\ LET my == Opened(m, me[m])
     IN /\ me' = [me EXCEPT ![m] = AfterPass(my)]
        /\ Transmitted(m, NoProfile, [to \in Profiles |-> PassSends(m, my, to)])
  /\ UNCHANGED <<up, home, lost>>

Lose(n, m) ==
  /\ lost < MaxLost /\ lost' = lost + 1
  /\ wire[<<n, m>>] # <<>> /\ Head(wire[<<n, m>>]).type \in Losable
  /\ wire' = [wire EXCEPT ![<<n, m>>] = Tail(@)]
  /\ UNCHANGED <<up, home, me>>

-------------------------------------------------------------------------------
(* Silence, departures and returns.                                         *)

\* Somebody at the other end still sends: a session, or a request to join.
Heard(m, slot) == /\ Reached(slot)
                  /\ \E t \in PeerSlots : LET far == me[slot.who].slots[t]
                                      IN /\ far.used /\ far.who = m /\ far.at = home[m]
                                         /\ far.connected \/ far.dials

\* expireSilentPeers()
Expire(m, s) ==
  /\ up[m] /\ me[m].slots[s].connected /\ ~Heard(m, me[m].slots[s])
  /\ me' = [me EXCEPT ![m].slots[s].connected = FALSE, ![m].slots[s].published = FALSE]
  /\ UNCHANGED <<up, home, wire, lost>>

\* join(): a new transport, whose first place is the introducer's.
JoinRoom(g) ==
  /\ ~up[g] /\ home[g] <= MaxReturns + 1
  /\ up' = [up EXCEPT ![g] = TRUE]
  /\ me' = [me EXCEPT ![g].drawn = @ + 1, ![g].slots[1] =
              [Prepared([Unused EXCEPT !.introducer = TRUE], TRUE, <<g, me[g].drawn + 1>>)
                 EXCEPT !.who = Creator, !.at = home[Creator], !.settled = TRUE]]
  /\ UNCHANGED <<home, wire, lost>>

\* stop()
Leave(g) ==
  /\ up[g] /\ home[g] <= MaxReturns
  /\ up' = [up EXCEPT ![g] = FALSE]
  /\ home' = [home EXCEPT ![g] = @ + 1]
  /\ me' = [me EXCEPT ![g] = [Fresh EXCEPT !.drawn = me[g].drawn]]
  /\ wire' = [pair \in Pairs |-> IF pair[2] = g THEN <<>> ELSE wire[pair]]
  /\ UNCHANGED lost

MeshNext == \/ \E m \in Profiles : Pass(m)
            \/ \E m, n \in Profiles : Receive(m, n) \/ Lose(n, m)
            \/ \E m \in Profiles, s \in PeerSlots : Expire(m, s)
            \/ \E g \in Guests : JoinRoom(g)
            \/ \E g \in Restless : Leave(g)

\* Every worker keeps running, and what is not lost arrives.
MeshFairness == \A m \in Profiles : /\ WF_meshVars(Pass(m))
                                    /\ WF_meshVars(\E n \in Profiles : Receive(m, n))
                                    /\ WF_meshVars(\E s \in PeerSlots : Expire(m, s))

MeshSpec == MeshInit /\ [][MeshNext]_meshVars /\ MeshFairness

-------------------------------------------------------------------------------

(***************************************************************************)
(* Nobody holds two places in somebody's room: the roster arrives again on *)
(* every change, and a room must not accumulate sessions with one person.  *)
(***************************************************************************)
OnePlaceEach ==
  \A m \in Profiles : \A s, t \in PeerSlots :
    LET x == me[m].slots[s] y == me[m].slots[t]
    IN x.used /\ y.used /\ x.name = y.name /\ x.name # NoProfile => s = t

(***************************************************************************)
(* Those who stay in the room all come to play with one another.           *)
(***************************************************************************)
InSession(a, b) == \E s, t \in PeerSlots :
  LET x == me[a].slots[s] y == me[b].slots[t]
  IN x.connected /\ y.connected /\ x.far = y.sess /\ y.far = x.sess

EverybodyMeets ==
  <>[](\A a, b \in Profiles : a # b /\ up[a] /\ up[b] => InSession(a, b))
===============================================================================
