--------------------------- MODULE RoomAuthority ---------------------------
(***************************************************************************)
(* src/control/room_authority.cpp: who is in a room, in which role, and    *)
(* what each may do.  Every decision is one call on the control thread, so *)
(* it is one step; the difficulty is in the sequences of calls: a co-host  *)
(* whose powers were cut, a guest who left and comes back with a token, a  *)
(* guest who was denied and asks again.                                    *)
(*                                                                         *)
(* participants_ is kept as functions on the identifiers that can occur;   *)
(* its order, the order of arrival, is `arrived`.                          *)
(***************************************************************************)
EXTENDS Integers, FiniteSets

CONSTANTS Host, Guests,      \* participant identifiers
          MaxParticipants,   \* maximumParticipants
          Tokens,            \* resume tokens of a valid length
          Lifetime,          \* how long a token is given, in units of the clock
          Toggled,           \* bound: capabilities that setCapability() is called with
          MaxRevision,       \* bound: nextGrantRevision_
          MaxTime            \* bound: the clock

ASSUME ParticipantAssumption ==
    Host \notin Guests /\ IsFiniteSet(Guests) /\ MaxParticipants \in Nat \ {0}
ASSUME TimeAssumption == Lifetime \in Nat \ {0} /\ MaxTime \in Nat /\ MaxRevision \in Nat

Ids == Guests \union {Host}

Roles == {"Waiting", "Listener", "VoiceGuest", "Performer", "CoHost", "Host"}
Admissions == {"Waiting", "Admitted", "Denied", "Disconnected"}
Capabilities == {"HearRoom", "ReadChat", "SendChat", "SendVoice", "SendMusic",
                 "RequestPerform", "ControlRoomRecord", "AdmitUsers", "RemoveUsers",
                 "GrantPerformer", "RevokePerformer", "LockRoom", "ChangeVisibility",
                 "ManageRoom", "EndRoom"}

ASSUME ToggledAssumption == Toggled \subseteq Capabilities

Absent == "Absent"
NoToken == "none"
ASSUME TokenAssumption == NoToken \notin Tokens

VARIABLES people,        \* participants_: what is known of each identifier
          nextRevision,  \* nextGrantRevision_
          now,           \* the clock of the callers
          issued,        \* history: resume tokens given out
          accepted       \* history: resume tokens that brought someone back

vars == <<people, nextRevision, now, issued, accepted>>

Present == {p \in Ids : people[p].admission # Absent}

ListenerCaps == {"HearRoom", "ReadChat", "RequestPerform"}
VoiceGuestCaps == ListenerCaps \union {"SendChat", "SendVoice"}
PerformerCaps == VoiceGuestCaps \union {"SendMusic"}
CoHostCaps == PerformerCaps \union {"AdmitUsers", "RemoveUsers", "GrantPerformer",
                                    "RevokePerformer", "LockRoom"}
RoleCapabilities(r) ==
    CASE r = "Waiting" -> {}
      [] r = "Listener" -> ListenerCaps
      [] r = "VoiceGuest" -> VoiceGuestCaps
      [] r = "Performer" -> PerformerCaps
      [] r = "CoHost" -> CoHostCaps
      [] r = "Host" -> Capabilities

Nobody == [admission |-> Absent, role |-> "Waiting", caps |-> {}, revision |-> 0,
           arrived |-> 0, token |-> NoToken, expires |-> 0]

Creator == [admission |-> "Admitted", role |-> "Host", caps |-> Capabilities, revision |-> 1,
            arrived |-> 1, token |-> NoToken, expires |-> 0]

Init == /\ people = [p \in Ids |-> IF p = Host THEN Creator ELSE Nobody]
        /\ nextRevision = 2
        /\ now = 1
        /\ issued = {} /\ accepted = {}

-----------------------------------------------------------------------------
(* Mistake: a change of the grant keeps the revision it was published under. *)
KeepRevision(old) == old

NewRevision(old) == nextRevision

(* Mistake: the revision that was just given out is not used up. *)
Unspent(revision) == revision

Following(revision) == revision + 1

(* bumpGrant() on the new state of one participant. *)
Regrant(p, person) ==
    /\ nextRevision <= MaxRevision
    /\ people' = [people EXCEPT ![p] = [person EXCEPT !.revision = NewRevision(@)]]
    /\ nextRevision' = Following(nextRevision)

(* The first denied participant makes room for whoever asks next. *)
FirstDenied == {d \in Ids : /\ people[d].admission = "Denied"
                            /\ \A e \in Ids : people[e].admission = "Denied" =>
                                                 people[d].arrived <= people[e].arrived}

(* Mistake: the last slot of the array is given out twice. *)
RoomForOneMore(staying) == Cardinality(staying) <= MaxParticipants

RoomFor(staying) == Cardinality(staying) < MaxParticipants

(* Mistake: the freed place is not cleared for its next occupant. *)
VacatedUncleared(person) == [person EXCEPT !.admission = Absent]

(* removeAt() on the one who leaves. *)
Vacated(person) == Nobody

(* requestAdmission(): the place of a denied participant is freed whether  *)
(* or not the request itself is then accepted.                             *)
RequestAdmission(p) ==
    LET staying == Present \ FirstDenied
        left == [q \in Ids |-> IF q \in staying THEN people[q] ELSE Vacated(people[q])]
        newcomer == [left[p] EXCEPT !.admission = "Waiting", !.role = "Waiting", !.caps = {},
                                    !.revision = nextRevision, !.arrived = nextRevision]
    IN /\ nextRevision <= MaxRevision
       /\ IF p \notin staying /\ RoomFor(staying)
          THEN /\ people' = [left EXCEPT ![p] = newcomer]
               /\ nextRevision' = Following(nextRevision)
          ELSE people' = left /\ UNCHANGED nextRevision
       /\ UNCHANGED <<now, issued, accepted>>

MayManageRole(a, p, requested) ==
    /\ people[a].admission = "Admitted" /\ a # p
    /\ people[p].role # "Host" /\ requested # "Host"
    /\ \/ people[a].role = "Host"
       \/ /\ people[a].role = "CoHost"
          /\ people[p].role # "CoHost" /\ requested # "CoHost"

MayGrant(a, r) == r = "Performer" => "GrantPerformer" \in people[a].caps

Admit(a, p, r) ==
    /\ people[a].admission # Absent /\ people[p].admission = "Waiting"
    /\ r \notin {"Waiting", "Host"}
    /\ "AdmitUsers" \in people[a].caps
    /\ MayGrant(a, r)
    /\ MayManageRole(a, p, r)
    /\ Regrant(p, [people[p] EXCEPT !.admission = "Admitted", !.role = r,
                                    !.caps = RoleCapabilities(r),
                                    !.token = NoToken, !.expires = 0])
    /\ UNCHANGED <<now, issued, accepted>>

Deny(a, p) ==
    /\ people[a].admission # Absent /\ people[p].admission = "Waiting"
    /\ "AdmitUsers" \in people[a].caps
    /\ Regrant(p, [people[p] EXCEPT !.admission = "Denied", !.caps = {}])
    /\ UNCHANGED <<now, issued, accepted>>

SetRole(a, p, r) ==
    /\ people[a].admission # Absent /\ people[p].admission = "Admitted"
    /\ r \notin {"Waiting", "Host"}
    /\ MayManageRole(a, p, r)
    /\ MayGrant(a, r)
    /\ people[p].role = "Performer" /\ r # "Performer" =>
          "RevokePerformer" \in people[a].caps
    /\ Regrant(p, [people[p] EXCEPT !.role = r, !.caps = RoleCapabilities(r)])
    /\ UNCHANGED <<now, issued, accepted>>

(* Mistake: the right to end the room can be handed on like any other. *)
NeverHandedOnNothing == {}

NeverHandedOn == {"EndRoom"}

SetCapability(a, p, c, enabled) ==
    /\ people[a].admission # Absent /\ people[p].admission = "Admitted"
    /\ people[p].role # "Host"
    /\ "ManageRoom" \in people[a].caps
    /\ c \notin NeverHandedOn
    /\ Regrant(p, [people[p] EXCEPT !.caps = IF enabled THEN @ \union {c} ELSE @ \ {c}])
    /\ UNCHANGED <<now, issued, accepted>>

-----------------------------------------------------------------------------
(* A participant who loses the connection keeps its place for a while, and *)
(* takes it back with a token that the room gave it.  Tokens are random,   *)
(* so the room never gives out the same one twice.                         *)

Fresh == Tokens \ issued

Disconnect(p, t) ==
    /\ people[p].admission = "Admitted" /\ people[p].role # "Host"
    /\ Regrant(p, [people[p] EXCEPT !.admission = "Disconnected", !.token = t,
                                    !.expires = now + Lifetime])
    /\ issued' = issued \union {t}
    /\ UNCHANGED <<now, accepted>>

(* Mistake: the token that was presented stays the valid one. *)
KeepToken(old, replacement) == old

NextToken(old, replacement) == replacement

Resume(p, presented, replacement) ==
    /\ people[p].admission = "Disconnected"
    /\ people[p].token # NoToken /\ presented = people[p].token
    /\ now < people[p].expires
    /\ Regrant(p, [people[p] EXCEPT !.admission = "Admitted",
                                    !.token = NextToken(@, replacement),
                                    !.expires = now + Lifetime])
    /\ issued' = issued \union {replacement}
    /\ accepted' = accepted \union {presented}
    /\ UNCHANGED now

(* Mistake: whoever has a token that expired is removed, in the room or not. *)
InactiveExpired(p) == \/ people[p].admission = "Denied"
                      \/ people[p].token # NoToken /\ now >= people[p].expires

Inactive(p) == \/ people[p].admission = "Denied"
               \/ people[p].admission = "Disconnected" /\ now >= people[p].expires

ReapInactive ==
    /\ \E p \in Guests : Inactive(p)
    /\ people' = [p \in Ids |-> IF p \in Guests /\ Inactive(p) THEN Vacated(people[p])
                                                    ELSE people[p]]
    /\ UNCHANGED <<nextRevision, now, issued, accepted>>

Tick == /\ now < MaxTime
        /\ now' = now + 1
        /\ UNCHANGED <<people, nextRevision, issued, accepted>>

Authorize(p, c) == people[p].admission = "Admitted" /\ c \in people[p].caps

Decide(a, p) == \/ \E r \in Roles : Admit(a, p, r) \/ SetRole(a, p, r)
                \/ Deny(a, p)
                \/ \E c \in Toggled, enabled \in BOOLEAN : SetCapability(a, p, c, enabled)

Return(p) == \E t \in Tokens, fresh \in Fresh : Resume(p, t, fresh)

Next == \/ \E p \in Ids : RequestAdmission(p)
        \/ \E a, p \in Ids : Decide(a, p)
        \/ \E p \in Ids, t \in Fresh : Disconnect(p, t)
        \/ \E p \in Ids : Return(p)
        \/ ReapInactive
        \/ Tick

Spec == Init /\ [][Next]_vars

-----------------------------------------------------------------------------
Person == [admission : Admissions \union {Absent}, role : Roles,
           caps : SUBSET Capabilities, revision : Nat, arrived : Nat,
           token : Tokens \union {NoToken}, expires : Nat]

(* Types, and the bounded storage is never outgrown. *)
TypeOK == /\ people \in [Ids -> Person]
          /\ Cardinality(Present) <= MaxParticipants
          /\ nextRevision \in Nat /\ now \in Nat
          /\ issued \in SUBSET Tokens /\ accepted \in SUBSET Tokens

(* The room always has its host, with every power, and nobody else ever    *)
(* holds the right to end it, whoever was given the right to manage it.    *)
OneHost ==
    /\ people[Host].admission = "Admitted" /\ people[Host].role = "Host"
    /\ people[Host].caps = Capabilities
    /\ \A p \in Guests : people[p].role # "Host" /\ "EndRoom" \notin people[p].caps

(* A revision names one grant: no two participants share one, and it is    *)
(* never one that is still to be given out.                                *)
RevisionsNameGrants ==
    /\ \A p \in Present : people[p].revision < nextRevision
    /\ \A p, q \in Present : p # q => people[p].revision # people[q].revision

(* What network workers decided from a published grant is never stale      *)
(* without their noticing: whenever what somebody in the room may do       *)
(* changes, so does the revision, to one that no grant had before.         *)
ChangesAreRevised ==
    [][\A p \in Ids : \A c \in Capabilities :
          /\ people[p].admission # Absent /\ people'[p].admission # Absent
          /\ Authorize(p, c) # Authorize(p, c)'
          => people'[p].revision >= nextRevision]_vars

(* A guest who waits or was denied can do nothing, and nothing is left of  *)
(* what an earlier stay under the same name was allowed.                   *)
OutsidersPowerless ==
    \A p \in Ids : people[p].admission \in {Absent, "Waiting", "Denied"} =>
                      people[p].caps = {} /\ people[p].token = NoToken

(* A resume token works once: one that brought somebody back is nobody's   *)
(* token any more, and no two participants hold the same.                  *)
TokensWorkOnce ==
    /\ \A p \in Ids : people[p].token \notin accepted
    /\ \A p, q \in Ids : p # q /\ people[p].token = people[q].token =>
                            people[p].token = NoToken

(* Nobody is removed while connected: only a denied participant, or one    *)
(* whose time to come back has run out, ever leaves the list.              *)
ConnectedStay ==
    [][\A p \in Ids : people[p].admission = "Admitted" => p \in Present']_vars
=============================================================================
