----------------------------- MODULE Room_proofs -----------------------------
(***************************************************************************)
(* What RoomAuthority and DesktopRoom promise.                             *)
(*                                                                         *)
(* RoomAuthority, for every number of guests and tokens and every          *)
(* capacity: the invariant is proved in two halves, the grants and the     *)
(* tokens; all decisions go through Regrant, so one lemma about it serves  *)
(* every one of them.                                                      *)
(*                                                                         *)
(* DesktopRoom, for any friends and any number of calls and events: what   *)
(* is muted, shown and known belongs to the room there is.                 *)
(***************************************************************************)
EXTENDS RoomAuthority, DesktopRoom, FiniteSetTheorems, WellFoundedInduction, TLAPS

-----------------------------------------------------------------------------
(* Part one: who may do what.                                              *)


Grants == /\ people \in [Ids -> Person]
          /\ nextRevision \in Nat
          /\ Cardinality(Present) <= MaxParticipants
          /\ OneHost
          /\ RevisionsNameGrants
          /\ OutsidersPowerless

(* A token in use was issued; that is why a fresh one is nobody's. *)
TokensKnown == /\ issued \in SUBSET Tokens
               /\ accepted \in SUBSET issued
               /\ \A p \in Ids : people[p].token \in issued \union {NoToken}
               /\ TokensWorkOnce

RoomInv == /\ Grants /\ TokensKnown
           /\ now \in Nat

(* What a step may do to anybody: nothing, a grant under a new revision, or *)
(* removal, and that never while connected.                                *)
OnlyRevised ==
    \A q \in Ids :
        \/ people'[q] = people[q]
        \/ people'[q].admission # Absent /\ people'[q].revision >= nextRevision
        \/ people'[q].admission = Absent /\ people[q].admission # "Admitted"

(* What bumpGrant() may be called with: a participant that is not the      *)
(* host, holds nothing only the host may hold, and is in the room or holds *)
(* nothing.                                                                *)
Grantable(person) ==
    /\ person \in Person
    /\ person.admission # Absent
    /\ person.role # "Host" /\ "EndRoom" \notin person.caps
    /\ person.admission \in {"Waiting", "Denied"} =>
          person.caps = {} /\ person.token = NoToken

-----------------------------------------------------------------------------
(* The roles that can be handed out never include the right to end the     *)
(* room (roleCapabilities).                                                *)
LEMMA RolesKeepEndRoom ==
    ASSUME NEW r \in Roles, r # "Host"
    PROVE  /\ RoleCapabilities(r) \in SUBSET Capabilities
           /\ "EndRoom" \notin RoleCapabilities(r)
<1>1. CASE r = "Waiting"
  BY <1>1 DEF RoleCapabilities
<1>2. CASE r = "Listener"
  BY <1>2 DEF RoleCapabilities, ListenerCaps, Capabilities
<1>3. CASE r = "VoiceGuest"
  BY <1>3 DEF RoleCapabilities, ListenerCaps, VoiceGuestCaps, Capabilities
<1>4. CASE r = "Performer"
  BY <1>4 DEF RoleCapabilities, ListenerCaps, VoiceGuestCaps, PerformerCaps, Capabilities
<1>5. CASE r = "CoHost"
  BY <1>5 DEF RoleCapabilities, ListenerCaps, VoiceGuestCaps, PerformerCaps, CoHostCaps,
              Capabilities
<1>6. QED  BY <1>1, <1>2, <1>3, <1>4, <1>5 DEF Roles

(* Nobody is the empty slot of the array. *)
LEMMA NobodyTyped == Nobody \in Person
<1>1. NoToken \in Tokens \union {NoToken}  OBVIOUS
<1>2. QED  BY <1>1 DEF Nobody, Person, Absent, Roles

(* The identifiers are finitely many, so the list can be counted. *)
LEMMA IdsFinite == IsFiniteSet(Ids) /\ IsFiniteSet({Host})
  BY ParticipantAssumption, FS_Singleton, FS_Union DEF Ids

(* The room starts with its host and nobody else. *)
LEMMA RoomInvInit == Init => RoomInv
<1> SUFFICES ASSUME Init PROVE RoomInv  OBVIOUS
<1>0. Creator \in Person
  <2>1. NoToken \in Tokens \union {NoToken}  OBVIOUS
  <2> QED  BY <2>1 DEF Creator, Person, Admissions, Roles
<1>00. people = [p \in Ids |-> IF p = Host THEN Creator ELSE Nobody]
  BY DEF Init
<1>1. people[Host] = Creator  BY <1>00 DEF Ids
<1>2. \A p \in Guests : people[p] = Nobody
  BY <1>00, ParticipantAssumption DEF Ids
<1>4. people \in [Ids -> Person]
  BY <1>0, <1>00, NobodyTyped DEF Ids
<1>3. /\ people[Host].admission = "Admitted" /\ people[Host].role = "Host"
      /\ people[Host].caps = Capabilities /\ people[Host].revision = 1
      /\ people[Host].token = NoToken
  BY <1>1 DEF Creator
<1>20. \A p \in Guests : /\ people[p].admission = Absent /\ people[p].role = "Waiting"
                          /\ people[p].caps = {} /\ people[p].token = NoToken
  BY <1>2 DEF Nobody
<1>5. Present = {Host}
  BY <1>3, <1>20, ParticipantAssumption DEF Present, Ids, Absent
<1>6. Cardinality(Present) <= MaxParticipants
  BY <1>5, FS_Singleton, ParticipantAssumption
<1>7. OneHost
  BY <1>3, <1>20 DEF OneHost
<1>8. RevisionsNameGrants
  BY <1>3, <1>5 DEF RevisionsNameGrants, Init
<1>9. OutsidersPowerless
  BY <1>3, <1>20 DEF OutsidersPowerless, Ids, Absent
<1>10. TokensKnown
  <2>1. \A p \in Ids : people[p].token = NoToken  BY <1>3, <1>20 DEF Ids
  <2> QED  BY <2>1 DEF TokensKnown, TokensWorkOnce, Init
<1> QED  BY <1>4, <1>6, <1>7, <1>8, <1>9, <1>10 DEF RoomInv, Grants, Init, Admissions

-----------------------------------------------------------------------------
(* bumpGrant() on one participant keeps everything the grants promise.     *)
LEMMA RegrantKeepsGrants ==
    ASSUME Grants, NEW p \in Ids, p # Host, p \in Present,
           NEW person, Grantable(person), Regrant(p, person)
    PROVE  /\ Grants' /\ OnlyRevised
           /\ people' = [people EXCEPT ![p] = [person EXCEPT !.revision = nextRevision]]
<1> DEFINE given == [person EXCEPT !.revision = nextRevision]
<1>1. /\ people' = [people EXCEPT ![p] = given]
      /\ nextRevision' = nextRevision + 1
  BY DEF Regrant, NewRevision, Following
<1>2. /\ given \in Person /\ given.revision = nextRevision
      /\ given.admission = person.admission /\ given.role = person.role
      /\ given.caps = person.caps /\ given.token = person.token
  BY DEF Grants, Grantable, Person
<1> HIDE DEF given
<1>3. people' \in [Ids -> Person] /\ nextRevision' \in Nat
  BY <1>1, <1>2 DEF Grants
<1>4. people'[p] = given /\ \A q \in Ids \ {p} : people'[q] = people[q]
  BY <1>1 DEF Grants
<1>5. Present' = Present
  BY <1>2, <1>4 DEF Present, Grantable
<1>6. OneHost'
  <2>1. people'[Host] = people[Host]  BY <1>4 DEF Ids
  <2>2. \A q \in Guests : people'[q].role # "Host" /\ "EndRoom" \notin people'[q].caps
    BY <1>2, <1>4 DEF Grants, OneHost, Grantable, Ids
  <2> QED  BY <2>1, <2>2 DEF Grants, OneHost
<1>7. RevisionsNameGrants'
  <2>1. \A q \in Present : people[q].revision \in Nat
    BY DEF Grants, Present, Person
  <2>2. \A q \in Present' : q # p => people'[q].revision < nextRevision
    BY <1>4, <1>5 DEF Grants, RevisionsNameGrants, Present
  <2>3. \A q \in Present' : people'[q].revision < nextRevision'
    BY <2>1, <2>2, <1>1, <1>2, <1>4, <1>5 DEF Grants, Present
  <2>4. ASSUME NEW q1 \in Present', NEW q2 \in Present', q1 # q2
        PROVE  people'[q1].revision # people'[q2].revision
    <3>1. CASE q1 = p  BY <3>1, <2>4, <2>1, <2>2, <1>2, <1>4, <1>5 DEF Grants, Present
    <3>2. CASE q2 = p  BY <3>2, <2>4, <2>1, <2>2, <1>2, <1>4, <1>5 DEF Grants, Present
    <3>3. CASE q1 # p /\ q2 # p
      BY <3>3, <2>4, <1>4, <1>5 DEF Grants, RevisionsNameGrants, Present
    <3> QED  BY <3>1, <3>2, <3>3
  <2> QED  BY <2>3, <2>4 DEF RevisionsNameGrants
<1>8. OutsidersPowerless'
  BY <1>2, <1>4 DEF Grants, OutsidersPowerless, Grantable
<1>9. OnlyRevised
  BY <1>2, <1>4 DEF OnlyRevised, Grantable, Grants
<1> QED  BY <1>1, <1>3, <1>5, <1>6, <1>7, <1>8, <1>9 DEF Grants, given

(* Taking people off the list, and putting them back on it empty, keeps    *)
(* what the grants promise: what requestAdmission() and reapInactive() do. *)
LEMMA RemovalKeepsGrants ==
    ASSUME Grants, NEW gone \in SUBSET Guests, UNCHANGED nextRevision,
           people' = [q \in Ids |-> IF q \in gone THEN Nobody ELSE people[q]]
    PROVE  Grants' /\ Present' = Present \ gone
<1>1. \A q \in Ids \ gone : people'[q] = people[q]  OBVIOUS
<1>2. \A q \in gone : /\ people'[q].admission = Absent /\ people'[q].role = "Waiting"
                      /\ people'[q].caps = {} /\ people'[q].token = NoToken
  BY DEF Nobody, Ids
<1>3. people' \in [Ids -> Person]  BY NobodyTyped DEF Grants
<1>4. Present' = Present \ gone  BY <1>1, <1>2 DEF Present, Ids
<1>5. Cardinality(Present') <= MaxParticipants
  <2>1. IsFiniteSet(Present)  BY IdsFinite, FS_Subset DEF Present
  <2>2. IsFiniteSet(Present') /\ Cardinality(Present') <= Cardinality(Present)
    BY <2>1, <1>4, FS_Subset
  <2> QED  BY <2>1, <2>2, ParticipantAssumption, FS_CardinalityType DEF Grants
<1>6. OneHost'
  BY <1>1, <1>2, ParticipantAssumption DEF Grants, OneHost, Ids
<1>7. RevisionsNameGrants'
  BY <1>1, <1>4 DEF Grants, RevisionsNameGrants, Present
<1>8. OutsidersPowerless'
  BY <1>1, <1>2 DEF Grants, OutsidersPowerless
<1> QED  BY <1>3, <1>4, <1>5, <1>6, <1>7, <1>8 DEF Grants

(* Nothing that leaves the tokens alone, or forgets some, breaks them.     *)
LEMMA ForgettingKeepsTokens ==
    ASSUME TokensKnown, UNCHANGED <<issued, accepted>>,
           \A q \in Ids : people'[q].token \in {people[q].token, NoToken}
    PROVE  TokensKnown'
BY TokenAssumption DEF TokensKnown, TokensWorkOnce

(* A fresh token is nobody's, so giving it to one participant is safe.     *)
LEMMA FreshTokenIsSafe ==
    ASSUME TokensKnown, NEW p \in Ids, NEW t \in Fresh,
           people'[p].token = t,
           \A q \in Ids \ {p} : people'[q].token = people[q].token,
           issued' = issued \union {t},
           \/ accepted' = accepted
           \/ people[p].token # NoToken /\ accepted' = accepted \union {people[p].token}
    PROVE  TokensKnown'
<1>1. t \in Tokens /\ t \notin issued /\ t # NoToken
  BY TokenAssumption DEF Fresh
<1>2. \A q \in Ids \ {p} : people[q].token # NoToken => people[q].token # people[p].token
  BY DEF TokensKnown, TokensWorkOnce
<1>3. issued' \in SUBSET Tokens /\ accepted' \in SUBSET issued'
  BY <1>1 DEF TokensKnown
<1>4. \A q \in Ids : people'[q].token \in issued' \union {NoToken}
  BY DEF TokensKnown
<1>5. \A q \in Ids : people'[q].token \notin accepted'
  <2>1. people'[p].token \notin accepted'  BY <1>1 DEF TokensKnown
  <2>2. ASSUME NEW q \in Ids \ {p} PROVE people'[q].token \notin accepted'
    BY <1>2, TokenAssumption DEF TokensKnown, TokensWorkOnce
  <2> QED  BY <2>1, <2>2
<1>6. \A q1, q2 \in Ids : q1 # q2 /\ people'[q1].token = people'[q2].token =>
                            people'[q1].token = NoToken
  BY <1>1 DEF TokensKnown, TokensWorkOnce
<1> QED  BY <1>3, <1>4, <1>5, <1>6 DEF TokensKnown, TokensWorkOnce

(* A newcomer takes the place of somebody who left, or a free one.         *)
LEMMA NewcomerKeepsGrants ==
    ASSUME Grants, NEW gone \in SUBSET Guests, NEW p \in gone,
           Cardinality(Present \ gone) < MaxParticipants,
           NEW newcomer \in Person,
           newcomer.admission = "Waiting", newcomer.role = "Waiting", newcomer.caps = {},
           newcomer.token = NoToken, newcomer.revision = nextRevision,
           nextRevision' = nextRevision + 1,
           people' = [q \in Ids |-> IF q = p THEN newcomer
                                    ELSE IF q \in gone THEN Nobody ELSE people[q]]
    PROVE  Grants'
<1>1. \A q \in Ids \ gone : people'[q] = people[q]  OBVIOUS
<1>2. \A q \in gone \ {p} :
         /\ people'[q].admission = Absent /\ people'[q].role = "Waiting"
         /\ people'[q].caps = {} /\ people'[q].token = NoToken
  BY DEF Nobody, Ids
<1>3. people'[p] = newcomer  BY DEF Ids
<1>4. people' \in [Ids -> Person]  BY NobodyTyped DEF Grants
<1>5. Present' = (Present \ gone) \union {p}
  BY <1>1, <1>2, <1>3 DEF Present, Ids, Absent
<1>6. Cardinality(Present') <= MaxParticipants
  <2>1. IsFiniteSet(Present \ gone)  BY IdsFinite, FS_Subset DEF Present
  <2>2. Cardinality(Present') = Cardinality(Present \ gone) + 1
    BY <2>1, <1>5, FS_AddElement
  <2> QED  BY <2>1, <2>2, ParticipantAssumption, FS_CardinalityType
<1>7. OneHost'
  BY <1>1, <1>2, <1>3, ParticipantAssumption DEF Grants, OneHost, Ids
<1>8. RevisionsNameGrants'
  <2>1. \A q \in Present : people[q].revision \in Nat  BY DEF Grants, Present, Person
  <2>2. \A q \in Present' : q # p => q \in Present /\ people'[q] = people[q]
    BY <1>1, <1>5 DEF Present
  <2>3. \A q \in Present' : q # p => people'[q].revision < nextRevision
    BY <2>2 DEF Grants, RevisionsNameGrants
  <2>4. \A q \in Present' : people'[q].revision < nextRevision'
    BY <2>1, <2>2, <2>3, <1>3 DEF Grants
  <2>5. ASSUME NEW q1 \in Present', NEW q2 \in Present', q1 # q2
        PROVE  people'[q1].revision # people'[q2].revision
    <3>1. CASE q1 = p  BY <3>1, <2>5, <2>1, <2>2, <2>3, <1>3 DEF Grants
    <3>2. CASE q2 = p  BY <3>2, <2>5, <2>1, <2>2, <2>3, <1>3 DEF Grants
    <3>3. CASE q1 # p /\ q2 # p
      BY <3>3, <2>5, <2>2 DEF Grants, RevisionsNameGrants
    <3> QED  BY <3>1, <3>2, <3>3
  <2> QED  BY <2>4, <2>5 DEF RevisionsNameGrants
<1>9. OutsidersPowerless'
  BY <1>1, <1>2, <1>3 DEF Grants, OutsidersPowerless
<1> QED  BY <1>4, <1>6, <1>7, <1>8, <1>9 DEF Grants

-----------------------------------------------------------------------------
(* requestAdmission(): accepted or refused, the invariant is kept. *)
LEMMA RequestAdmissionKeeps ==
    ASSUME RoomInv, NEW p \in Ids, RequestAdmission(p)  PROVE RoomInv' /\ OnlyRevised
<1> DEFINE staying == Present \ FirstDenied
           gone == Ids \ staying
           left == [q \in Ids |-> IF q \in staying THEN people[q] ELSE Vacated(people[q])]
           newcomer == [left[p] EXCEPT !.admission = "Waiting", !.role = "Waiting", !.caps = {},
                                       !.revision = nextRevision, !.arrived = nextRevision]
<1>1. gone \in SUBSET Guests
  BY DEF RoomInv, Grants, OneHost, Present, FirstDenied, Ids, Absent
<1>2. left = [q \in Ids |-> IF q \in gone THEN Nobody ELSE people[q]]
  BY DEF Vacated
<1>3. UNCHANGED <<now, issued, accepted>>
  BY DEF RequestAdmission
<1>4. CASE p \notin staying /\ RoomFor(staying)
  <2>1. people' = [left EXCEPT ![p] = newcomer] /\ nextRevision' = nextRevision + 1
    BY <1>4 DEF RequestAdmission, Following
  <2>2. left[p] = Nobody  BY <1>2, <1>4
  <2>3. /\ newcomer \in Person /\ newcomer.admission = "Waiting" /\ newcomer.role = "Waiting"
        /\ newcomer.caps = {} /\ newcomer.token = NoToken
        /\ newcomer.revision = nextRevision
    <3>1. left[p] \in Person /\ left[p].token = NoToken
      BY <2>2, NobodyTyped DEF Nobody
    <3>2. {} \in SUBSET Capabilities /\ nextRevision \in Nat /\ "Waiting" \in Roles
          /\ "Waiting" \in Admissions \union {Absent}
      BY DEF Roles, Admissions, RoomInv, Grants
    <3> HIDE DEF left
    <3> QED  BY <3>1, <3>2 DEF Person
  <2> HIDE DEF newcomer, staying
  <2>4. Present \ gone = staying  BY DEF staying, Present
  <2>5. people' = [q \in Ids |-> IF q = p THEN newcomer
                                ELSE IF q \in gone THEN Nobody ELSE people[q]]
    BY <2>1, <1>2
  <2>6. Grants'
    <3>1. p \in gone /\ Cardinality(Present \ gone) < MaxParticipants
      BY <1>4, <2>4 DEF RoomFor
    <3> HIDE DEF gone, left
    <3> QED  BY <1>1, <2>1, <2>3, <2>5, <3>1, NewcomerKeepsGrants DEF RoomInv
  <2>7. \A q \in Ids : people'[q].token \in {people[q].token, NoToken}
    BY <2>3, <2>5 DEF Nobody
  <2>8. OnlyRevised
    <3>1. \A q \in gone \ {p} : people'[q].admission = Absent /\ people[q].admission # "Admitted"
      BY <1>1, <2>5 DEF staying, Present, FirstDenied, Nobody, Absent
    <3>2. people'[p].admission # Absent /\ people'[p].revision >= nextRevision
      BY <2>3, <2>5 DEF Absent, RoomInv, Grants
    <3>3. \A q \in Ids \ gone : q # p => people'[q] = people[q]
      BY <2>5
    <3> HIDE DEF gone
    <3> QED  BY <3>1, <3>2, <3>3 DEF OnlyRevised
  <2> QED  BY <2>6, <2>7, <2>8, <1>3, ForgettingKeepsTokens DEF RoomInv
<1>5. CASE ~(p \notin staying /\ RoomFor(staying))
  <2>1. people' = left /\ UNCHANGED nextRevision
    BY <1>5 DEF RequestAdmission
  <2> HIDE DEF left, gone
  <2>2. Grants'  BY <1>1, <1>2, <2>1, RemovalKeepsGrants DEF RoomInv
  <2>3. \A q \in Ids : people'[q].token \in {people[q].token, NoToken}
    BY <1>2, <2>1 DEF Nobody
  <2>4. OnlyRevised
    BY <1>2, <2>1 DEF OnlyRevised, gone, Present, FirstDenied, Nobody, Absent
  <2> QED  BY <2>2, <2>3, <2>4, <1>3, ForgettingKeepsTokens DEF RoomInv
<1> QED  BY <1>4, <1>5

(* Everybody's decisions: admit(), deny(), setRole() and setCapability()   *)
(* leave tokens alone, or forget one, and grant through bumpGrant().       *)
LEMMA DecisionKeeps ==
    ASSUME RoomInv, NEW a \in Ids, NEW p \in Ids, people[a].admission # Absent,
           p # Host, p \in Present,
           NEW person, Grantable(person), person.token \in {people[p].token, NoToken},
           Regrant(p, person), UNCHANGED <<now, issued, accepted>>
    PROVE  RoomInv' /\ OnlyRevised
<1>1. /\ Grants' /\ OnlyRevised
      /\ people' = [people EXCEPT ![p] = [person EXCEPT !.revision = nextRevision]]
  BY RegrantKeepsGrants DEF RoomInv
<1>2. \A q \in Ids : people'[q].token \in {people[q].token, NoToken}
  BY <1>1 DEF RoomInv, Grants, Grantable, Person
<1>3. TokensKnown'  BY <1>2, ForgettingKeepsTokens DEF RoomInv
<1>4. now' \in Nat  BY DEF RoomInv
<1> QED  BY <1>1, <1>3, <1>4 DEF RoomInv

(* admit() grants a role other than Host to somebody who waits. *)
LEMMA AdmitKeeps ==
    ASSUME RoomInv, NEW a \in Ids, NEW p \in Ids, NEW r \in Roles, Admit(a, p, r)
    PROVE  RoomInv' /\ OnlyRevised
<1> DEFINE person == [people[p] EXCEPT !.admission = "Admitted", !.role = r,
                                       !.caps = RoleCapabilities(r),
                                       !.token = NoToken, !.expires = 0]
<1>1. people[p] \in Person /\ people[p].admission = "Waiting" /\ r # "Host"
  BY DEF RoomInv, Grants, Admit
<1>2. p # Host /\ p \in Present
  BY <1>1 DEF RoomInv, Grants, OneHost, Present, Absent
<1>3. RoleCapabilities(r) \in SUBSET Capabilities /\ "EndRoom" \notin RoleCapabilities(r)
  BY <1>1, RolesKeepEndRoom
<1>4. Grantable(person) /\ person.token = NoToken
  BY <1>1, <1>3 DEF Grantable, Person, Admissions, Absent
<1>5. people[a].admission # Absent /\ Regrant(p, person) /\ UNCHANGED <<now, issued, accepted>>
  BY DEF Admit
<1> HIDE DEF person
<1> QED  BY <1>2, <1>4, <1>5, DecisionKeeps

(* deny() leaves somebody who waits with nothing. *)
LEMMA DenyKeeps ==
    ASSUME RoomInv, NEW a \in Ids, NEW p \in Ids, Deny(a, p)
    PROVE  RoomInv' /\ OnlyRevised
<1> DEFINE person == [people[p] EXCEPT !.admission = "Denied", !.caps = {}]
<1>1. people[p] \in Person /\ people[p].admission = "Waiting"
  BY DEF RoomInv, Grants, Deny
<1>2. p # Host /\ p \in Present /\ p \in Guests
  BY <1>1 DEF RoomInv, Grants, OneHost, Present, Absent, Ids
<1>3. people[p].role # "Host" /\ people[p].token = NoToken
  BY <1>1, <1>2 DEF RoomInv, Grants, OneHost, OutsidersPowerless
<1>4. Grantable(person) /\ person.token = NoToken
  BY <1>1, <1>3 DEF Grantable, Person, Admissions, Absent
<1>5. people[a].admission # Absent /\ Regrant(p, person) /\ UNCHANGED <<now, issued, accepted>>
  BY DEF Deny
<1> HIDE DEF person
<1> QED  BY <1>2, <1>4, <1>5, DecisionKeeps

(* setRole() keeps the invariant: the role it gives is never Host. *)
LEMMA SetRoleKeeps ==
    ASSUME RoomInv, NEW a \in Ids, NEW p \in Ids, NEW r \in Roles, SetRole(a, p, r)
    PROVE  RoomInv' /\ OnlyRevised
<1> DEFINE person == [people[p] EXCEPT !.role = r, !.caps = RoleCapabilities(r)]
<1>1. people[p] \in Person /\ people[p].admission = "Admitted" /\ r # "Host"
  BY DEF RoomInv, Grants, SetRole
<1>2. p # Host /\ p \in Present
  BY <1>1 DEF RoomInv, Grants, OneHost, Present, Absent, SetRole, MayManageRole
<1>3. RoleCapabilities(r) \in SUBSET Capabilities /\ "EndRoom" \notin RoleCapabilities(r)
  BY <1>1, RolesKeepEndRoom
<1>4. Grantable(person) /\ person.token = people[p].token
  BY <1>1, <1>3 DEF Grantable, Person, Admissions, Absent
<1>5. people[a].admission # Absent /\ Regrant(p, person) /\ UNCHANGED <<now, issued, accepted>>
  BY DEF SetRole
<1> HIDE DEF person
<1> QED  BY <1>2, <1>4, <1>5, DecisionKeeps

(* setCapability() keeps the invariant: it never enables EndRoom. *)
LEMMA SetCapabilityKeeps ==
    ASSUME RoomInv, NEW a \in Ids, NEW p \in Ids, NEW c \in Toggled,
           NEW enabled \in BOOLEAN, SetCapability(a, p, c, enabled)
    PROVE  RoomInv' /\ OnlyRevised
<1> DEFINE caps == IF enabled THEN people[p].caps \union {c} ELSE people[p].caps \ {c}
           person == [people[p] EXCEPT !.caps = caps]
<1>1. people[p] \in Person /\ people[p].admission = "Admitted" /\ people[p].role # "Host"
  BY DEF RoomInv, Grants, SetCapability
<1>2. p # Host /\ p \in Present /\ p \in Guests
  BY <1>1 DEF RoomInv, Grants, OneHost, Present, Absent, Ids
<1>3. caps \in SUBSET Capabilities /\ "EndRoom" \notin caps
  BY <1>1, <1>2, ToggledAssumption
  DEF RoomInv, Grants, OneHost, SetCapability, NeverHandedOn, Person
<1>5. people[a].admission # Absent /\ Regrant(p, person) /\ UNCHANGED <<now, issued, accepted>>
  BY DEF SetCapability
<1> HIDE DEF caps
<1>4. Grantable(person) /\ person.token = people[p].token
  BY <1>1, <1>3 DEF Grantable, Person, Admissions, Absent
<1> HIDE DEF person
<1> QED  BY <1>2, <1>4, <1>5, DecisionKeeps

(* disconnect() gives out a token that is nobody else's. *)
LEMMA DisconnectKeeps ==
    ASSUME RoomInv, NEW p \in Ids, NEW t \in Fresh, Disconnect(p, t)
    PROVE  RoomInv' /\ OnlyRevised
<1> DEFINE person == [people[p] EXCEPT !.admission = "Disconnected", !.token = t,
                                       !.expires = now + Lifetime]
<1>1. people[p] \in Person /\ people[p].admission = "Admitted" /\ people[p].role # "Host"
  BY DEF RoomInv, Grants, Disconnect
<1>2. p # Host /\ p \in Present /\ p \in Guests
  BY <1>1 DEF RoomInv, Grants, OneHost, Present, Absent, Ids
<1>3. "EndRoom" \notin people[p].caps /\ now + Lifetime \in Nat /\ t \in Tokens
  BY <1>2, TimeAssumption DEF RoomInv, Grants, OneHost, Fresh
<1>4. Grantable(person) /\ person.token = t
  BY <1>1, <1>3 DEF Grantable, Person, Admissions, Absent
<1>5. Regrant(p, person) /\ UNCHANGED <<now, accepted>> /\ issued' = issued \union {t}
  BY DEF Disconnect
<1> HIDE DEF person
<1>6. /\ Grants' /\ OnlyRevised
      /\ people' = [people EXCEPT ![p] = [person EXCEPT !.revision = nextRevision]]
  BY <1>2, <1>4, <1>5, RegrantKeepsGrants DEF RoomInv
<1>7. people'[p].token = t /\ \A q \in Ids \ {p} : people'[q].token = people[q].token
  BY <1>4, <1>6 DEF RoomInv, Grants, Grantable, Person
<1>8. TokensKnown'  BY <1>5, <1>7, FreshTokenIsSafe DEF RoomInv
<1> QED  BY <1>5, <1>6, <1>8 DEF RoomInv

(* resume() spends one token and gives out another. *)
LEMMA ResumeKeeps ==
    ASSUME RoomInv, NEW p \in Ids, NEW old \in Tokens, NEW t \in Fresh, Resume(p, old, t)
    PROVE  RoomInv' /\ OnlyRevised
<1> DEFINE person == [people[p] EXCEPT !.admission = "Admitted", !.token = t,
                                       !.expires = now + Lifetime]
<1>1. people[p] \in Person /\ people[p].admission = "Disconnected"
  BY DEF RoomInv, Grants, Resume
<1>2. p # Host /\ p \in Present /\ p \in Guests
  BY <1>1 DEF RoomInv, Grants, OneHost, Present, Absent, Ids
<1>3. /\ "EndRoom" \notin people[p].caps /\ people[p].role # "Host"
      /\ now + Lifetime \in Nat /\ t \in Tokens
  BY <1>2, TimeAssumption DEF RoomInv, Grants, OneHost, Fresh
<1>4. Grantable(person) /\ person.token = t
  BY <1>1, <1>3 DEF Grantable, Person, Admissions, Absent
<1>5. /\ Regrant(p, person) /\ UNCHANGED now /\ issued' = issued \union {t}
      /\ people[p].token # NoToken /\ accepted' = accepted \union {people[p].token}
  BY DEF Resume, NextToken
<1> HIDE DEF person
<1>6. /\ Grants' /\ OnlyRevised
      /\ people' = [people EXCEPT ![p] = [person EXCEPT !.revision = nextRevision]]
  BY <1>2, <1>4, <1>5, RegrantKeepsGrants DEF RoomInv
<1>7. people'[p].token = t /\ \A q \in Ids \ {p} : people'[q].token = people[q].token
  BY <1>4, <1>6 DEF RoomInv, Grants, Grantable, Person
<1>8. TokensKnown'  BY <1>5, <1>7, FreshTokenIsSafe DEF RoomInv
<1> QED  BY <1>5, <1>6, <1>8 DEF RoomInv

(* reapInactive() only takes people off the list. *)
LEMMA ReapInactiveKeeps == ASSUME RoomInv, ReapInactive PROVE RoomInv' /\ OnlyRevised
<1> DEFINE gone == {p \in Guests : Inactive(p)}
<1>1. people' = [q \in Ids |-> IF q \in gone THEN Nobody ELSE people[q]]
      /\ UNCHANGED <<nextRevision, now, issued, accepted>>
  BY DEF ReapInactive, Vacated
<1>2. gone \in SUBSET Guests  OBVIOUS
<1> HIDE DEF gone
<1>3. Grants'  BY <1>1, <1>2, RemovalKeepsGrants DEF RoomInv
<1>4. \A q \in Ids : people'[q].token \in {people[q].token, NoToken}
  BY <1>1 DEF Nobody
<1>5. OnlyRevised
  BY <1>1 DEF gone, OnlyRevised, Inactive, Nobody, Absent
<1> QED  BY <1>1, <1>3, <1>4, <1>5, ForgettingKeepsTokens DEF RoomInv

(* Every step keeps the invariant, and drops or changes nobody silently. *)
LEMMA RoomInvStep == RoomInv /\ [Next]_vars => RoomInv' /\ OnlyRevised
<1> SUFFICES ASSUME RoomInv, [Next]_vars PROVE RoomInv' /\ OnlyRevised  OBVIOUS
<1>1. ASSUME NEW p \in Ids, RequestAdmission(p) PROVE RoomInv' /\ OnlyRevised
  BY <1>1, RequestAdmissionKeeps
<1>2. ASSUME NEW a \in Ids, NEW p \in Ids, Decide(a, p) PROVE RoomInv' /\ OnlyRevised
  BY <1>2, AdmitKeeps, SetRoleKeeps, DenyKeeps, SetCapabilityKeeps DEF Decide
<1>3. ASSUME NEW p \in Ids, NEW t \in Fresh, Disconnect(p, t) PROVE RoomInv' /\ OnlyRevised
  BY <1>3, DisconnectKeeps
<1>4. ASSUME NEW p \in Ids, Return(p) PROVE RoomInv' /\ OnlyRevised
  BY <1>4, ResumeKeeps DEF Return
<1>5. CASE ReapInactive  BY <1>5, ReapInactiveKeeps
<1>6. CASE Tick
  BY <1>6 DEF Tick, RoomInv, Grants, TokensKnown, OneHost, RevisionsNameGrants,
              OutsidersPowerless, TokensWorkOnce, Present, OnlyRevised
<1>7. CASE UNCHANGED vars
  BY <1>7 DEF vars, RoomInv, Grants, TokensKnown, OneHost, RevisionsNameGrants,
              OutsidersPowerless, TokensWorkOnce, Present, OnlyRevised
<1> QED  BY <1>1, <1>2, <1>3, <1>4, <1>5, <1>6, <1>7 DEF Next

-----------------------------------------------------------------------------
(* The inductive invariant holds in every reachable state. *)
THEOREM RoomCorrect == Spec => []RoomInv
  BY RoomInvInit, RoomInvStep, PTL DEF Spec

(* Types are kept, and the bounded participant storage is never outgrown,  *)
(* whatever its size.                                                      *)
THEOREM TypeCorrect == Spec => []TypeOK
<1>1. RoomInv => TypeOK
  BY DEF RoomInv, Grants, TokensKnown, TypeOK
<1> QED  BY <1>1, RoomCorrect, PTL

(* The room keeps its one host, and EndRoom is never anybody else's.       *)
THEOREM HostAlone == Spec => []OneHost
  BY RoomCorrect, PTL DEF RoomInv, Grants

(* A published revision stands for the grant of one participant.           *)
THEOREM RevisionsUnique == Spec => []RevisionsNameGrants
  BY RoomCorrect, PTL DEF RoomInv, Grants

(* Waiting and denied guests hold nothing, not even from an earlier stay.  *)
THEOREM NothingCarriesOver == Spec => []OutsidersPowerless
  BY RoomCorrect, PTL DEF RoomInv, Grants

(* No resume token brings anybody back twice. *)
THEOREM TokensOnce == Spec => []TokensWorkOnce
  BY RoomCorrect, PTL DEF RoomInv, TokensKnown

(* Whoever is told a revision sees every later change of what its holder   *)
(* may do as a revision that was never given out before.                   *)
THEOREM RevisionsTell == Spec => ChangesAreRevised
<1>1. ASSUME RoomInv, [Next]_vars, NEW p \in Ids, NEW c \in Capabilities,
             people'[p].admission # Absent, Authorize(p, c) # Authorize(p, c)'
      PROVE  people'[p].revision >= nextRevision
  <2>1. CASE people'[p] = people[p]  BY <1>1, <2>1 DEF Authorize
  <2>2. CASE people'[p] # people[p]  BY <1>1, <2>2, RoomInvStep DEF OnlyRevised
  <2> QED  BY <2>1, <2>2
<1>2. RoomInv /\ [Next]_vars =>
         [\A p \in Ids : \A c \in Capabilities :
             /\ people[p].admission # Absent /\ people'[p].admission # Absent
             /\ Authorize(p, c) # Authorize(p, c)'
             => people'[p].revision >= nextRevision]_vars
  BY <1>1
<1> QED  BY <1>2, RoomCorrect, PTL DEF Spec, ChangesAreRevised

(* Nobody who is connected is ever taken off the list. *)
THEOREM NobodyDropped == Spec => ConnectedStay
<1>1. RoomInv /\ [Next]_vars =>
         [\A p \in Ids : people[p].admission = "Admitted" => p \in Present']_vars
  BY RoomInvStep DEF OnlyRevised, Present, Absent
<1> QED  BY <1>1, RoomCorrect, PTL DEF Spec, ConnectedStay

-----------------------------------------------------------------------------
(* Part two: what the application shows of a room and keeps back.          *)

MuteFlags == [instrument : BOOLEAN, voice : BOOLEAN, all : BOOLEAN]
Tuners == [active : BOOLEAN, mutes : BOOLEAN]
TransportStates == {"Idle", "WaitingForPeer", "Connecting", "Connected", "ConnectionLost",
                    "VersionMismatch", "SocketFailed"}
Event == [type : {"Joined", "Left", "Said", "Mismatch"}, who : Friends]
Transports == [role : {"None", "Host", "Guest"}, state : TransportStates, mutes : MuteFlags,
               here : SUBSET Friends, met : SUBSET Friends, stalled : BOOLEAN,
               events : Seq(Event)]
Knowledge == [last : Friends \cup {NoFriend}, people : SUBSET Friends, had : BOOLEAN,
              reconnecting : BOOLEAN, incompatible : BOOLEAN]

DesktopTypeOK ==
  /\ page \in Pages
  /\ returns \in [tuner : {"home", "room"}, settings : Pages]
  /\ tuner \in Tuners
  /\ drawer \in BOOLEAN
  /\ mutes \in MuteFlags
  /\ transport \in Transports
  /\ directory \in {"Idle", "Hosting", "Asked", "Refused"}
  /\ invite \in BOOLEAN
  /\ known \in Knowledge
  /\ seen \in [state : TransportStates, bound : BOOLEAN, stalled : BOOLEAN]
  /\ audio \in [state : {"Running", "Stopped", "Lost"}, verified : BOOLEAN, polled : BOOLEAN]

\* The room's page, and the way back to it, are there with a room only; and
\* nothing is muted without one.
PageInv ==
  /\ page = "room" => RoomActive
  /\ page = "tuner" /\ returns.tuner = "room" => RoomActive
  /\ ~RoomActive => mutes = Unmuted

\* What is kept of a room speaks of who was met in it.
RoomOf(t) ==
  /\ t.role = "None" => t = NoTransport
  /\ t.here \subseteq t.met
  /\ t.state = "Connected" => t.met # {}
  /\ \A i \in 1 .. Len(t.events) : t.events[i].who \in t.met

SeenInv == seen.state = "Connected" => transport.met # {}

\* MutedAsShown of a transport, mutes and a tuner.
Shown(t, flags, tun) ==
  t.role # "None" => /\ t.mutes.instrument <=> flags.instrument \/ (tun.active /\ tun.mutes)
                     /\ t.mutes.voice <=> flags.voice
                     /\ t.mutes.all <=> flags.all

KnownOf(k, met) ==
  /\ k.people \subseteq met /\ k.last \in met \cup {NoFriend}
  /\ k.had => met # {}

DesktopInv ==
  /\ DesktopTypeOK /\ PageInv
  /\ Shown(transport, mutes, tuner)
  /\ RoomOf(transport) /\ SeenInv
  /\ KnownOf(known, transport.met)

\* Nothing but the mutes differs.
SameRoom(t, u) ==
  /\ u \in Transports
  /\ u.role = t.role /\ u.state = t.state /\ u.here = t.here /\ u.met = t.met
  /\ u.events = t.events
  /\ t.role = "None" => u = t

-----------------------------------------------------------------------------
LEMMA AppliedShows ==
  ASSUME NEW t \in Transports, NEW flags \in MuteFlags, NEW tun \in Tuners
  PROVE  /\ SameRoom(t, Applied(t, flags, tun))
         /\ (t.role # "None" => (t.mutes.all <=> flags.all)) =>
               Shown(Applied(t, flags, tun), flags, tun)
<1> DEFINE u == [t EXCEPT !.mutes.instrument = flags.instrument \/ (tun.active /\ tun.mutes),
                          !.mutes.voice = flags.voice]
<1> DEFINE m == [t.mutes EXCEPT !.instrument = flags.instrument \/ (tun.active /\ tun.mutes),
                                !.voice = flags.voice]
<1>1. m \in MuteFlags /\ m.all = t.mutes.all /\ m.voice = flags.voice
      /\ m.instrument = (flags.instrument \/ (tun.active /\ tun.mutes))
  BY DEF Transports, MuteFlags, Tuners
<1>2. u = [t EXCEPT !.mutes = m]
  BY DEF Transports, MuteFlags
<1>3. SameRoom(t, u) \/ t.role = "None"
  BY <1>1, <1>2 DEF Transports, SameRoom
<1>4. u.mutes = m
  BY <1>2 DEF Transports
<1>5. CASE t.role = "None"
  BY <1>5 DEF Applied, SameRoom, Shown
<1>6. CASE t.role # "None"
  <2>1. Applied(t, flags, tun) = u
    BY <1>6 DEF Applied
  <2> QED BY <2>1, <1>1, <1>3, <1>4, <1>6 DEF Shown
<1> QED BY <1>5, <1>6

LEMMA TunerSetShows ==
  ASSUME tuner \in Tuners, NEW t \in Transports, NEW flags \in MuteFlags, NEW active \in BOOLEAN,
         TunerSet(active, t, flags), Shown(t, flags, tuner)
  PROVE  /\ tuner' \in Tuners /\ tuner'.active = active /\ tuner'.mutes = tuner.mutes
         /\ SameRoom(t, transport')
         /\ Shown(transport', flags, tuner')
<1>1. tuner' \in Tuners /\ tuner'.active = active /\ tuner'.mutes = tuner.mutes
  BY DEF TunerSet, Tuners
<1>2. CASE tuner.active = active
  <2>1. tuner' = tuner /\ transport' = t
    BY <1>2 DEF TunerSet, Tuners
  <2> QED BY <2>1, <1>1 DEF SameRoom
<1>3. CASE tuner.active # active
  <2>1. transport' = Applied(t, flags, tuner')
    BY <1>3 DEF TunerSet
  <2>2. t.role # "None" => (t.mutes.all <=> flags.all)
    BY DEF Shown
  <2> QED BY <2>1, <2>2, <1>1, AppliedShows
<1> QED BY <1>2, <1>3

LEMMA GoToShows ==
  ASSUME tuner \in Tuners, drawer \in BOOLEAN, returns \in [tuner : {"home", "room"}, settings : Pages],
         NEW p \in Pages, NEW t \in Transports, NEW flags \in MuteFlags,
         GoTo(p, t, flags), Shown(t, flags, tuner)
  PROVE  /\ page' = p
         /\ returns' \in [tuner : {"home", "room"}, settings : Pages]
         /\ p = "tuner" /\ returns'.tuner = "room" =>
               page = "room" \/ (page = "tuner" /\ returns.tuner = "room")
         /\ drawer' \in BOOLEAN
         /\ tuner' \in Tuners /\ SameRoom(t, transport') /\ Shown(transport', flags, tuner')
<1>1. tuner' \in Tuners /\ SameRoom(t, transport') /\ Shown(transport', flags, tuner')
  BY TunerSetShows DEF GoTo, Tuners
<1>2. page' = p /\ drawer' \in BOOLEAN
  BY DEF GoTo
<1>3. /\ returns' \in [tuner : {"home", "room"}, settings : Pages]
      /\ p = "tuner" /\ returns'.tuner = "room" =>
            page = "room" \/ (page = "tuner" /\ returns.tuner = "room")
  <2>1. CASE p = "tuner" /\ page # "tuner"
    <3>1. returns' = [returns EXCEPT !.tuner = IF page = "room" THEN "room" ELSE "home"]
      BY <2>1 DEF GoTo
    <3>2. returns' = [tuner |-> IF page = "room" THEN "room" ELSE "home",
                      settings |-> returns.settings]
      BY <3>1
    <3>3. returns'.tuner = "room" => page = "room"
      BY <3>2
    <3>4. returns' \in [tuner : {"home", "room"}, settings : Pages]
      BY <3>2
    <3> QED BY <3>3, <3>4
  <2>2. CASE ~(p = "tuner" /\ page # "tuner")
    <3>1. returns' = returns
      BY <2>2 DEF GoTo
    <3> QED BY <3>1, <2>2
  <2> QED BY <2>1, <2>2
<1> QED BY <1>1, <1>2, <1>3

-----------------------------------------------------------------------------
\* The steps that leave the room as it is.
Returns == [tuner : {"home", "room"}, settings : Pages]

LEMMA SameRoomIsRoom ==
  ASSUME NEW t, NEW u, RoomOf(t), SameRoom(t, u)
  PROVE  RoomOf(u)
BY DEF RoomOf, SameRoom, NoTransport

LEMMA StayingKeeps ==
  ASSUME DesktopInv, StaysInRoom, page' \in Pages, returns' \in Returns, tuner' \in Tuners,
         drawer' \in BOOLEAN, SameRoom(transport, transport'), Shown(transport', mutes, tuner'),
         page' = "room" => RoomActive,
         page' = "tuner" /\ returns'.tuner = "room" => RoomActive
  PROVE  DesktopInv'
<1>1. DesktopTypeOK'
  BY DEF DesktopInv, DesktopTypeOK, StaysInRoom, SameRoom, Returns
<1>2. RoomActive' = RoomActive
  BY DEF RoomActive, InRoom, SameRoom, StaysInRoom
<1>3. PageInv'
  BY <1>2 DEF DesktopInv, PageInv, StaysInRoom
<1>4. RoomOf(transport')
  BY SameRoomIsRoom DEF DesktopInv
<1>5. Shown(transport', mutes', tuner')
  BY DEF StaysInRoom
<1>6. SeenInv' /\ KnownOf(known', transport'.met)
  BY DEF DesktopInv, StaysInRoom, SameRoom, SeenInv
<1> QED BY <1>1, <1>3, <1>4, <1>5, <1>6 DEF DesktopInv

LEMMA GoingKeeps ==
  ASSUME DesktopInv, NEW p \in Pages, GoTo(p, transport, mutes), StaysInRoom,
         p = "room" => RoomActive
  PROVE  DesktopInv'
<1>1. /\ page' = p
      /\ returns' \in Returns
      /\ p = "tuner" /\ returns'.tuner = "room" =>
            page = "room" \/ (page = "tuner" /\ returns.tuner = "room")
      /\ drawer' \in BOOLEAN
      /\ tuner' \in Tuners /\ SameRoom(transport, transport') /\ Shown(transport', mutes, tuner')
  BY GoToShows DEF DesktopInv, DesktopTypeOK, Returns
<1>2. page' = "tuner" /\ returns'.tuner = "room" => RoomActive
  BY <1>1 DEF DesktopInv, PageInv
<1> QED BY <1>1, <1>2, StayingKeeps

LEMMA OpenSettingsKeeps ==
  ASSUME DesktopInv, OpenSettings
  PROVE  DesktopInv'
<1>1. /\ page' = "settings" /\ drawer' = FALSE
      /\ TunerSet(tuner.active /\ page # "tuner", transport, mutes)
      /\ returns' = [returns EXCEPT !.settings = page]
      /\ StaysInRoom
  BY DEF OpenSettings
<1>2. page' \in Pages /\ page' # "room" /\ page' # "tuner"
  BY <1>1 DEF Pages
<1>3. returns' \in Returns
  BY <1>1 DEF DesktopInv, DesktopTypeOK, Returns
<1>4. tuner' \in Tuners /\ SameRoom(transport, transport') /\ Shown(transport', mutes, tuner')
  <2>1. (tuner.active /\ page # "tuner") \in BOOLEAN
    OBVIOUS
  <2> QED BY <1>1, <2>1, TunerSetShows DEF DesktopInv, DesktopTypeOK
<1> QED BY <1>1, <1>2, <1>3, <1>4, StayingKeeps

LEMMA ToggleDrawerKeeps ==
  ASSUME DesktopInv, ToggleDrawer
  PROVE  DesktopInv'
<1>1. /\ page = "room" /\ page' = page /\ returns' = returns /\ StaysInRoom
      /\ TunerSet(drawer', transport, mutes) /\ drawer' \in BOOLEAN
  BY DEF ToggleDrawer
<1>2. tuner' \in Tuners /\ SameRoom(transport, transport') /\ Shown(transport', mutes, tuner')
  BY <1>1, TunerSetShows DEF DesktopInv, DesktopTypeOK
<1>3. RoomActive /\ page' \in Pages /\ returns' \in Returns
  BY <1>1 DEF DesktopInv, DesktopTypeOK, PageInv, Returns
<1> QED BY <1>1, <1>2, <1>3, StayingKeeps

LEMMA SetTunerMutesKeeps ==
  ASSUME DesktopInv, SetTunerMutes
  PROVE  DesktopInv'
<1>1. /\ page' = page /\ returns' = returns /\ drawer' = drawer /\ StaysInRoom
      /\ tuner' = [tuner EXCEPT !.mutes = ~@]
      /\ transport' = Applied(transport, mutes, tuner')
  BY DEF SetTunerMutes
<1>2. tuner' \in Tuners
  BY <1>1 DEF DesktopInv, DesktopTypeOK, Tuners
<1>3. SameRoom(transport, transport') /\ Shown(transport', mutes, tuner')
  BY <1>1, <1>2, AppliedShows DEF DesktopInv, DesktopTypeOK, Shown
<1>4. /\ page' \in Pages /\ returns' \in Returns /\ drawer' \in BOOLEAN
      /\ page' = "room" => RoomActive
      /\ page' = "tuner" /\ returns'.tuner = "room" => RoomActive
  BY <1>1 DEF DesktopInv, DesktopTypeOK, PageInv, Returns
<1> QED BY <1>1, <1>2, <1>3, <1>4, StayingKeeps

-----------------------------------------------------------------------------
\* The mutes.
Keeping == UNCHANGED <<page, returns, tuner, drawer, directory, invite, known, seen, audio, guidance>>

LEMMA MutingKeeps ==
  ASSUME DesktopInv, Keeping, RoomActive, mutes' \in MuteFlags, SameRoom(transport, transport'),
         Shown(transport', mutes', tuner)
  PROVE  DesktopInv'
<1>1. DesktopTypeOK'
  BY DEF DesktopInv, DesktopTypeOK, Keeping, SameRoom
<1>2. RoomActive'
  BY DEF RoomActive, InRoom, SameRoom, Keeping
<1>3. PageInv'
  BY <1>2 DEF PageInv
<1>4. RoomOf(transport')
  BY SameRoomIsRoom DEF DesktopInv
<1>5. Shown(transport', mutes', tuner')
  BY DEF Keeping
<1>6. SeenInv' /\ KnownOf(known', transport'.met)
  BY DEF DesktopInv, Keeping, SameRoom, SeenInv
<1> QED BY <1>1, <1>3, <1>4, <1>5, <1>6 DEF DesktopInv

LEMMA MuteKeeps ==
  ASSUME DesktopInv, NEW stream \in {"instrument", "voice"}, Mute(stream)
  PROVE  DesktopInv'
<1>1. /\ page = "room" /\ mutes' = [mutes EXCEPT ![stream] = ~@]
      /\ transport' = Applied(transport, mutes', tuner) /\ Keeping
  BY DEF Mute, Keeping
<1>2. mutes \in MuteFlags
  BY DEF DesktopInv, DesktopTypeOK
<1>3. mutes' \in MuteFlags /\ (mutes'.all <=> mutes.all)
  <2>1. CASE stream = "instrument"
    <3>1. mutes' = [mutes EXCEPT !.instrument = ~mutes.instrument]
      BY <1>1, <2>1
    <3> QED BY <3>1, <1>2 DEF MuteFlags
  <2>2. CASE stream = "voice"
    <3>1. mutes' = [mutes EXCEPT !.voice = ~mutes.voice]
      BY <1>1, <2>2
    <3> QED BY <3>1, <1>2 DEF MuteFlags
  <2> QED BY <2>1, <2>2
<1>4. SameRoom(transport, transport') /\ Shown(transport', mutes', tuner)
  <2>1. transport.role # "None" => (transport.mutes.all <=> mutes'.all)
    BY <1>3 DEF DesktopInv, Shown
  <2> QED BY <1>1, <1>3, <2>1, AppliedShows DEF DesktopInv, DesktopTypeOK
<1>5. RoomActive
  BY <1>1 DEF DesktopInv, PageInv
<1> QED BY <1>1, <1>3, <1>4, <1>5, MutingKeeps

LEMMA MuteAllKeeps ==
  ASSUME DesktopInv, MuteAll
  PROVE  DesktopInv'
<1>1. /\ RoomActive /\ Keeping
      /\ mutes' = [mutes EXCEPT !.all = ~mutes.all]
      /\ transport' = IF InRoom THEN [transport EXCEPT !.mutes.all = mutes'.all] ELSE transport
  BY DEF MuteAll, Keeping
<1>2. mutes \in MuteFlags /\ transport \in Transports /\ transport.mutes \in MuteFlags
  BY DEF DesktopInv, DesktopTypeOK, Transports
<1>3. /\ mutes' \in MuteFlags /\ mutes'.instrument = mutes.instrument
      /\ mutes'.voice = mutes.voice
  BY <1>1, <1>2 DEF MuteFlags
<1>4. CASE ~InRoom
  <2>1. transport' = transport /\ transport.role = "None"
    BY <1>1, <1>4 DEF InRoom
  <2> QED BY <2>1, <1>1, <1>2, <1>3, MutingKeeps DEF SameRoom, Shown
<1>5. CASE InRoom
  <2> DEFINE m == [transport.mutes EXCEPT !.all = mutes'.all]
  <2>1. transport' = [transport EXCEPT !.mutes = m]
    BY <1>1, <1>5, <1>2 DEF Transports
  <2>2. m \in MuteFlags /\ m.instrument = transport.mutes.instrument
        /\ m.voice = transport.mutes.voice /\ m.all = mutes'.all
    BY <1>2, <1>3 DEF MuteFlags
  <2> HIDE DEF m
  <2>3. SameRoom(transport, transport') /\ transport'.mutes = m
    BY <2>1, <2>2, <1>2, <1>5 DEF SameRoom, Transports, InRoom
  <2>4. Shown(transport', mutes', tuner)
    BY <2>2, <2>3, <1>3, <1>5 DEF DesktopInv, Shown, InRoom
  <2> QED BY <2>3, <2>4, <1>1, <1>3, MutingKeeps
<1> QED BY <1>4, <1>5

-----------------------------------------------------------------------------
\* Rooms that begin and end.
LEMMA BlankRooms ==
  /\ NoTransport \in Transports /\ RoomOf(NoTransport) /\ NoTransport.role = "None"
  /\ \A role \in {"Host", "Guest"} :
        /\ NewTransport(role) \in Transports /\ RoomOf(NewTransport(role))
        /\ NewTransport(role).mutes = Unmuted /\ NewTransport(role).role = role
  /\ Unmuted \in MuteFlags /\ ~Unmuted.all /\ ~Unmuted.instrument /\ ~Unmuted.voice
  /\ NobodyKnown \in Knowledge /\ \A met : KnownOf(NobodyKnown, met)
  /\ Unseen \in [state : TransportStates, bound : BOOLEAN, stalled : BOOLEAN]
  /\ Unseen.state = "Idle"
<1>1. Unmuted \in MuteFlags /\ ~Unmuted.all /\ ~Unmuted.instrument /\ ~Unmuted.voice
  BY DEF Unmuted, MuteFlags
<1>2. << >> \in Seq(Event) /\ Len(<< >>) = 0
  OBVIOUS
<1>3. NoTransport \in Transports /\ RoomOf(NoTransport) /\ NoTransport.role = "None"
  <2>1. NoTransport \in Transports
    BY <1>1, <1>2 DEF NoTransport, Transports, TransportStates
  <2>2. NoTransport.events = << >> /\ NoTransport.state = "Idle" /\ NoTransport.here = {}
        /\ NoTransport.role = "None"
    BY DEF NoTransport
  <2> QED BY <1>2, <2>1, <2>2 DEF RoomOf
<1>4. ASSUME NEW role \in {"Host", "Guest"}
      PROVE  /\ NewTransport(role) \in Transports /\ RoomOf(NewTransport(role))
             /\ NewTransport(role).mutes = Unmuted /\ NewTransport(role).role = role
  <2>1. NewTransport(role) \in Transports
    BY <1>1, <1>2 DEF NewTransport, Transports, TransportStates
  <2>2. NewTransport(role).events = << >> /\ NewTransport(role).state # "Connected"
        /\ NewTransport(role).here = {} /\ NewTransport(role).role = role
        /\ NewTransport(role).mutes = Unmuted
    BY DEF NewTransport
  <2> QED BY <1>2, <2>1, <2>2 DEF RoomOf
<1>5. NobodyKnown \in Knowledge /\ \A met : KnownOf(NobodyKnown, met)
  BY DEF NobodyKnown, Knowledge, KnownOf
<1>6. Unseen \in [state : TransportStates, bound : BOOLEAN, stalled : BOOLEAN]
      /\ Unseen.state = "Idle"
  BY DEF Unseen, TransportStates
<1> QED BY <1>1, <1>3, <1>4, <1>5, <1>6

LEMMA AudioOpens ==
  ASSUME DesktopInv, AudioOpened
  PROVE  audio' \in [state : {"Running", "Stopped", "Lost"}, verified : BOOLEAN, polled : BOOLEAN]
<1>1. PICK s \in {"Running", "Stopped"} :
         audio' = [audio EXCEPT !.state = s, !.polled = audio.polled \/ s = "Running"]
  BY DEF AudioOpened
<1>2. audio \in [state : {"Running", "Stopped", "Lost"}, verified : BOOLEAN, polled : BOOLEAN]
  BY DEF DesktopInv, DesktopTypeOK
<1> QED BY <1>1, <1>2

\* A room is left, and the page with it.
LEMMA GoneKeeps ==
  ASSUME DesktopInv, NEW p \in {"home", "room"}, NEW d \in {"Idle", "Asked"},
         GoTo(p, NoTransport, Unmuted), directory' = d, p = "room" => d # "Idle",
         mutes' = Unmuted, invite' \in BOOLEAN, known' \in Knowledge, KnownOf(known', {}),
         seen' \in [state : TransportStates, bound : BOOLEAN, stalled : BOOLEAN],
         seen'.state # "Connected",
         audio' \in [state : {"Running", "Stopped", "Lost"}, verified : BOOLEAN, polled : BOOLEAN]
  PROVE  DesktopInv'
<1>1. /\ page' = p /\ returns' \in Returns /\ drawer' \in BOOLEAN /\ tuner' \in Tuners
      /\ SameRoom(NoTransport, transport')
  <2>1. Shown(NoTransport, Unmuted, tuner) /\ p \in Pages
    BY BlankRooms DEF Shown, Pages
  <2> QED BY <2>1, GoToShows, BlankRooms DEF DesktopInv, DesktopTypeOK, Returns
<1>2. transport' = NoTransport
  BY <1>1, BlankRooms DEF SameRoom
<1>3. DesktopTypeOK'
  BY <1>1, <1>2, BlankRooms DEF DesktopTypeOK, Returns, Pages
<1>4. PageInv'
  BY <1>1 DEF PageInv, RoomActive
<1>5. Shown(transport', mutes', tuner') /\ RoomOf(transport')
  BY <1>2, BlankRooms DEF Shown
<1>6. SeenInv' /\ KnownOf(known', transport'.met)
  BY <1>2 DEF SeenInv, NoTransport
<1> QED BY <1>3, <1>4, <1>5, <1>6 DEF DesktopInv

LEMMA LeaveKeeps ==
  ASSUME DesktopInv, Leave
  PROVE  DesktopInv'
<1>1. /\ directory' = "Idle" /\ invite' = FALSE /\ mutes' = Unmuted /\ known' = NobodyKnown
      /\ seen' = Unseen /\ AudioOpened /\ GoTo("home", NoTransport, mutes')
  BY DEF Leave, LeaveSession, Forgotten
<1>2. GoTo("home", NoTransport, Unmuted)
  BY <1>1
<1> QED BY <1>1, <1>2, GoneKeeps, BlankRooms, AudioOpens

LEMMA NoSocketKeeps ==
  ASSUME DesktopInv, NoSocket
  PROVE  DesktopInv'
<1>1. seen' = [Unseen EXCEPT !.state = "SocketFailed"]
  BY DEF NoSocket
<1>2. /\ seen' \in [state : TransportStates, bound : BOOLEAN, stalled : BOOLEAN]
      /\ seen'.state = "SocketFailed"
  BY <1>1, BlankRooms DEF TransportStates
<1>3. CASE RoomActive
  <2>1. /\ directory' = "Idle" /\ invite' = FALSE /\ mutes' = Unmuted /\ known' = NobodyKnown
        /\ AudioOpened /\ GoTo("home", NoTransport, Unmuted)
    BY <1>3 DEF NoSocket, Forgotten
  <2> QED BY <2>1, <1>2, GoneKeeps, BlankRooms, AudioOpens
<1>4. CASE ~RoomActive
  <2>1. UNCHANGED <<page, returns, tuner, drawer, mutes, transport, directory, invite, known,
                    audio>>
    BY <1>4 DEF NoSocket
  <2>2. DesktopTypeOK'
    BY <2>1, <1>2 DEF DesktopInv, DesktopTypeOK
  <2>3. PageInv'
    BY <2>1 DEF DesktopInv, PageInv, RoomActive, InRoom
  <2>4. SeenInv'
    BY <1>2 DEF SeenInv
  <2> QED BY <2>1, <2>2, <2>3, <2>4 DEF DesktopInv
<1> QED BY <1>3, <1>4

LEMMA EnterKeeps ==
  ASSUME DesktopInv, NEW role \in {"Host", "Guest"}, Enter(role),
         directory' \in {"Idle", "Hosting"}
  PROVE  DesktopInv'
<1> DEFINE flags == IF RoomActive THEN Unmuted ELSE mutes
           tun   == [tuner EXCEPT !.active = tuner.active /\ ~(RoomActive /\ page = "tuner")]
           t     == Applied(NewTransport(role), flags, tun)
<1>1. /\ GoTo("room", t, Unmuted) /\ drawer' = FALSE /\ mutes' = Unmuted
      /\ invite' = (role = "Host") /\ known' = NobodyKnown
      /\ seen' = [Unseen EXCEPT !.state = IF role = "Host" THEN "WaitingForPeer" ELSE "Idle",
                                !.bound = role = "Host"]
      /\ AudioOpened
  BY DEF Enter, Forgotten
<1>2. flags = Unmuted
  BY DEF DesktopInv, PageInv
<1>3. tun \in Tuners
  BY DEF DesktopInv, DesktopTypeOK, Tuners
<1>4. t \in Transports /\ t.role = role /\ RoomOf(t) /\ Shown(t, Unmuted, tun)
  <2>1. SameRoom(NewTransport(role), t) /\ Shown(t, Unmuted, tun)
    <3>1. NewTransport(role).mutes.all <=> Unmuted.all
      BY BlankRooms
    <3> QED BY <3>1, <1>2, <1>3, AppliedShows, BlankRooms
  <2>2. RoomOf(t)
    BY <2>1, SameRoomIsRoom, BlankRooms
  <2>3. NewTransport(role).role = role
    BY BlankRooms
  <2> QED BY <2>1, <2>2, <2>3 DEF SameRoom
<1> HIDE DEF t
<1>5. TunerSet(tuner.active /\ page # "tuner", t, Unmuted)
  BY <1>1 DEF GoTo
<1>6. tuner' \in Tuners /\ SameRoom(t, transport') /\ Shown(transport', Unmuted, tuner')
  <2>1. CASE tun = tuner
    <3>1. (tuner.active /\ page # "tuner") \in BOOLEAN
      OBVIOUS
    <3>2. Shown(t, Unmuted, tuner)
      BY <1>4, <2>1
    <3>3. t \in Transports /\ Unmuted \in MuteFlags /\ tuner \in Tuners
      BY <1>4, BlankRooms DEF DesktopInv, DesktopTypeOK
    <3> QED BY <3>1, <3>2, <3>3, <1>5, TunerSetShows
  <2>2. CASE tun # tuner
    <3>1. tuner.active /\ page = "tuner"
      BY <2>2 DEF DesktopInv, DesktopTypeOK, Tuners
    <3>2. /\ tuner' = [tuner EXCEPT !.active = FALSE]
          /\ transport' = Applied(t, Unmuted, tuner')
      BY <3>1, <1>5 DEF TunerSet
    <3>3. tuner' \in Tuners
      BY <3>2 DEF DesktopInv, DesktopTypeOK, Tuners
    <3>4. t.role # "None" => (t.mutes.all <=> Unmuted.all)
      BY <1>4 DEF Shown
    <3> QED BY <3>2, <3>3, <3>4, <1>4, AppliedShows, BlankRooms
  <2> QED BY <2>1, <2>2
<1>7. page' = "room" /\ returns' \in Returns
  <2>1. page' = "room" /\ returns' = returns
    BY <1>1 DEF GoTo
  <2> QED BY <2>1 DEF DesktopInv, DesktopTypeOK, Returns
<1>8. /\ seen' \in [state : TransportStates, bound : BOOLEAN, stalled : BOOLEAN]
      /\ seen'.state # "Connected"
  BY <1>1, BlankRooms DEF TransportStates
<1>9. DesktopTypeOK'
  <2>1. transport' \in Transports
    BY <1>6 DEF SameRoom
  <2>2. invite' \in BOOLEAN /\ drawer' \in BOOLEAN
    BY <1>1
  <2>3. page' \in Pages
    BY <1>7 DEF Pages
  <2>4. audio' \in [state : {"Running", "Stopped", "Lost"}, verified : BOOLEAN, polled : BOOLEAN]
    BY <1>1, AudioOpens
  <2> QED BY <2>1, <2>2, <2>3, <2>4, <1>1, <1>6, <1>7, <1>8, BlankRooms DEF DesktopTypeOK, Returns
<1>10. PageInv'
  <2>1. RoomActive'
    BY <1>4, <1>6 DEF RoomActive, InRoom, SameRoom
  <2> QED BY <2>1, <1>7 DEF PageInv
<1>11. RoomOf(transport')
  BY <1>4, <1>6, SameRoomIsRoom
<1>12. SeenInv' /\ KnownOf(known', transport'.met)
  BY <1>1, <1>8, BlankRooms DEF SeenInv
<1>13. Shown(transport', mutes', tuner')
  BY <1>1, <1>6
<1> QED BY <1>9, <1>10, <1>11, <1>12, <1>13 DEF DesktopInv

LEMMA AskKeeps ==
  ASSUME DesktopInv, Ask
  PROVE  DesktopInv'
<1>1. directory' = "Asked" /\ GoTo("room", NoTransport, mutes')
  BY DEF Ask
<1>2. CASE RoomActive
  <2>1. known' = NobodyKnown /\ seen' = Unseen /\ mutes' = Unmuted /\ invite' = FALSE
        /\ AudioOpened
    BY <1>2 DEF Ask, Forgotten
  <2>2. GoTo("room", NoTransport, Unmuted)
    BY <2>1, <1>1
  <2> QED BY <2>1, <2>2, <1>1, GoneKeeps, BlankRooms, AudioOpens
<1>3. CASE ~RoomActive
  <2>1. UNCHANGED <<known, seen, mutes, invite, audio>>
    BY <1>3 DEF Ask
  <2>2. mutes' = Unmuted /\ transport = NoTransport
    BY <2>1, <1>3 DEF DesktopInv, PageInv, RoomOf, RoomActive, InRoom
  <2>3. GoTo("room", NoTransport, Unmuted)
    BY <2>2, <1>1
  <2>4. KnownOf(known', {}) /\ seen'.state # "Connected"
    BY <2>1, <2>2 DEF DesktopInv, SeenInv, NoTransport
  <2>5. /\ invite' \in BOOLEAN /\ known' \in Knowledge
        /\ seen' \in [state : TransportStates, bound : BOOLEAN, stalled : BOOLEAN]
        /\ audio' \in [state : {"Running", "Stopped", "Lost"}, verified : BOOLEAN, polled : BOOLEAN]
    BY <2>1 DEF DesktopInv, DesktopTypeOK
  <2> QED BY <2>2, <2>3, <2>4, <2>5, <1>1, GoneKeeps
<1> QED BY <1>2, <1>3

LEMMA AnsweredKeeps ==
  ASSUME DesktopInv, Answered
  PROVE  DesktopInv'
<1>1. CASE Enter("Guest") /\ directory' = "Idle"
  BY <1>1, EnterKeeps
<1>2. CASE NoSocket
  BY <1>2, NoSocketKeeps
<1>3. CASE /\ directory = "Asked" /\ directory' = "Refused"
           /\ UNCHANGED <<page, returns, tuner, drawer, mutes, transport, invite, known, seen,
                          audio, guidance>>
  <2>1. DesktopTypeOK'
    BY <1>3 DEF DesktopInv, DesktopTypeOK
  <2>2. PageInv'
    BY <1>3 DEF PageInv, RoomActive
  <2> QED BY <2>1, <2>2, <1>3 DEF DesktopInv, SeenInv
<1> QED BY <1>1, <1>2, <1>3 DEF Answered

-----------------------------------------------------------------------------
\* What the transport's worker does, and what is seen of it.
LEMMA WorkingKeeps ==
  ASSUME DesktopInv, Elsewhere, audio' = audio, InRoom, transport' \in Transports,
         transport'.role = transport.role, transport'.mutes = transport.mutes,
         RoomOf(transport'), transport.met \subseteq transport'.met
  PROVE  DesktopInv'
<1>1. DesktopTypeOK'
  BY DEF DesktopInv, DesktopTypeOK, Elsewhere
<1>2. PageInv'
  BY DEF DesktopInv, PageInv, RoomActive, InRoom, Elsewhere
<1>3. Shown(transport', mutes', tuner')
  BY DEF DesktopInv, Shown, Elsewhere
<1>4. SeenInv' /\ KnownOf(known', transport'.met)
  BY DEF DesktopInv, SeenInv, KnownOf, Elsewhere
<1> QED BY <1>1, <1>2, <1>3, <1>4 DEF DesktopInv

LEMMA EventAdded ==
  ASSUME NEW met, NEW more, met \subseteq more, NEW e \in Event, e.who \in more,
         NEW events \in Seq(Event), \A i \in 1 .. Len(events) : events[i].who \in met
  PROVE  /\ Append(events, e) \in Seq(Event)
         /\ \A i \in 1 .. Len(Append(events, e)) : Append(events, e)[i].who \in more
OBVIOUS

LEMMA FriendJoinsKeeps ==
  ASSUME DesktopInv, NEW f \in Friends, FriendJoins(f)
  PROVE  DesktopInv'
<1> DEFINE e == [type |-> "Joined", who |-> f]
<1>1. /\ InRoom /\ Elsewhere /\ audio' = audio
      /\ transport' = [transport EXCEPT !.here = transport.here \cup {f},
                        !.met = transport.met \cup {f}, !.state = "Connected",
                        !.events = Append(transport.events, e)]
  BY DEF FriendJoins
<1>2. transport \in Transports /\ RoomOf(transport)
  BY DEF DesktopInv, DesktopTypeOK
<1>3. e \in Event /\ e.who = f
  BY DEF Event
<1>4. /\ Append(transport.events, e) \in Seq(Event)
      /\ \A i \in 1 .. Len(Append(transport.events, e)) :
            Append(transport.events, e)[i].who \in transport.met \cup {f}
  <2>1. transport.events \in Seq(Event)
    BY <1>2 DEF Transports
  <2> QED BY <2>1, <1>2, <1>3, EventAdded DEF RoomOf
<1> HIDE DEF e
<1>5. /\ transport' \in Transports /\ transport'.role = transport.role
      /\ transport'.mutes = transport.mutes
      /\ transport'.met = transport.met \cup {f} /\ transport'.here = transport.here \cup {f}
      /\ transport'.events = Append(transport.events, e)
  BY <1>1, <1>2, <1>4 DEF Transports, TransportStates
<1>6. RoomOf(transport')
  BY <1>1, <1>2, <1>4, <1>5 DEF RoomOf, InRoom
<1> QED BY <1>1, <1>5, <1>6, WorkingKeeps

LEMMA FriendLeavesKeeps ==
  ASSUME DesktopInv, NEW f \in Friends, FriendLeaves(f)
  PROVE  DesktopInv'
<1> DEFINE e == [type |-> "Left", who |-> f]
           s == IF transport.here = {f} THEN "ConnectionLost" ELSE transport.state
<1>1. /\ InRoom /\ Elsewhere /\ audio' = audio /\ f \in transport.here
      /\ transport' = [transport EXCEPT !.here = transport.here \ {f}, !.state = s,
                        !.events = Append(transport.events, e)]
  BY DEF FriendLeaves
<1>2. transport \in Transports /\ RoomOf(transport)
  BY DEF DesktopInv, DesktopTypeOK
<1>3. e \in Event /\ e.who = f /\ f \in transport.met
  BY <1>1, <1>2 DEF Event, RoomOf
<1>4. /\ Append(transport.events, e) \in Seq(Event)
      /\ \A i \in 1 .. Len(Append(transport.events, e)) :
            Append(transport.events, e)[i].who \in transport.met
  <2>1. transport.events \in Seq(Event)
    BY <1>2 DEF Transports
  <2> QED BY <2>1, <1>2, <1>3, EventAdded DEF RoomOf
<1>5. s \in TransportStates /\ (s = "Connected" => transport.state = "Connected")
  BY <1>2 DEF Transports, TransportStates
<1> HIDE DEF e, s
<1>6. /\ transport' \in Transports /\ transport'.role = transport.role
      /\ transport'.mutes = transport.mutes
      /\ transport'.met = transport.met /\ transport'.here = transport.here \ {f}
      /\ transport'.events = Append(transport.events, e) /\ transport'.state = s
  BY <1>1, <1>2, <1>4, <1>5 DEF Transports
<1>7. RoomOf(transport')
  BY <1>1, <1>2, <1>4, <1>5, <1>6 DEF RoomOf, InRoom
<1> QED BY <1>1, <1>6, <1>7, WorkingKeeps

LEMMA FriendWritesKeeps ==
  ASSUME DesktopInv, NEW f \in Friends, FriendWrites(f)
  PROVE  DesktopInv'
<1> DEFINE e == [type |-> "Said", who |-> f]
<1>1. /\ InRoom /\ Elsewhere /\ audio' = audio /\ f \in transport.here
      /\ transport' = [transport EXCEPT !.events = Append(transport.events, e)]
  BY DEF FriendWrites
<1>2. transport \in Transports /\ RoomOf(transport)
  BY DEF DesktopInv, DesktopTypeOK
<1>3. e \in Event /\ e.who = f /\ f \in transport.met
  BY <1>1, <1>2 DEF Event, RoomOf
<1>4. /\ Append(transport.events, e) \in Seq(Event)
      /\ \A i \in 1 .. Len(Append(transport.events, e)) :
            Append(transport.events, e)[i].who \in transport.met
  <2>1. transport.events \in Seq(Event)
    BY <1>2 DEF Transports
  <2> QED BY <2>1, <1>2, <1>3, EventAdded DEF RoomOf
<1> HIDE DEF e
<1>5. /\ transport' \in Transports /\ transport'.role = transport.role
      /\ transport'.mutes = transport.mutes
      /\ transport'.met = transport.met /\ transport'.here = transport.here
      /\ transport'.events = Append(transport.events, e) /\ transport'.state = transport.state
  BY <1>1, <1>2, <1>4 DEF Transports
<1>6. RoomOf(transport')
  BY <1>1, <1>2, <1>4, <1>5 DEF RoomOf, InRoom
<1> QED BY <1>1, <1>5, <1>6, WorkingKeeps

LEMMA OtherBuildKeeps ==
  ASSUME DesktopInv, NEW f \in Friends, OtherBuild(f)
  PROVE  DesktopInv'
<1> DEFINE e == [type |-> "Mismatch", who |-> f]
<1>1. /\ InRoom /\ Elsewhere /\ audio' = audio
      /\ transport' = [transport EXCEPT !.state = "VersionMismatch",
                        !.met = transport.met \cup {f},
                        !.events = Append(transport.events, e)]
  BY DEF OtherBuild
<1>2. transport \in Transports /\ RoomOf(transport)
  BY DEF DesktopInv, DesktopTypeOK
<1>3. e \in Event /\ e.who = f
  BY DEF Event
<1>4. /\ Append(transport.events, e) \in Seq(Event)
      /\ \A i \in 1 .. Len(Append(transport.events, e)) :
            Append(transport.events, e)[i].who \in transport.met \cup {f}
  <2>1. transport.events \in Seq(Event)
    BY <1>2 DEF Transports
  <2> QED BY <2>1, <1>2, <1>3, EventAdded DEF RoomOf
<1> HIDE DEF e
<1>5. /\ transport' \in Transports /\ transport'.role = transport.role
      /\ transport'.mutes = transport.mutes
      /\ transport'.met = transport.met \cup {f} /\ transport'.here = transport.here
      /\ transport'.events = Append(transport.events, e)
  BY <1>1, <1>2, <1>4 DEF Transports, TransportStates
<1>6. RoomOf(transport')
  BY <1>1, <1>2, <1>4, <1>5 DEF RoomOf, InRoom
<1> QED BY <1>1, <1>5, <1>6, WorkingKeeps

LEMMA MediaStallsKeeps ==
  ASSUME DesktopInv, MediaStalls
  PROVE  DesktopInv'
<1>1. /\ InRoom /\ Elsewhere /\ audio' = audio
      /\ transport' = [transport EXCEPT !.stalled = ~transport.stalled]
  BY DEF MediaStalls
<1>2. transport \in Transports /\ RoomOf(transport)
  BY DEF DesktopInv, DesktopTypeOK
<1>3. /\ transport' \in Transports /\ transport'.role = transport.role
      /\ transport'.mutes = transport.mutes
      /\ transport'.met = transport.met /\ transport'.here = transport.here
      /\ transport'.events = transport.events /\ transport'.state = transport.state
  BY <1>1, <1>2 DEF Transports
<1>4. RoomOf(transport')
  BY <1>1, <1>2, <1>3 DEF RoomOf, InRoom
<1> QED BY <1>1, <1>3, <1>4, WorkingKeeps

LEMMA AudioChangesKeeps ==
  ASSUME DesktopInv, AudioChanges
  PROVE  DesktopInv'
<1>1. Elsewhere /\ transport' = transport
  BY DEF AudioChanges
<1>2. audio' \in [state : {"Running", "Stopped", "Lost"}, verified : BOOLEAN, polled : BOOLEAN]
  BY DEF AudioChanges, DesktopInv, DesktopTypeOK
<1>3. DesktopTypeOK'
  BY <1>1, <1>2 DEF DesktopInv, DesktopTypeOK, Elsewhere
<1>4. PageInv' /\ SeenInv'
  BY <1>1 DEF DesktopInv, PageInv, SeenInv, RoomActive, InRoom, Elsewhere
<1> QED BY <1>1, <1>3, <1>4 DEF DesktopInv, Elsewhere

-----------------------------------------------------------------------------
\* What processRoomControlEvents() makes of the events: an induction over them.
\* Every set of numbers has a least one; that is all the induction there is.
LEMMA Least ==
  ASSUME NEW T \in SUBSET Nat, T # {}
  PROVE  \E n \in T : \A m \in T : n <= m
<1> DEFINE R == OpToRel(<, Nat)
<1>1. IsWellFoundedOn(R, Nat)
  BY NatLessThanWellFounded
<1>2. \A x, y \in Nat : x < y => <<x, y>> \in R
  BY DEF OpToRel
<1>3. T \subseteq Nat /\ \A n \in T : n \in Nat
  OBVIOUS
<1> HIDE DEF R
<1>4. PICK x \in T : \A y \in T : ~(<<y, x>> \in R)
  BY <1>1, <1>3, WFMin
<1>5. SUFFICES ASSUME NEW m \in T PROVE x <= m
  OBVIOUS
<1>6. ~(m < x)
  BY <1>2, <1>3, <1>4
<1> QED BY <1>3, <1>6

\* There is such a function as ToldAll speaks of, and it begins with k.
LEMMA ToldOneByOne ==
  ASSUME NEW k, NEW S, NEW events \in Seq(S)
  PROVE  \E f : /\ f = [i \in 0 .. Len(events) |-> IF i = 0 THEN k ELSE Told(f[i - 1], events[i])]
                /\ ToldAll(k, events) = f[Len(events)]
<1> DEFINE Body(f, n) == [i \in 0 .. n |-> IF i = 0 THEN k ELSE Told(f[i - 1], events[i])]
           T == {n \in Nat : ~\E f : f = Body(f, n)}
<1>1. T = {}
  <2>1. SUFFICES ASSUME T # {} PROVE FALSE
    OBVIOUS
  <2>2. PICK n \in T : \A m \in T : n <= m
    BY <2>1, Least
  <2>3. n # 0
    <3>1. [i \in 0 .. 0 |-> k] = Body([i \in 0 .. 0 |-> k], 0)
      OBVIOUS
    <3> QED BY <3>1
  <2>4. n - 1 \in Nat /\ n - 1 \notin T
    BY <2>2, <2>3
  <2>5. PICK f : f = Body(f, n - 1)
    BY <2>4
  <2> DEFINE g == [i \in 0 .. n |-> IF i = n THEN Told(f[n - 1], events[n]) ELSE f[i]]
  <2>6. ASSUME NEW i \in 0 .. n
        PROVE  g[i] = IF i = 0 THEN k ELSE Told(g[i - 1], events[i])
    <3>1. CASE i = n
      <4>1. g[i] = Told(f[n - 1], events[n]) /\ g[n - 1] = f[n - 1] /\ i # 0
        BY <2>3, <2>4, <3>1
      <4> QED BY <4>1, <3>1
    <3>2. CASE i # n
      <4>1. i \in 0 .. n - 1 /\ g[i] = f[i]
        BY <3>2, <2>4
      <4>2. f[i] = IF i = 0 THEN k ELSE Told(f[i - 1], events[i])
        BY <4>1, <2>5
      <4>3. i # 0 => g[i - 1] = f[i - 1]
        BY <4>1, <3>2, <2>4
      <4> QED BY <4>1, <4>2, <4>3
    <3> QED BY <3>1, <3>2
  <2>7. g = Body(g, n)
    <3>1. Body(g, n) = [i \in 0 .. n |-> g[i]]
      BY <2>6
    <3> QED BY <3>1
  <2> QED BY <2>7, <2>2
<1> DEFINE told[i \in 0 .. Len(events)] == IF i = 0 THEN k ELSE Told(told[i - 1], events[i])
<1>2. told = Body(told, Len(events))
  <2>1. \E f : f = Body(f, Len(events))
    BY <1>1
  <2> QED BY <2>1
<1>3. ToldAll(k, events) = told[Len(events)]
  BY DEF ToldAll
<1> HIDE DEF told
<1> QED BY <1>2, <1>3

LEMMA ToldKnows ==
  ASSUME NEW k \in Knowledge, NEW met, KnownOf(k, met), NEW event \in Event, event.who \in met
  PROVE  Told(k, event) \in Knowledge /\ KnownOf(Told(k, event), met)
<1>1. CASE event.type = "Joined"
  BY <1>1 DEF Told, Knowledge, KnownOf, Event
<1>2. CASE event.type = "Left"
  BY <1>2 DEF Told, Knowledge, KnownOf, Event
<1>3. CASE event.type = "Said"
  BY <1>3 DEF Told, Knowledge, KnownOf, Event
<1>4. CASE event.type = "Mismatch"
  BY <1>4 DEF Told, Knowledge, KnownOf, Event
<1> QED BY <1>1, <1>2, <1>3, <1>4 DEF Event

\* Whatever is in the queue, nobody is known afterwards who was not met.
LEMMA ToldAllKnows ==
  ASSUME NEW k \in Knowledge, NEW met, KnownOf(k, met), NEW events \in Seq(Event),
         \A i \in 1 .. Len(events) : events[i].who \in met
  PROVE  ToldAll(k, events) \in Knowledge /\ KnownOf(ToldAll(k, events), met)
<1>1. PICK f : /\ f = [i \in 0 .. Len(events) |-> IF i = 0 THEN k ELSE Told(f[i - 1], events[i])]
               /\ ToldAll(k, events) = f[Len(events)]
  BY ToldOneByOne
<1> DEFINE Good(i) == f[i] \in Knowledge /\ KnownOf(f[i], met)
           T == {i \in 0 .. Len(events) : ~Good(i)}
<1>2. T = {}
  <2>1. SUFFICES ASSUME T # {} PROVE FALSE
    OBVIOUS
  <2>2. PICK n \in T : \A m \in T : n <= m
    <3>1. T \in SUBSET Nat
      OBVIOUS
    <3> QED BY <2>1, <3>1, Least
  <2>3. n # 0
    BY <1>1, <2>2
  <2>4. n \in 1 .. Len(events) /\ n - 1 \in 0 .. Len(events) /\ Good(n - 1)
    BY <2>2, <2>3
  <2>5. f[n] = Told(f[n - 1], events[n])
    BY <1>1, <2>4
  <2>6. events[n] \in Event /\ events[n].who \in met
    BY <2>4
  <2> QED BY <2>2, <2>4, <2>5, <2>6, ToldKnows
<1>3. Good(Len(events))
  <2>1. Len(events) \in 0 .. Len(events)
    OBVIOUS
  <2> QED BY <1>2, <2>1
<1> QED BY <1>1, <1>3

LEMMA PollKeeps ==
  ASSUME DesktopInv, Poll
  PROVE  DesktopInv'
<1> DEFINE had == known.had \/ seen.state = "Connected"
           k   == [known EXCEPT !.had = had]
<1>1. /\ audio' = [audio EXCEPT !.polled = audio.state = "Running"]
      /\ known' = IF InRoom THEN ToldAll(k, transport.events) ELSE k
      /\ IF InRoom THEN /\ seen' = [state |-> transport.state, bound |-> TRUE,
                                    stalled |-> transport.stalled]
                        /\ transport' = [transport EXCEPT !.events = << >>]
                   ELSE UNCHANGED <<seen, transport>>
      /\ UNCHANGED <<page, returns, tuner, drawer, mutes, directory, invite, bounds>>
  BY DEF Poll
<1>2. transport \in Transports /\ RoomOf(transport) /\ known \in Knowledge
      /\ KnownOf(known, transport.met)
  BY DEF DesktopInv, DesktopTypeOK
<1>3. k \in Knowledge /\ KnownOf(k, transport.met)
  BY <1>2 DEF DesktopInv, SeenInv, Knowledge, KnownOf
<1> HIDE DEF k
<1>4. known' \in Knowledge /\ KnownOf(known', transport.met)
  <2>1. transport.events \in Seq(Event)
    BY <1>2 DEF Transports
  <2> QED BY <1>1, <1>2, <1>3, <2>1, ToldAllKnows DEF RoomOf
<1>5. /\ transport' \in Transports /\ RoomOf(transport')
      /\ transport'.role = transport.role /\ transport'.met = transport.met
      /\ transport'.mutes = transport.mutes
  <2>1. CASE InRoom
    <3>1. << >> \in Seq(Event) /\ Len(<< >>) = 0
      OBVIOUS
    <3>2. /\ transport' \in Transports /\ transport'.events = << >>
          /\ transport'.role = transport.role /\ transport'.met = transport.met
          /\ transport'.here = transport.here /\ transport'.state = transport.state
          /\ transport'.mutes = transport.mutes
      BY <2>1, <3>1, <1>1, <1>2 DEF Transports
    <3> QED BY <2>1, <3>1, <3>2, <1>2 DEF RoomOf, InRoom
  <2>2. CASE ~InRoom
    BY <2>2, <1>1, <1>2
  <2> QED BY <2>1, <2>2
<1>6. /\ seen' \in [state : TransportStates, bound : BOOLEAN, stalled : BOOLEAN]
      /\ seen'.state = "Connected" => transport.met # {}
  <2>1. CASE InRoom
    <3>1. /\ seen' = [state |-> transport.state, bound |-> TRUE, stalled |-> transport.stalled]
          /\ transport.state \in TransportStates /\ transport.stalled \in BOOLEAN
      BY <2>1, <1>1, <1>2 DEF Transports
    <3> QED BY <3>1, <1>2 DEF RoomOf
  <2>2. CASE ~InRoom
    BY <2>2, <1>1 DEF DesktopInv, DesktopTypeOK, SeenInv
  <2> QED BY <2>1, <2>2
<1>7. audio' \in [state : {"Running", "Stopped", "Lost"}, verified : BOOLEAN, polled : BOOLEAN]
  BY <1>1 DEF DesktopInv, DesktopTypeOK
<1>8. DesktopTypeOK'
  BY <1>1, <1>4, <1>5, <1>6, <1>7 DEF DesktopInv, DesktopTypeOK
<1>9. PageInv' /\ Shown(transport', mutes', tuner')
  BY <1>1, <1>5 DEF DesktopInv, PageInv, Shown, RoomActive, InRoom
<1>10. SeenInv' /\ KnownOf(known', transport'.met)
  BY <1>4, <1>5, <1>6 DEF SeenInv
<1> QED BY <1>5, <1>8, <1>9, <1>10 DEF DesktopInv

-----------------------------------------------------------------------------
LEMMA DesktopStarts == DesktopInit => DesktopInv
<1> SUFFICES ASSUME DesktopInit PROVE DesktopInv
  OBVIOUS
<1>1. DesktopTypeOK
  BY BlankRooms DEF DesktopInit, DesktopTypeOK, Pages, Tuners
<1>2. PageInv
  BY DEF DesktopInit, PageInv
<1>3. Shown(transport, mutes, tuner) /\ RoomOf(transport) /\ SeenInv /\ KnownOf(known, transport.met)
  BY BlankRooms DEF DesktopInit, Shown, SeenInv
<1> QED BY <1>1, <1>2, <1>3 DEF DesktopInv

LEMMA DesktopStep == DesktopInv /\ [DesktopNext]_desktopVars => DesktopInv'
<1> SUFFICES ASSUME DesktopInv, [DesktopNext]_desktopVars PROVE DesktopInv'
  OBVIOUS
<1>1. CASE \E p \in Pages : Navigate(p)
  <2>1. PICK p \in Pages : Navigate(p)
    BY <1>1
  <2> QED BY <2>1, GoingKeeps DEF Navigate
<1>2. CASE OpenSettings
  BY <1>2, OpenSettingsKeeps
<1>3. CASE CloseSettings
  <2>1. GoTo(SettingsReturn, transport, mutes) /\ StaysInRoom
    BY <1>3 DEF CloseSettings
  <2>2. SettingsReturn \in Pages /\ (SettingsReturn = "room" => RoomActive)
    BY DEF SettingsReturn, Pages
  <2> QED BY <2>1, <2>2, GoingKeeps
<1>4. CASE CloseTuner
  <2>1. page = "tuner" /\ GoTo(returns.tuner, transport, mutes) /\ StaysInRoom
    BY <1>4 DEF CloseTuner
  <2>2. returns.tuner \in Pages /\ (returns.tuner = "room" => RoomActive)
    BY <2>1 DEF DesktopInv, DesktopTypeOK, PageInv, Pages
  <2> QED BY <2>1, <2>2, GoingKeeps
<1>5. CASE ToggleDrawer
  BY <1>5, ToggleDrawerKeeps
<1>6. CASE SetTunerMutes
  BY <1>6, SetTunerMutesKeeps
<1>7. CASE \E stream \in {"instrument", "voice"} : Mute(stream)
  BY <1>7, MuteKeeps
<1>8. CASE MuteAll
  BY <1>8, MuteAllKeeps
<1>9. CASE SendToSoundcheck
  <2>1. GoTo("soundcheck", transport, mutes) /\ StaysInRoom /\ "soundcheck" \in Pages
    BY <1>9 DEF SendToSoundcheck, Pages
  <2> QED BY <2>1, GoingKeeps
<1>10. CASE SocketFails
  BY <1>10, NoSocketKeeps DEF SocketFails
<1>11. CASE Leave
  BY <1>11, LeaveKeeps
<1>12. CASE JoinDirect
  BY <1>12, EnterKeeps DEF JoinDirect
<1>13. CASE Ask
  BY <1>13, AskKeeps
<1>14. CASE \E coded \in BOOLEAN : HostRoom(coded)
  <2>1. PICK coded \in BOOLEAN : HostRoom(coded)
    BY <1>14
  <2>2. Enter("Host") /\ directory' \in {"Idle", "Hosting"}
    BY <2>1 DEF HostRoom
  <2> QED BY <2>2, EnterKeeps
<1>15. CASE Answered
  BY <1>15, AnsweredKeeps
<1>16. CASE TakeAction
  <2>1. CASE GoTo("soundcheck", transport, mutes) /\ StaysInRoom
    BY <2>1, GoingKeeps DEF Pages
  <2>2. CASE OpenSettings
    BY <2>2, OpenSettingsKeeps
  <2> QED BY <1>16, <2>1, <2>2 DEF TakeAction
<1>17. CASE Poll
  BY <1>17, PollKeeps
<1>18. CASE \E f \in Friends : FriendJoins(f) \/ FriendLeaves(f) \/ FriendWrites(f) \/ OtherBuild(f)
  BY <1>18, FriendJoinsKeeps, FriendLeavesKeeps, FriendWritesKeeps, OtherBuildKeeps
<1>19. CASE MediaStalls
  BY <1>19, MediaStallsKeeps
<1>20. CASE AudioChanges
  BY <1>20, AudioChangesKeeps
<1>21. CASE UNCHANGED desktopVars
  BY <1>21 DEF desktopVars, DesktopInv, DesktopTypeOK, PageInv, SeenInv, RoomActive, InRoom
<1> QED BY <1>1, <1>2, <1>3, <1>4, <1>5, <1>6, <1>7, <1>8, <1>9, <1>10, <1>11, <1>12, <1>13,
           <1>14, <1>15, <1>16, <1>17, <1>18, <1>19, <1>20, <1>21 DEF DesktopNext

\* What the application shows, mutes and knows belongs together, whatever the
\* musician, the friends and the devices do.
THEOREM DesktopCorrect == DesktopSpec => []DesktopInv
BY DesktopStarts, DesktopStep, PTL DEF DesktopSpec

\* The types of what the application keeps.
THEOREM DesktopTypeCorrect == DesktopSpec => []DesktopTypeOK
<1>1. DesktopInv => DesktopTypeOK
  BY DEF DesktopInv
<1> QED BY <1>1, DesktopCorrect, PTL

\* What is kept from the friends is what the musician was shown to be muted, or
\* what the tuner holds back (applyLocalSendMutes()).
THEOREM MutesAreShown == DesktopSpec => []MutedAsShown
<1>1. DesktopInv => MutedAsShown
  BY DEF DesktopInv, Shown, MutedAsShown, InRoom
<1> QED BY <1>1, DesktopCorrect, PTL

\* No friend, no lost connection and no name of an earlier room is taken into
\* the next (leaveSession()).
THEOREM RoomsAreForgotten == DesktopSpec => []KnowsOnlyThisRoom
<1>1. DesktopInv => KnowsOnlyThisRoom
  <2>1. DesktopInv /\ ~InRoom => transport = NoTransport
    BY DEF DesktopInv, RoomOf, InRoom
  <2>2. NoTransport.met = {}
    BY DEF NoTransport
  <2> QED BY <2>1, <2>2 DEF DesktopInv, KnownOf, KnowsOnlyThisRoom
<1> QED BY <1>1, DesktopCorrect, PTL
==============================================================================
