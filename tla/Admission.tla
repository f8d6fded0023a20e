------------------------------ MODULE Admission ------------------------------
(***************************************************************************)
(* What a private room promises, whatever service and whatever network     *)
(* stand between the musicians: the encrypted invite of a registration is  *)
(* handed to one waiting musician at most, and only to the one the host    *)
(* let in.                                                                 *)
(***************************************************************************)
EXTENDS Naturals

CONSTANTS Registrations,    \* every registration of a room there may be
          Requests          \* every request to be let in there may be

\* Requests are numbered from 1.
None == 0

VARIABLES chosen,    \* the request each registration let in, or None
          holders    \* who was handed which invite: <<registration, request>>

Init == /\ chosen = [r \in Registrations |-> None]
        /\ holders = {}

\* The host lets one musician in.
Choose(r, q) == /\ chosen[r] = None
                /\ chosen' = [chosen EXCEPT ![r] = q]
                /\ UNCHANGED holders

\* The musician who was let in is handed the invite.
HandOver(r, q) == /\ chosen[r] = q
                  /\ holders' = holders \cup {<<r, q>>}
                  /\ UNCHANGED chosen

Next == \E r \in Registrations, q \in Requests : Choose(r, q) \/ HandOver(r, q)

Spec == Init /\ [][Next]_<<chosen, holders>>

(***************************************************************************)
(* No invite is ever held by two requests, which is what the comment on    *)
(* the admission in jamlink_directory.py asks for: the same media secret   *)
(* cannot authorise a later requester.                                     *)
(***************************************************************************)
OneHolder == \A h, k \in holders : h[1] = k[1] => h[2] = k[2]
==============================================================================
