--------------------------------- MODULE MCRoom ---------------------------------
(***************************************************************************)
(* Two models on one run: who may do what in a room (RoomAuthority) and    *)
(* what the application shows of a room (DesktopRoom).  They share         *)
(* nothing: which of them a behaviour is about is chosen at its start, and *)
(* the other one rests in its initial state.                               *)
(***************************************************************************)
EXTENDS RoomAuthority, DesktopRoom

VARIABLES about

BothVars == <<about, vars, desktopVars>>

OfRoom == about = "Room" /\ UNCHANGED <<about, desktopVars>>
OfDesktop == about = "Desktop" /\ UNCHANGED <<about, vars>>

BothInit == about \in {"Room", "Desktop"} /\ Init /\ DesktopInit
BothNext == \/ OfRoom /\ Next
            \/ OfDesktop /\ DesktopNext

BothSpec == BothInit /\ [][BothNext]_BothVars
===============================================================================
