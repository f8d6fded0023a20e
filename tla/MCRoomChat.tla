----------------------------- MODULE MCRoomChat -----------------------------
(***************************************************************************)
(* RoomChat for TLC: the musicians are interchangeable.                    *)
(***************************************************************************)
EXTENDS RoomChat

Symmetry == Permutations(Musicians)
=============================================================================
