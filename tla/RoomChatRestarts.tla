-------------------------- MODULE RoomChatRestarts --------------------------
(***************************************************************************)
(* RoomChat when the sender's application ends and is started again while  *)
(* the others play on: nextChatMessageId_ of windows_peer_audio_transport  *)
(* .cpp starts from one in every process, receivedChatIds_ of the others   *)
(* stays.                                                                  *)
(***************************************************************************)
EXTENDS RoomChat

(* The queue is lost with the process, and so is what is on its way: the   *)
(* sockets and keys are new.                                               *)
SenderRestarts ==
    /\ pending' = <<>> /\ nextId' = 1
    /\ holder' = [k \in Slots |-> Nobody] /\ connected' = {}
    /\ chats' = {} /\ acks' = {}
    /\ failed' = failed \union {pending[i].text : i \in DOMAIN pending}
    /\ UNCHANGED <<musicians, addressed, left, bounds>>

RestartingSpec == Init /\ [][Next \/ SenderRestarts]_vars

(* docs/multi-participant-architecture.md:318-321: that one message is     *)
(* silently dropped as a duplicate of another was a defect, and "It is     *)
(* keyed by sender and ID now".  What a musician has acknowledged is shown *)
(* to that musician, or was over the rate.                                 *)
AcknowledgedIsShown == \A m \in Musicians, i \in DOMAIN pending :
    [id |-> pending[i].id, from |-> m] \in acks => Got(m, pending[i].text)
=============================================================================
