----------------------------- MODULE AudioFifo -----------------------------
(***************************************************************************)
(* What a bounded audio ring promises its two users, with no memory layout *)
(* and no concurrency: whole blocks of frames go in, or are refused; what  *)
(* comes out is the oldest part of what went in, in order and once.        *)
(*                                                                         *)
(* A frame is its serial number: the n-th frame ever accepted is frame n.  *)
(***************************************************************************)
EXTENDS Naturals, Sequences

CONSTANTS Capacity,  \* frames the FIFO can hold
          MaxBlock   \* largest block a user hands over or asks for

VARIABLES nextFrame, \* serial number of the next frame accepted
          queue,     \* frames accepted and not delivered, oldest first
          out        \* the frames the last delivery handed out

vars == <<nextFrame, queue, out>>

Init == /\ nextFrame = 0
        /\ queue = << >>
        /\ out = << >>

Block(first, n) == [i \in 1..n |-> first + i - 1]

Accept(n) == /\ Len(queue) + n <= Capacity
             /\ queue' = queue \o Block(nextFrame, n)
             /\ nextFrame' = nextFrame + n
             /\ UNCHANGED out

Deliver(n) == /\ n <= Len(queue)
              /\ out' = SubSeq(queue, 1, n)
              /\ queue' = SubSeq(queue, n + 1, Len(queue))
              /\ UNCHANGED nextFrame

(* A control thread empties the FIFO; what was queued is never delivered. *)
Discard == /\ queue' = << >>
           /\ UNCHANGED <<nextFrame, out>>

Next == \/ \E n \in 1..MaxBlock : Accept(n)
        \/ \E n \in 0..MaxBlock : Deliver(n)
        \/ Discard

Spec == Init /\ [][Next]_vars
=============================================================================
