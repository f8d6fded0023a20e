------------------------------ MODULE MCRecording ------------------------------
(***************************************************************************)
(* Two models on one run: the ring between two audio threads               *)
(* (SpscAudioRing) and the recorder that has such a ring for every track   *)
(* (SessionRecorder, where a ring is a queue of blocks).  Which of them a  *)
(* behaviour is about is chosen at its start, and the other one rests in   *)
(* its initial state.                                                      *)
(***************************************************************************)
EXTENDS SpscAudioRing, SessionRecorder

VARIABLES about

BothVars == <<about, vars, recorderVars>>

OfRing == about = "Ring" /\ UNCHANGED <<about, recorderVars>>
OfRecorder == about = "Recorder" /\ UNCHANGED <<about, vars>>

BothInit == about \in {"Ring", "Recorder"} /\ Init /\ RecorderInit
BothNext == \/ OfRing /\ Next
            \/ OfRecorder /\ RecorderNext

\* The fairness of SessionRecorder.
BothSpec == /\ BothInit /\ [][BothNext]_BothVars
            /\ WF_BothVars(OfRecorder /\ Work)
            /\ WF_BothVars(OfRecorder /\ Stop /\ control # "idle")
===============================================================================
