-------------------------- MODULE SessionRecorder --------------------------
(***************************************************************************)
(* src/record/session_recorder.cpp: one take at a time, written by three   *)
(* threads.  The audio callback puts every track's block into that track's *)
(* ring; a worker drains the rings into WAV files and keeps their headers  *)
(* up to date; the control thread starts and stops takes while both run.   *)
(*                                                                         *)
(* A block is the serial number (tick) of the callback that produced it,   *)
(* so a file is a sequence of ticks and a ring is a bounded FIFO of them   *)
(* (SpscAudioRing says why it may be taken as one).                        *)
(***************************************************************************)
EXTENDS Integers, Sequences, FiniteSets

CONSTANTS TrackCount,    \* recordTrackCount
          RingBlocks,    \* blocks one ring holds
          ScratchBlocks, \* blocks the worker moves at a time (scratch_)
          HeaderLimit,   \* blocks the 32-bit sizes of a header can express
          MaxTicks,      \* bound: callbacks
          MaxTakes       \* bound: takes started

ASSUME RecorderShape == /\ TrackCount \in Nat \ {0} /\ RingBlocks \in Nat \ {0}
                        /\ ScratchBlocks \in Nat \ {0} /\ HeaderLimit \in Nat
ASSUME RecorderBounds == MaxTicks \in Nat /\ MaxTakes \in Nat

Tracks == 1..TrackCount

VARIABLES recording, stopRequested, failed, dropped, \* the atomics
          selection,                     \* selection_: the tracks of this take
          ring, opened, bad, frames,     \* per track: ring, is_open, failbit, frames
          file, header,                  \* per track, on disk: data, size in the header
          framesWritten,                 \* the take length telemetry() shows
          control, opening, takes,       \* control thread: where it is; takes made
          worker, finishing, draining,   \* worker thread: where it is in run()
          tick, cbTrack, cbWriting       \* callback: its number, track, past the check

atomics == <<recording, stopRequested, failed, dropped>>
disk == <<opened, bad, frames, file, header>>
controlVars == <<control, opening, takes, selection>>
workerVars == <<worker, finishing, draining, framesWritten>>
callbackVars == <<tick, cbTrack, cbWriting>>
recorderVars == <<atomics, ring, disk, controlVars, workerVars, callbackVars>>

NoTrack == 0
Idle == cbTrack = NoTrack
LeastOf(a, b) == IF a <= b THEN a ELSE b

RecorderInit == /\ recording = FALSE /\ stopRequested = FALSE /\ failed = FALSE /\ dropped = 0
                /\ selection = Tracks
                /\ ring = [t \in Tracks |-> << >>]
                /\ opened = [t \in Tracks |-> FALSE] /\ bad = [t \in Tracks |-> FALSE]
                /\ frames = [t \in Tracks |-> 0]
                /\ file = [t \in Tracks |-> << >>] /\ header = [t \in Tracks |-> 0]
                /\ framesWritten = 0
                /\ control = "idle" /\ opening = NoTrack /\ takes = 0
                /\ worker = "none" /\ finishing = FALSE /\ draining = NoTrack
                /\ tick = 0 /\ cbTrack = NoTrack /\ cbWriting = FALSE

-----------------------------------------------------------------------------
(* refreshSizes(), which a failed stream ignores. *)

(* Mistake: the size in the header counts what is still queued. *)
SizesWithQueue(t) == LeastOf(frames[t] + Len(ring[t]), HeaderLimit)

Sizes(t) == LeastOf(frames[t], HeaderLimit)

Refreshed == [t \in Tracks |-> IF opened[t] /\ ~bad[t] THEN Sizes(t) ELSE header[t]]

-----------------------------------------------------------------------------
(* The control thread. *)

(* The environment: no callback lasts from one take into the next, which   *)
(* would take a callback longer than a join of the worker and a user's     *)
(* press of the button.  Nothing in the code enforces it.                  *)
NoStraggler == Idle

(* start() with arguments it refuses leaves the new selection behind; when *)
(* the directory cannot be made it reports a failure as well.              *)
StartRefused(chosen, noDirectory) ==
    /\ control = "idle" /\ ~recording
    /\ NoStraggler
    /\ chosen # {}
    /\ selection' = chosen
    /\ failed' = (failed \/ noDirectory)
    /\ UNCHANGED <<recording, stopRequested, dropped, ring, disk, control, opening,
                   takes, workerVars, callbackVars>>

StartBegin(chosen) ==
    /\ control = "idle" /\ ~recording
    /\ NoStraggler
    /\ takes < MaxTakes
    /\ chosen # {}
    /\ selection' = chosen
    /\ takes' = takes + 1
    /\ control' = "opening"
    /\ opening' = 1
    /\ file' = [t \in Tracks |-> << >>]      \* the files of a new directory
    /\ header' = [t \in Tracks |-> 0]
    /\ UNCHANGED <<atomics, ring, opened, bad, frames, workerVars, callbackVars>>

(* Mistake: the frame count of the last take is carried into the next. *)
FramesKept(t) == frames[t]

FramesAtStart(t) == 0

OpenTrack ==
    /\ control = "opening"
    /\ opening \in Tracks
    /\ ring' = [ring EXCEPT ![opening] = << >>]
    /\ frames' = [frames EXCEPT ![opening] = FramesAtStart(opening)]
    /\ bad' = [bad EXCEPT ![opening] = FALSE]
    /\ opened' = [opened EXCEPT ![opening] = opening \in selection]
    /\ opening' = opening + 1
    /\ UNCHANGED <<atomics, file, header, control, takes, selection, workerVars,
                   callbackVars>>

(* closeTracks() on what was opened, and the take never begins. *)
OpenTrackFails ==
    /\ control = "opening"
    /\ opening \in selection
    /\ failed' = TRUE
    /\ ring' = [ring EXCEPT ![opening] = << >>]
    /\ frames' = [frames EXCEPT ![opening] = FramesAtStart(opening)]
    /\ bad' = [bad EXCEPT ![opening] = FALSE]
    /\ opened' = [t \in Tracks |-> FALSE]
    /\ header' = Refreshed
    /\ control' = "idle"
    /\ opening' = NoTrack
    /\ UNCHANGED <<recording, stopRequested, dropped, file, takes, selection,
                   workerVars, callbackVars>>

StartRun ==
    /\ control = "opening"
    /\ opening = TrackCount + 1
    /\ recording' = TRUE /\ stopRequested' = FALSE /\ failed' = FALSE /\ dropped' = 0
    /\ framesWritten' = 0
    /\ worker' = "top"
    /\ control' = "idle"
    /\ opening' = NoTrack
    /\ UNCHANGED <<ring, disk, takes, selection, finishing, draining, callbackVars>>

StopBegin ==
    /\ control = "idle" /\ recording
    /\ recording' = FALSE
    /\ control' = "stopping"
    /\ UNCHANGED <<stopRequested, failed, dropped, ring, disk, opening, takes,
                   selection, workerVars, callbackVars>>

StopRequest ==
    /\ control = "stopping"
    /\ stopRequested' = TRUE
    /\ control' = "joining"
    /\ UNCHANGED <<recording, failed, dropped, ring, disk, opening, takes,
                   selection, workerVars, callbackVars>>

StopJoin ==
    /\ control = "joining"
    /\ worker = "done"
    /\ worker' = "none"
    /\ header' = Refreshed
    /\ opened' = [t \in Tracks |-> FALSE]
    /\ control' = "idle"
    /\ UNCHANGED <<atomics, ring, bad, frames, file, opening, takes, selection,
                   finishing, draining, framesWritten, callbackVars>>

Stop == StopBegin \/ StopRequest \/ StopJoin

-----------------------------------------------------------------------------
(* The worker: run().  stopRequested is read before the rings are drained. *)

(* Mistake: the worker heeds the request only while frames may still come. *)
FinishWhileRecording == stopRequested /\ recording

FinishRequested == stopRequested

WorkerTop ==
    /\ worker = "top"
    /\ finishing' = FinishRequested
    /\ draining' = 1
    /\ worker' = "drain"
    /\ UNCHANGED <<atomics, ring, disk, controlVars, framesWritten, callbackVars>>

DrainBlocks ==
    /\ worker = "drain" /\ draining \in Tracks
    /\ opened[draining]
    /\ ring[draining] # << >>
    /\ LET n == LeastOf(Len(ring[draining]), ScratchBlocks)
           taken == SubSeq(ring[draining], 1, n)
       IN /\ ring' = [ring EXCEPT ![draining] = SubSeq(@, n + 1, Len(@))]
          /\ \/ /\ ~bad[draining]
                /\ file' = [file EXCEPT ![draining] = @ \o taken]
                /\ frames' = [frames EXCEPT ![draining] = @ + n]
                /\ UNCHANGED <<failed, bad, draining>>
             \/ /\ failed' = TRUE           \* the disk, now or earlier, refused
                /\ bad' = [bad EXCEPT ![draining] = TRUE]
                /\ draining' = draining + 1
                /\ UNCHANGED <<file, frames>>
    /\ UNCHANGED <<recording, stopRequested, dropped, opened, header, controlVars,
                   worker, finishing, framesWritten, callbackVars>>

DrainNext ==
    /\ worker = "drain" /\ draining \in Tracks
    /\ ~opened[draining] \/ ring[draining] = << >>
    /\ draining' = draining + 1
    /\ UNCHANGED <<atomics, ring, disk, controlVars, worker, finishing,
                   framesWritten, callbackVars>>

(* The headers are due when the take is finishing, or every two seconds. *)
WorkerPublish ==
    /\ worker = "drain" /\ draining = TrackCount + 1
    /\ framesWritten' \in {frames[t] : t \in Tracks}        \* the longest of them
    /\ \A t \in Tracks : frames[t] <= framesWritten'
    /\ header' \in {Refreshed} \union (IF finishing THEN {} ELSE {header})
    /\ worker' = IF finishing THEN "done" ELSE "top"
    /\ draining' = NoTrack
    /\ UNCHANGED <<atomics, ring, opened, bad, frames, file, controlVars,
                   finishing, callbackVars>>

Work == WorkerTop \/ DrainBlocks \/ DrainNext \/ WorkerPublish

-----------------------------------------------------------------------------
(* The audio callback.  It looks once whether a take is running, and then  *)
(* calls write() for each track, which looks again.                        *)

NextTrack == IF cbTrack = TrackCount THEN NoTrack ELSE cbTrack + 1

CallbackBegin ==
    /\ Idle
    /\ tick < MaxTicks
    /\ tick' = tick + 1
    /\ cbTrack' = IF recording THEN 1 ELSE NoTrack
    /\ UNCHANGED <<atomics, ring, disk, controlVars, workerVars, cbWriting>>

WriteCheck ==
    /\ ~Idle /\ ~cbWriting
    /\ IF recording /\ cbTrack \in selection
       THEN cbWriting' = TRUE /\ UNCHANGED cbTrack
       ELSE cbTrack' = NextTrack /\ UNCHANGED cbWriting
    /\ UNCHANGED <<atomics, ring, disk, controlVars, workerVars, tick>>

(* Mistake: a block that does not fit is lost without being counted. *)
DropUncounted == dropped

DropCounted == dropped + 1

(* Mistake: a full ring takes one block more. *)
RoomOffByOne(t) == Len(ring[t]) <= RingBlocks

Room(t) == Len(ring[t]) < RingBlocks

WriteRing ==
    /\ ~Idle /\ cbWriting
    /\ IF Room(cbTrack)
       THEN ring' = [ring EXCEPT ![cbTrack] = Append(@, tick)] /\ UNCHANGED dropped
       ELSE dropped' = DropCounted /\ UNCHANGED ring
    /\ cbTrack' = NextTrack
    /\ cbWriting' = FALSE
    /\ UNCHANGED <<recording, stopRequested, failed, disk, controlVars, workerVars,
                   tick>>

Callback == CallbackBegin \/ WriteCheck \/ WriteRing

Start == \/ \E chosen \in SUBSET Tracks :
               \/ StartBegin(chosen)
               \/ \E noDirectory \in BOOLEAN : StartRefused(chosen, noDirectory)
         \/ OpenTrack \/ OpenTrackFails \/ StartRun

RecorderNext == Start \/ Stop \/ Work \/ Callback

RecorderSpec == RecorderInit /\ [][RecorderNext]_recorderVars

(* The operating system runs the worker and the thread that called stop(). *)
RecorderFairSpec == /\ RecorderSpec
                    /\ WF_recorderVars(Work)
                    /\ WF_recorderVars(Stop /\ control # "idle")

-----------------------------------------------------------------------------
RecorderTypeOK ==
    /\ recording \in BOOLEAN /\ stopRequested \in BOOLEAN /\ failed \in BOOLEAN
    /\ dropped \in Nat
    /\ selection \in SUBSET Tracks
    /\ ring \in [Tracks -> Seq(Nat)] /\ \A t \in Tracks : Len(ring[t]) <= RingBlocks
    /\ opened \in [Tracks -> BOOLEAN] /\ bad \in [Tracks -> BOOLEAN]
    /\ frames \in [Tracks -> Nat]
    /\ file \in [Tracks -> Seq(Nat)] /\ header \in [Tracks -> Nat]
    /\ framesWritten \in Nat
    /\ control \in {"idle", "opening", "stopping", "joining"}
    /\ opening \in 0..(TrackCount + 1) /\ takes \in Nat
    /\ worker \in {"none", "top", "drain", "done"} /\ finishing \in BOOLEAN
    /\ draining \in 0..(TrackCount + 1)
    /\ tick \in Nat /\ cbTrack \in 0..TrackCount /\ cbWriting \in BOOLEAN

Whole == ~failed /\ dropped = 0 /\ control # "opening"

(* A take whose telemetry shows no failure and no dropped frame has no gap *)
(* in any track: the callbacks in a file, and then in the ring behind it,  *)
(* are consecutive.                                                        *)
NoUncountedGap ==
    Whole => \A t \in selection :
                LET all == file[t] \o ring[t]
                IN  \A i \in 1..(Len(all) - 1) : all[i + 1] = all[i] + 1

(* The tracks of such a take are sample-aligned: the same place in two     *)
(* files was played at the same time, although starting and stopping fall  *)
(* between any two writes of a callback.                                   *)
AlignedUnlessDropped ==
    Whole => \A s, t \in selection :
                \A i \in 1..LeastOf(Len(file[s]), Len(file[t])) : file[s][i] = file[t][i]

(* Whenever the process dies, what a header promises is in the file.       *)
HeaderNeverAhead == \A t \in Tracks : header[t] <= Len(file[t])

(* Once stop() has returned, the header of every track whose disk did not  *)
(* fail describes the whole file, however the last refresh and the final   *)
(* drain fell.                                                             *)
HeaderFinal ==
    control = "idle" /\ worker = "none" /\ ~failed =>
        \A t \in Tracks : header[t] = LeastOf(Len(file[t]), HeaderLimit)

(* Both: a take that shows no failure and no dropped frame is whole.       *)
TakeIsWhole == NoUncountedGap /\ AlignedUnlessDropped

(* Both: what a header tells is in the file, and in the end all of it.     *)
HeaderTells == HeaderNeverAhead /\ HeaderFinal

(* stop() returns, whatever the callback does meanwhile. *)
StopReturns == control = "stopping" ~> control = "idle"
=============================================================================
