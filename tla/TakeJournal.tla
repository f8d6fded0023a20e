---------------------------- MODULE TakeJournal ----------------------------
(***************************************************************************)
(* src/record/take_manifest.cpp and its use in apps/desktop/app_controller *)
(* .cpp: what the folder of a take says about the recording in it, when    *)
(* the process may die between any two of the calls that write it.         *)
(*                                                                         *)
(* A folder is named by the second in which its take was started.  The     *)
(* recorder is reduced to the outcome of a take; SessionRecorder has its   *)
(* inside.                                                                 *)
(***************************************************************************)
EXTENDS Integers

CONSTANTS Refusing,     \* folders where rename() onto an existing file is refused
          MaxTakes,     \* bound: takes
          MaxSeconds,   \* bound: the clock
          MaxLaunches   \* bound: times the application is started

ASSUME JournalBounds == /\ MaxTakes \in Nat /\ MaxSeconds \in Nat \ {0}
                        /\ MaxLaunches \in Nat
                        /\ Refusing \subseteq 1..MaxSeconds

Folders == 1..MaxSeconds
NoFolder == 0

VARIABLES folder,             \* the disk
          recording, dropped, \* the recorder: take in progress, frames dropped
          control, pending,   \* control thread: where it is; takes to recover
          active, polled,     \* activeTakeDirectory_, recorderTelemetry_
          job,                \* writeAtomically() in progress
          second, takes, launches

recorder == <<recording, dropped>>
controller == <<control, pending, active, polled>>
bounds == <<second, takes, launches>>
journalVars == <<folder, recorder, controller, job, bounds>>

(* A manifest names its take, its state and whether frames were dropped. *)
Manifest(take, state, gaps) == [take |-> take, state |-> state, gaps |-> gaps]
NoManifest == Manifest(0, "None", FALSE)
Torn == Manifest(0, "Torn", FALSE)

(* audio: the take whose sound is there; end: how it ended; begun: history, *)
(* the journal has once recorded that it is in progress.                    *)
EmptyFolder == [audio |-> 0, end |-> "None", failed |-> FALSE, gaps |-> FALSE,
                manifest |-> NoManifest, temporary |-> NoManifest, begun |-> FALSE]

NoJob == [at |-> "none", target |-> NoFolder, text |-> NoManifest, next |-> "idle"]

NotPolled == [recording |-> FALSE, dropped |-> FALSE]

JournalInit == /\ folder = [f \in Folders |-> EmptyFolder]
               /\ recording = NoFolder /\ dropped = FALSE
               /\ control = "down" /\ pending = {} /\ active = NoFolder /\ polled = NotPolled
               /\ job = NoJob
               /\ second = 1 /\ takes = 0 /\ launches = 0

-----------------------------------------------------------------------------
(* writeAtomically(): beside the manifest, then over it. *)

Write(f, text, next) ==
    /\ job' = [at |-> "open", target |-> f, text |-> text, next |-> next]
    /\ control' = "writing"

Written == job' = NoJob /\ control' = job.next

(* Mistake: the manifest is opened for writing itself. *)
OpenedInPlace(f) == [folder EXCEPT ![f].manifest = Torn]

Opened(f) == [folder EXCEPT ![f].temporary = Torn]

JournalOpen ==
    /\ job.at = "open"
    /\ \/ /\ folder' = Opened(job.target)
          /\ job' = [job EXCEPT !.at = "flush"]
          /\ UNCHANGED control
       \/ Written /\ UNCHANGED folder           \* it cannot be opened
    /\ UNCHANGED <<recorder, pending, active, polled, bounds>>

JournalFlush ==
    /\ job.at = "flush"
    /\ \/ /\ folder' = [folder EXCEPT ![job.target].temporary = job.text]
          /\ job' = [job EXCEPT !.at = "rename"]
          /\ UNCHANGED control
       \/ Written /\ UNCHANGED folder           \* the disk is full
    /\ UNCHANGED <<recorder, pending, active, polled, bounds>>

Renamed(f) == [folder EXCEPT ![f].manifest = folder[f].temporary,
                             ![f].temporary = NoManifest,
                             ![f].begun = TRUE]

JournalRename ==
    /\ job.at = "rename"
    /\ IF job.target \notin Refusing \/ folder[job.target].manifest = NoManifest
       THEN folder' = Renamed(job.target) /\ Written
       ELSE job' = [job EXCEPT !.at = "remove"] /\ UNCHANGED <<folder, control>>
    /\ UNCHANGED <<recorder, pending, active, polled, bounds>>

JournalRemove ==
    /\ job.at = "remove"
    /\ folder' = [folder EXCEPT ![job.target].manifest = NoManifest]
    /\ job' = [job EXCEPT !.at = "again"]
    /\ UNCHANGED <<recorder, controller, bounds>>

JournalRenameAgain ==
    /\ job.at = "again"
    /\ folder' = Renamed(job.target) \/ UNCHANGED folder    \* it fails as well
    /\ Written
    /\ UNCHANGED <<recorder, pending, active, polled, bounds>>

Journal == JournalOpen \/ JournalFlush \/ JournalRename \/ JournalRemove
           \/ JournalRenameAgain

-----------------------------------------------------------------------------
(* Startup: what findInterrupted() lists is recovered, one after the other. *)

Interrupted(manifest) == manifest.state = "Recording"

Launch ==
    /\ control = "down"
    /\ launches < MaxLaunches
    /\ launches' = launches + 1
    /\ pending' = {f \in Folders : Interrupted(folder[f].manifest)}
    /\ control' = "recovering"
    /\ UNCHANGED <<folder, recorder, active, polled, job, second, takes>>

(* Mistake: what survived is taken for the whole take. *)
RecoveredReady == "Ready"

(* Mistake: the state is written under a name that no reader knows. *)
RecoveredUnknown == "Recovered"

Recovered == "RecoveredNeedsReview"

RecoverTake ==
    /\ control = "recovering"
    /\ \E f \in pending :
          /\ \A g \in pending : f <= g
          /\ pending' = pending \ {f}
          /\ Write(f, [folder[f].manifest EXCEPT !.state = Recovered], "recovering")
    /\ UNCHANGED <<folder, recorder, active, polled, bounds>>

RecoveryDone ==
    /\ control = "recovering"
    /\ pending = {}
    /\ control' = "idle"
    /\ UNCHANGED <<folder, recorder, pending, active, polled, job, bounds>>

(* toggleRecording(), which goes by the last poll of the recorder. *)

(* The environment: takes are started in different seconds, which nothing  *)
(* in the code enforces; otherwise the later would overwrite the earlier.  *)
NewSecond == folder[second].audio = 0

(* Mistake: the folder of a take that was never finalised is kept. *)
FolderOfLast == IF active # NoFolder THEN active ELSE second

FolderOfTake == second

StartRecording ==
    /\ control = "idle"
    /\ ~polled.recording /\ recording = NoFolder
    /\ takes < MaxTakes
    /\ NewSecond
    /\ folder' = [folder EXCEPT ![second].audio = takes + 1, ![second].end = "Open",
                                ![second].failed = FALSE, ![second].gaps = FALSE]
    /\ takes' = takes + 1
    /\ recording' = second /\ dropped' = FALSE
    /\ polled' = [recording |-> TRUE, dropped |-> FALSE]
    /\ active' = FolderOfTake
    /\ control' = "begin"
    /\ UNCHANGED <<pending, job, second, launches>>

BeginTake ==
    /\ control = "begin"
    /\ Write(active, Manifest(takes, "Recording", FALSE), "idle")
    /\ UNCHANGED <<folder, recorder, pending, active, polled, bounds>>

(* stop() of the recorder closes its files. *)
Closed == IF recording = NoFolder THEN folder
          ELSE [folder EXCEPT ![recording].end = "Closed"]

(* Mistake: what is reported is what was polled before the final drain. *)
PolledDropped == polled.dropped

FinalDropped == dropped

StopRecording ==
    /\ control = "idle"
    /\ polled.recording
    /\ folder' = Closed
    /\ recording' = NoFolder
    /\ polled' = [recording |-> FALSE, dropped |-> FinalDropped]
    /\ control' = "finalise"
    /\ UNCHANGED <<dropped, pending, active, job, bounds>>

FinaliseTake ==
    /\ control = "finalise"
    /\ IF active = NoFolder
       THEN control' = "idle" /\ UNCHANGED job
       ELSE Write(active, Manifest(takes, "Ready", polled.dropped), "idle")
    /\ active' = NoFolder
    /\ UNCHANGED <<folder, recorder, pending, polled, bounds>>

(* restartAudio() and the other places that stop the audio service, whose   *)
(* stop() ends the take with it; the controller learns of it from the poll. *)
StopAudio ==
    /\ control = "idle"
    /\ recording # NoFolder
    /\ folder' = Closed
    /\ recording' = NoFolder
    /\ UNCHANGED <<dropped, controller, job, bounds>>

PollTelemetry ==
    /\ control = "idle"
    /\ polled' = [recording |-> recording # NoFolder, dropped |-> dropped]
    /\ UNCHANGED <<folder, recorder, control, pending, active, job, bounds>>

Toggle == StartRecording \/ BeginTake \/ StopRecording \/ FinaliseTake

-----------------------------------------------------------------------------
(* What happens to the recorder and the process. *)

RecorderFails ==
    /\ recording # NoFolder
    /\ folder' = [folder EXCEPT ![recording].failed = TRUE]
    /\ UNCHANGED <<recorder, controller, job, bounds>>

RecorderDrops ==
    /\ recording # NoFolder
    /\ folder' = [folder EXCEPT ![recording].gaps = TRUE]
    /\ dropped' = TRUE
    /\ UNCHANGED <<recording, controller, job, bounds>>

Down == /\ recording' = NoFolder /\ dropped' = FALSE
        /\ control' = "down" /\ pending' = {} /\ active' = NoFolder
        /\ polled' = NotPolled
        /\ job' = NoJob
        /\ UNCHANGED bounds

Crash ==
    /\ control # "down"
    /\ folder' = [f \in Folders |-> IF f = recording THEN [folder[f] EXCEPT !.end = "Cut"]
                                                     ELSE folder[f]]
    /\ Down

(* The destructor stops the audio service; nothing finalises the take. *)
Quit ==
    /\ control = "idle"
    /\ folder' = Closed
    /\ Down

TickSecond ==
    /\ second < MaxSeconds
    /\ second' = second + 1
    /\ UNCHANGED <<folder, recorder, controller, job, takes, launches>>

JournalNext == \/ Journal
               \/ Launch \/ RecoverTake \/ RecoveryDone
               \/ Toggle \/ StopAudio \/ PollTelemetry
               \/ RecorderFails \/ RecorderDrops
               \/ Crash \/ Quit \/ TickSecond

JournalSpec == JournalInit /\ [][JournalNext]_journalVars

-----------------------------------------------------------------------------
States == {"None", "Torn", "Recording", "Ready", "RecoveredNeedsReview"}
Manifests == [take : 0..MaxTakes, state : States, gaps : BOOLEAN]

JournalTypeOK ==
    /\ folder \in [Folders -> [audio : 0..MaxTakes, end : {"None", "Open", "Closed", "Cut"},
                               failed : BOOLEAN, gaps : BOOLEAN,
                               manifest : Manifests, temporary : Manifests,
                               begun : BOOLEAN]]
    /\ recording \in Folders \union {NoFolder} /\ dropped \in BOOLEAN
    /\ control \in {"down", "recovering", "idle", "begin", "finalise", "writing"}
    /\ pending \in SUBSET Folders
    /\ active \in Folders \union {NoFolder}
    /\ polled \in [recording : BOOLEAN, dropped : BOOLEAN]
    /\ job \in [at : {"none", "open", "flush", "rename", "remove", "again"},
                target : Folders \union {NoFolder}, text : Manifests,
                next : {"idle", "recovering"}]
    /\ second \in Folders /\ takes \in 0..MaxTakes /\ launches \in 0..MaxLaunches

(* A recording that was cut off is never presented as a finished take, at  *)
(* whatever write of whatever launch the process dies.                     *)
CutIsNeverReady == \A f \in Folders : folder[f].end = "Cut" =>
                                         folder[f].manifest.state # "Ready"

(* Once a take has been recorded as in progress, its folder has a whole    *)
(* manifest in every state a crash could leave behind, where the disk can  *)
(* replace a file at all.                                                  *)
ManifestKept == \A f \in Folders \ Refusing : folder[f].begun =>
                    folder[f].manifest.state \in {"Recording", "Ready", "RecoveredNeedsReview"}

(* A manifest speaks of the recording that is in its folder. *)
ManifestOfItsAudio == \A f \in Folders : folder[f].manifest.state # "None" =>
                                            folder[f].manifest.take = folder[f].audio

(* A take that is Ready says so if frames of it were dropped, up to the    *)
(* last of the final drain.                                                *)
GapsAreTold == \A f \in Folders : folder[f].manifest.state = "Ready" /\ folder[f].gaps =>
                                     folder[f].manifest.gaps

(* All four: a take that was begun has a whole manifest, which speaks of   *)
(* the audio beside it, tells of its gaps, and does not call finished what *)
(* was cut off.                                                            *)
ManifestTells == CutIsNeverReady /\ ManifestKept /\ ManifestOfItsAudio /\ GapsAreTold

(* take_manifest.hpp:31 says of Ready: "Finalised, with every source        *)
(* accounted for."  A take whose disk refused frames is not.                *)
ReadyIsWhole == \A f \in Folders : folder[f].manifest.state = "Ready" => ~folder[f].failed
=============================================================================
