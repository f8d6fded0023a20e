--------------------------------- MODULE Updater ---------------------------------
(***************************************************************************)
(* How a new JamLink takes the place of the one installed: the update      *)
(* manager of the application (update_manager.cpp) and the helper it       *)
(* leaves behind (tools/updater/main.cpp).                                 *)
(*                                                                         *)
(* Requests to the network and calls to the disk may fail, what is         *)
(* downloaded may be damaged, and the machine may go down between any two  *)
(* steps.  A directory is renamed at once; it is removed, or extracted     *)
(* into, file by file.                                                     *)
(***************************************************************************)
EXTENDS Naturals

CONSTANTS Latest  \* bound: the last version that gets published; 1 is installed

VARIABLES program,   \* Down, Running or Quitting
          room,      \* roomActive()
          manager,   \* busy_ and what for, candidate_ and expectedDigest_
          published, \* the newest release
          helper,    \* where wmain() is
          archive,   \* what is in the JamLink-update.zip the helper was given: each
                     \* download has a directory of its own, named by a new uuid
          disk       \* the three directories the helper deals with

updateVars == <<program, room, manager, published, helper, archive, disk>>

\* What a directory or an archive holds: nothing, something that is not whole,
\* or a version.
Nothing == 0
Versions == 1 .. Latest
Damaged == Latest + 1

NoCandidate == 0

Manager == [at |-> "Idle", candidate |-> NoCandidate]

Idle == manager' = [manager EXCEPT !.at = "Idle"]

-------------------------------------------------------------------------------
(* The application.                                                          *)

\* It starts with a check.
LaunchProgram ==
  /\ program = "Down" /\ disk.target \in Versions
  /\ program' = "Running" /\ manager' = [Manager EXCEPT !.at = "Checking"]
  /\ room' = FALSE
  /\ UNCHANGED <<published, helper, archive, disk>>

\* hostSession(), joinDirectSession() and leaveSession().
EnterRoom == /\ program = "Running" /\ ~room /\ room' = TRUE
             /\ UNCHANGED <<program, manager, published, helper, archive, disk>>
LeaveRoom == /\ program = "Running" /\ room /\ room' = FALSE
             /\ UNCHANGED <<program, manager, published, helper, archive, disk>>

\* checkNow(): from the settings, or because a musician has another build.
CheckNow ==
  /\ program = "Running" /\ manager.at = "Idle"
  /\ manager' = [at |-> "Checking", candidate |-> NoCandidate]
  /\ UNCHANGED <<program, room, published, helper, archive, disk>>

\* selectUpdateCandidate(): the newest release, where it is newer.
Candidate == IF published > disk.target THEN published ELSE NoCandidate

CheckAnswers ==
  /\ program = "Running" /\ manager.at = "Checking"
  /\ \/ manager' = [at |-> "Idle", candidate |-> Candidate]
     \/ Idle
  /\ UNCHANGED <<program, room, published, helper, archive, disk>>

\* installUpdate(), downloadAndInstall()
Install ==
  /\ program = "Running" /\ ~room
  /\ manager.at = "Idle" /\ manager.candidate # NoCandidate
  /\ manager' = [manager EXCEPT !.at = "Checksum"]
  /\ UNCHANGED <<program, room, published, helper, archive, disk>>

\* The published checksum is what the release names, and the archive can be
\* staged; or setFailure().
ChecksumAnswers ==
  /\ program = "Running" /\ manager.at = "Checksum"
  /\ \/ manager' = [manager EXCEPT !.at = "Archive"]
     \/ Idle
  /\ UNCHANGED <<program, room, published, helper, archive, disk>>

\* Mistake: the archive is taken for what was asked for.
AnyArchive(content) == content # Nothing

\* verifyFileSha256()
Verified(content) == content = manager.candidate

\* finishArchiveDownload(), stageAndRestart(), and the end of the event loop it
\* asks for; or setFailure().  One helper at a time: a bound.
ArchiveDone ==
  /\ program = "Running" /\ manager.at = "Archive"
  /\ \/ /\ helper = "None"
        /\ \E content \in {Nothing, Damaged, manager.candidate} :
             Verified(content) /\ archive' = content
        /\ manager' = [manager EXCEPT !.at = "Restarting"]
        /\ helper' = "Asked" /\ program' = "Quitting"
     \/ Idle /\ UNCHANGED <<helper, program, archive>>
  /\ UNCHANGED <<room, published, disk>>

\* The process ends: asked to, or closed.
AppEnds ==
  /\ program # "Down" /\ program' = "Down" /\ room' = FALSE /\ manager' = Manager
  /\ UNCHANGED <<published, helper, archive, disk>>

-------------------------------------------------------------------------------
(* The helper: wmain().  Where a step fails it returns, and starts nothing.  *)

At(here) == helper = here

Ends == helper' = "None" /\ UNCHANGED <<program, room, manager, disk>>

OthersUnchanged == UNCHANGED <<published, archive>>

\* There is something to replace.
LookForTarget ==
  /\ At("Asked")
  /\ \/ disk.target \in Versions /\ helper' = "Waiting" /\ UNCHANGED <<program, room, manager, disk>>
     \/ disk.target \notin Versions /\ Ends
  /\ OthersUnchanged

\* waitForParent(): the one that is quitting, and no longer than two minutes.
WaitForParent ==
  /\ At("Waiting")
  /\ \/ program # "Quitting" /\ helper' = "Extracting" /\ UNCHANGED <<program, room, manager, disk>>
     \/ program = "Quitting" /\ Ends
  /\ OthersUnchanged

\* extract(): the directory is cleared first.
Clears == At("Extracting") /\ helper' = "Extracts" /\ disk' = [disk EXCEPT !.stage = Damaged]
          /\ UNCHANGED <<program, room, manager>> /\ OthersUnchanged

\* The program and its licence are looked for, the rest is not.
Extracts ==
  /\ At("Extracts")
  /\ \/ /\ archive # Nothing
        /\ disk' = [disk EXCEPT !.stage = archive] /\ helper' = "Clearing"
        /\ UNCHANGED <<program, room, manager>>
     \/ Ends
  /\ OthersUnchanged

\* What an earlier update left behind is removed; whether it was is not asked.
RemoveBackup ==
  /\ At("Clearing") /\ helper' = "Preserving"
  /\ \E left \in {Nothing, IF disk.backup = Nothing THEN Nothing ELSE Damaged} :
       disk' = [disk EXCEPT !.backup = left]
  /\ UNCHANGED <<program, room, manager>> /\ OthersUnchanged

\* Mistake: the place for the backup is cleared once the backup is in it.
PreservedAndCleared(d) == [d EXCEPT !.target = Nothing, !.backup = Nothing]

Preserved(d) == [d EXCEPT !.target = Nothing, !.backup = d.target]

\* A directory cannot be renamed while a program in it runs, nor onto another.
Preserve ==
  /\ At("Preserving")
  /\ \/ /\ program = "Down" /\ disk.backup = Nothing
        /\ disk' = Preserved(disk) /\ helper' = "Activating"
        /\ UNCHANGED <<program, room, manager>>
     \/ Ends
  /\ OthersUnchanged

\* The new one takes its place; or the old one is put back, if that succeeds.
Activate ==
  /\ At("Activating")
  /\ \/ /\ disk' = [disk EXCEPT !.target = disk.stage, !.stage = Nothing]
        /\ helper' = "Starting"
     \/ /\ disk' \in {disk, [disk EXCEPT !.target = disk.backup, !.backup = Nothing]}
        /\ helper' = "None"
  /\ UNCHANGED <<program, room, manager>> /\ OthersUnchanged

Start ==
  /\ At("Starting") /\ helper' = "None"
  /\ \/ /\ program = "Down" /\ program' = "Running"
        /\ manager' = [Manager EXCEPT !.at = "Checking"] /\ UNCHANGED <<room, disk>>
     \/ UNCHANGED <<program, room, manager, disk>>
  /\ OthersUnchanged

Helper == \/ LookForTarget \/ WaitForParent \/ Clears \/ Extracts
          \/ RemoveBackup \/ Preserve \/ Activate \/ Start

-------------------------------------------------------------------------------

Publish == /\ published < Latest /\ published' = published + 1
           /\ UNCHANGED <<program, room, manager, helper, archive, disk>>

\* The machine goes down.
PowerLoss ==
  /\ program' = "Down" /\ room' = FALSE /\ manager' = Manager /\ helper' = "None"
  /\ UNCHANGED <<published, archive, disk>>

UpdateInit == /\ program = "Down" /\ room = FALSE /\ manager = Manager
              /\ published = 1 /\ helper = "None" /\ archive = Nothing
              /\ disk = [target |-> 1, stage |-> Nothing, backup |-> Nothing]

UpdateNext == \/ LaunchProgram \/ EnterRoom \/ LeaveRoom \/ AppEnds
              \/ CheckNow \/ CheckAnswers \/ Install \/ ChecksumAnswers \/ ArchiveDone
              \/ Helper \/ Publish \/ PowerLoss

UpdateSpec == UpdateInit /\ [][UpdateNext]_updateVars

-------------------------------------------------------------------------------

(***************************************************************************)
(* Whatever fails and wherever the machine goes down, a whole JamLink is   *)
(* where it is started from or beside it, and nothing that is not whole is *)
(* ever started from there.  (wmain(), finishArchiveDownload())            *)
(***************************************************************************)
InstallationKept == /\ disk.target \in Versions \/ disk.backup \in Versions
                    /\ disk.target # Damaged

(***************************************************************************)
(* An update does not take a musician out of a room.  It does: the room is *)
(* looked at when the update is asked for, and may be entered while it is  *)
(* downloaded.  (installUpdate(), stageAndRestart())                       *)
(***************************************************************************)
NeverLeavesARoom == [][helper = "None" /\ helper' = "Asked" => ~room]_updateVars
===============================================================================
