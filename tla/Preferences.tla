------------------------------ MODULE Preferences ------------------------------
(***************************************************************************)
(* The file of preferences and the profile in it (preferences_store.cpp,   *)
(* app_controller.cpp): read at launch, written 350 ms after a change, by  *)
(* the sound check and on quitting, through a temporary file that takes    *)
(* the place of the other.                                                 *)
(*                                                                         *)
(* Everything runs on the application's thread, so nothing changes while a *)
(* save is under way; but the process may die in the middle of one, and    *)
(* each call to the disk may fail.                                         *)
(***************************************************************************)
EXTENDS Naturals

CONSTANTS Bios,        \* the texts of a biography that are typed: see BioKinds
          Unreadable,  \* whether the file may for a moment be another program's
          MaxChanges,  \* bound: changes by the musician
          MaxLaunches, \* bound: launches
          MaxFaults    \* bound: failures of the disk

VARIABLES app,        \* Down, Running or Quitting
          prefs,      \* preferences_
          due,        \* saveTimer_ is running
          step,       \* where save() is: Idle, Opened or Written
          file,       \* the preference file
          temporary,  \* the file beside it
          message,    \* saveMessage_
          bounds      \* what has happened, and how many profiles were drawn

vars == <<app, prefs, due, step, file, temporary, message, bounds>>

\* Plain fits on its line.  Lines holds a line feed.  Wide is within 240
\* characters but beyond 280 bytes.
BioKinds == {"Plain", "Lines", "Wide"}
ASSUME BioAssumption == Bios \subseteq BioKinds

Missing == [kind |-> "Missing"]
Partial == [kind |-> "Partial"]
Whole(p) == [kind |-> "Whole", of |-> p]

NoProfile == 0
Defaults == [profile |-> NoProfile, bio |-> "", avatar |-> "Default", level |-> 1]

\* valid()
Valid(p) == p.bio # "Wide"

\* write(), then parse(): a text of two lines is written as two lines, and
\* std::getline() reads one.
Readable(f) == f.kind = "Whole" /\ f.of.bio # "Lines" /\ Valid(f.of)

-------------------------------------------------------------------------------
(* Launching.                                                                *)

Fault == /\ bounds.faults < MaxFaults
         /\ bounds' = [bounds EXCEPT !.faults = @ + 1]

\* What load() returns: the file's, or the defaults if it is missing, cannot be
\* read or parsed.
Loaded == {IF Readable(file) THEN file.of ELSE Defaults}
             \cup {d \in {Defaults} : Unreadable /\ file.kind = "Whole"}

\* Mistake: every launch is a first one.
DrawnAnew(p, n) == [p EXCEPT !.profile = n]

\* loadPreferences(): a profile without an identity is given one.
Identified(p, n) == IF p.profile = NoProfile THEN [p EXCEPT !.profile = n] ELSE p

Launch ==
  /\ app = "Down" /\ bounds.launches < MaxLaunches
  /\ \E p \in Loaded :
       /\ prefs' = Identified(p, bounds.launches + 1)
       /\ due' = (prefs' # p)
  /\ app' = "Running" /\ message' = ""
  /\ bounds' = [bounds EXCEPT !.launches = @ + 1]
  /\ UNCHANGED <<step, file, temporary>>

-------------------------------------------------------------------------------
(* Changes.                                                                  *)

Change == /\ app = "Running" /\ step = "Idle" /\ bounds.changes < MaxChanges
          /\ bounds' = [bounds EXCEPT !.changes = @ + 1]

\* Mistake: a biography is not worth saving.
SavesLevels(p) == due \/ p.level # prefs.level

\* The setters return if nothing changes, and start the timer if something does.
Starts(p) == due \/ p # prefs

Sets(p) == prefs' = p /\ due' = Starts(p)

\* A level, a window, a port, a name: bounded before it is stored.
SetLevel(n) ==
  /\ Change /\ Sets([prefs EXCEPT !.level = n])
  /\ UNCHANGED <<app, step, file, temporary, message>>

\* setProfileBio()
SetBio(b) ==
  /\ Change /\ Sets([prefs EXCEPT !.bio = b])
  /\ UNCHANGED <<app, step, file, temporary, message>>

\* setCustomAvatar(), once the picture has been written beside the file.
SetAvatar ==
  /\ Change /\ prefs' = [prefs EXCEPT !.avatar = "Custom"] /\ due' = TRUE
  /\ UNCHANGED <<app, step, file, temporary, message>>

\* clearCustomAvatar(), setProfileAvatarId()
ClearAvatar ==
  /\ Change /\ Sets([prefs EXCEPT !.avatar = "Default"])
  /\ UNCHANGED <<app, step, file, temporary, message>>

-------------------------------------------------------------------------------
(* Saving.                                                                   *)

\* Mistake: the file itself is opened and truncated.
TruncatedInPlace(f) == Partial

\* What opening the temporary file makes of the file.
Opened(f) == f

\* persistNow() and the beginning of save().
Saves ==
  /\ step = "Idle"
  /\ IF Valid(prefs)
     THEN \/ /\ step' = "Opened" /\ temporary' = Partial /\ file' = Opened(file)
             /\ UNCHANGED <<message, bounds>>
          \/ Fault /\ message' = "Failed" /\ UNCHANGED <<step, temporary, file>>
     ELSE message' = "Failed" /\ UNCHANGED <<step, temporary, file, bounds>>

\* The timer, and the sound check.
SaveNow ==
  /\ app = "Running" /\ Saves
  /\ due /\ due' = FALSE
  /\ UNCHANGED <<app, prefs>>

SoundcheckSaves ==
  /\ app = "Running" /\ Saves
  /\ UNCHANGED <<app, prefs, due>>

\* The stream is written and flushed.
Written ==
  /\ step = "Opened"
  /\ \/ step' = "Written" /\ temporary' = Whole(prefs) /\ UNCHANGED <<message, bounds>>
     \/ Fault /\ step' = "Idle" /\ message' = "Failed" /\ UNCHANGED temporary
  /\ UNCHANGED <<app, prefs, due, file>>

Outcome(succeeded) == IF succeeded THEN "Saved" ELSE "Failed"

\* replaceFile(), and the clean-up where it fails.
Replaced ==
  /\ step = "Written" /\ step' = "Idle"
  /\ temporary' = Missing
  /\ \/ file' = temporary /\ message' = Outcome(TRUE) /\ UNCHANGED bounds
     \/ Fault /\ message' = Outcome(FALSE) /\ UNCHANGED file
  /\ UNCHANGED <<app, prefs, due>>

\* The event loop ends, and main() saves once more.
Quit ==
  /\ app = "Running" /\ Saves
  /\ app' = "Quitting"
  /\ UNCHANGED <<prefs, due>>

Ended == app = "Quitting" /\ step = "Idle"

Exit ==
  /\ Ended /\ app' = "Down"
  /\ UNCHANGED <<prefs, due, step, file, temporary, message, bounds>>

\* The process dies.
Crash ==
  /\ app # "Down"
  /\ app' = "Down" /\ step' = "Idle" /\ due' = FALSE
  /\ UNCHANGED <<prefs, file, temporary, message, bounds>>

-------------------------------------------------------------------------------

Init ==
  /\ app = "Down" /\ prefs = Defaults /\ due = FALSE /\ step = "Idle"
  /\ file = Missing /\ temporary = Missing /\ message = ""
  /\ bounds = [changes |-> 0, launches |-> 0, faults |-> 0]

Next == \/ Launch
        \/ \E n \in 0 .. 1 : SetLevel(n)
        \/ \E b \in Bios : SetBio(b)
        \/ SetAvatar \/ ClearAvatar
        \/ SaveNow \/ SoundcheckSaves \/ Written \/ Replaced \/ Quit \/ Exit \/ Crash

\* The timer fires, and a save that has begun goes on.
Spec == Init /\ [][Next]_vars /\ WF_vars(SaveNow) /\ WF_vars(Written) /\ WF_vars(Replaced)

-------------------------------------------------------------------------------
(* Properties.                                                               *)

\* Wherever the process dies and whatever the disk refuses, the preference file
\* is missing or whole, never a part of one.  (save(), replaceFile())
FileIsWhole == file.kind # "Partial"

\* The identity in the file is the musician's for good: no launch after a crash or
\* a failed save draws another in its place.  Bios without "Lines", and a file that
\* can be opened: with either, it does.  (loadPreferences())
IdentityKept ==
  [][file.kind = "Whole" /\ file'.kind = "Whole" => file'.of.profile = file.of.profile]_vars

\* A change is in the file in the end, unless the application ends or says that
\* it could not be saved.  (scheduleSave())
ChangesAreKept == []<>(app # "Running" \/ message = "Failed" \/ file = Whole(prefs))
=============================================================================
