----------------------------- MODULE Machine_proofs -----------------------------
(***************************************************************************)
(* Proofs about one machine: what it keeps on its disk, whatever crashes   *)
(* (Preferences, Updater), and how fast it sends (SendRate).               *)
(*                                                                         *)
(* The preference file is never half written, and the identity in it stays *)
(* the same as long as every text that is typed fits on a line and JamLink *)
(* can open its own file.  Its invariant says what a save under way, the   *)
(* file and the profile in memory have to do with one another.  FileInv    *)
(* stands alone; the identity needs IdentityInv too, and its two           *)
(* assumptions: PreferencesTwoLines.cfg shows what happens without the     *)
(* first of them.                                                          *)
(*                                                                         *)
(* A whole JamLink is left whatever an update comes to, for any number of  *)
(* versions, updates, failures and crashes: what is put in the place of    *)
(* the installation was verified by the application and extracted whole;   *)
(* and from where the installation is moved aside until another is in its  *)
(* place, the backup is whole.                                             *)
(*                                                                         *)
(* Nobody is sent more than their link carries, for any number of places   *)
(* and any ladder of rates: the request of a place, taken or not, is what  *)
(* its controller is at.                                                   *)
(***************************************************************************)
EXTENDS Preferences, Updater, SendRate, WellFoundedInduction, TLAPS

Profiles == [profile : Nat, bio : Bios \cup {""}, avatar : {"Default", "Custom"},
             level : 0 .. 1]

Steps == {"Idle", "Opened", "Written"}

Counts == [changes : Nat, launches : Nat, faults : Nat]

\* What is written is whole when it takes the place of the file, and is what
\* the application has in memory.
FileInv ==
  /\ app \in {"Down", "Running", "Quitting"}
  /\ step \in Steps
  /\ bounds \in Counts
  /\ prefs \in Profiles
  /\ app = "Down" => step = "Idle"
  /\ step # "Idle" => Valid(prefs)
  /\ step = "Written" => temporary = Whole(prefs)
  /\ file = Missing \/ \E p \in Profiles : file = Whole(p)

\* A file that is there can be read back, and its identity is the one the
\* running application goes by.
IdentityInv ==
  /\ file # Missing => Readable(file) /\ file.of.profile # NoProfile
  /\ app # "Down" => prefs.profile # NoProfile
  /\ app # "Down" /\ file # Missing => prefs.profile = file.of.profile

-------------------------------------------------------------------------------
(* Lemmas.                                                                   *)

\* A missing file is not a whole one, and a whole one gives back what was written.
LEMMA FileKinds ==
  /\ Missing.kind = "Missing" /\ Partial.kind = "Partial"
  /\ \A p : Whole(p).kind = "Whole" /\ Whole(p).of = p /\ Whole(p) # Missing
<1>1. Missing.kind = "Missing" /\ Partial.kind = "Partial"
  BY DEF Missing, Partial
<1>2. \A p : Whole(p).kind = "Whole" /\ Whole(p).of = p
  BY DEF Whole
<1> QED BY <1>1, <1>2

\* What a launch reads is a profile, and one with an identity comes out of it.
LEMMA LaunchReads ==
  ASSUME FileInv, NEW p \in Loaded, NEW n \in Nat \ {0}
  PROVE  /\ p \in Profiles
         /\ Identified(p, n) \in Profiles
         /\ Identified(p, n).profile # NoProfile
<1>1. Defaults \in Profiles
  BY DEF Defaults, Profiles, NoProfile
<1>2. p \in Profiles
  BY <1>1, FileKinds DEF FileInv, Loaded, Readable
<1> QED BY <1>2 DEF Identified, Profiles, NoProfile

\* The bounds stay numbers, whichever of them is counted.
LEMMA CountsGrow ==
  ASSUME bounds \in Counts,
         \/ bounds' = [bounds EXCEPT !.changes = @ + 1]
         \/ bounds' = [bounds EXCEPT !.launches = @ + 1]
         \/ bounds' = [bounds EXCEPT !.faults = @ + 1]
         \/ UNCHANGED bounds
  PROVE  bounds' \in Counts
  BY DEF Counts

-------------------------------------------------------------------------------
(* The file.                                                                 *)

LEMMA FileInit == Init => FileInv
<1>1. Defaults \in Profiles
  BY DEF Defaults, Profiles, NoProfile
<1>2. [changes |-> 0, launches |-> 0, faults |-> 0] \in Counts
  BY DEF Counts
<1> QED BY <1>1, <1>2 DEF Init, FileInv, Steps

\* A change of the profile by the musician.
Edits == \/ \E n \in 0 .. 1 : SetLevel(n)
         \/ \E b \in Bios : SetBio(b)
         \/ SetAvatar \/ ClearAvatar

\* What every edit does, and nothing more is needed of it.
LEMMA EditsDo ==
  ASSUME FileInv, Edits
  PROVE  /\ app = "Running" /\ step = "Idle"
         /\ prefs' \in Profiles /\ prefs'.profile = prefs.profile
         /\ bounds' \in Counts
         /\ UNCHANGED <<app, step, file, temporary>>
<1>1. Change /\ UNCHANGED <<app, step, file, temporary>>
  BY DEF Edits, SetLevel, SetBio, SetAvatar, ClearAvatar
<1>2. bounds' \in Counts
  BY <1>1, CountsGrow DEF Change, FileInv
<1>3. \/ \E n \in 0 .. 1 : prefs' = [prefs EXCEPT !.level = n]
      \/ \E b \in Bios : prefs' = [prefs EXCEPT !.bio = b]
      \/ prefs' = [prefs EXCEPT !.avatar = "Custom"]
      \/ prefs' = [prefs EXCEPT !.avatar = "Default"]
  BY DEF Edits, SetLevel, SetBio, SetAvatar, ClearAvatar, Sets
<1>4. prefs \in Profiles
  BY DEF FileInv
<1>5. prefs' \in Profiles /\ prefs'.profile = prefs.profile
  BY <1>3, <1>4 DEF Profiles
<1> QED BY <1>1, <1>2, <1>5 DEF Change

\* A save that begins or is refused.
Begins == SaveNow \/ SoundcheckSaves \/ Quit

\* What the beginning of a save does.
LEMMA BeginsDo ==
  ASSUME FileInv, Begins
  PROVE  /\ app = "Running" /\ app' \in {"Running", "Quitting"}
         /\ step = "Idle" /\ step' \in {"Idle", "Opened"}
         /\ step' # "Idle" => Valid(prefs)
         /\ bounds' \in Counts
         /\ UNCHANGED <<prefs, file>>
<1>1. Saves /\ app = "Running" /\ app' \in {"Running", "Quitting"} /\ prefs' = prefs
  BY DEF Begins, SaveNow, SoundcheckSaves, Quit
<1> QED BY <1>1 DEF Saves, Fault, Opened, FileInv, Counts

LEMMA FileStep == FileInv /\ [Next]_vars => FileInv'
<1> SUFFICES ASSUME FileInv, [Next]_vars PROVE FileInv'
  OBVIOUS
<1>1. CASE Launch
  <2>1. PICK p \in Loaded : prefs' = Identified(p, bounds.launches + 1)
    BY <1>1 DEF Launch
  <2>2. prefs' \in Profiles
    <3>1. bounds.launches + 1 \in Nat \ {0}
      BY DEF FileInv, Counts
    <3> QED BY <2>1, <3>1, LaunchReads
  <2>3. bounds' \in Counts
    BY <1>1, CountsGrow DEF Launch, FileInv
  <2>4. app' = "Running" /\ step' = "Idle" /\ file' = file
    BY <1>1 DEF Launch, FileInv
  <2> QED BY <2>2, <2>3, <2>4 DEF FileInv, Steps
<1>2. CASE Edits
  BY <1>2, EditsDo DEF FileInv, Steps
<1>3. CASE Begins
  BY <1>3, BeginsDo DEF FileInv, Steps, Valid
<1>4. CASE Written
  <2>1. bounds' \in Counts
    BY <1>4, CountsGrow DEF Written, Fault, FileInv
  <2>2. /\ step = "Opened" /\ step' \in {"Idle", "Written"}
        /\ step' = "Written" => temporary' = Whole(prefs)
        /\ UNCHANGED <<app, prefs, file>>
    BY <1>4 DEF Written
  <2> QED BY <2>1, <2>2 DEF FileInv, Steps, Valid
<1>5. CASE Replaced
  <2>1. bounds' \in Counts
    BY <1>5, CountsGrow DEF Replaced, Fault, FileInv
  <2>2. step = "Written" /\ step' = "Idle" /\ file' \in {temporary, file}
        /\ UNCHANGED <<app, prefs>>
    BY <1>5 DEF Replaced
  <2> QED BY <2>1, <2>2 DEF FileInv, Steps
<1>6. CASE Exit
  BY <1>6 DEF Exit, Ended, FileInv, Steps
<1>7. CASE Crash
  BY <1>7 DEF Crash, FileInv, Steps
<1>8. CASE UNCHANGED vars
  BY <1>8 DEF vars, FileInv, Valid
<1> QED BY <1>1, <1>2, <1>3, <1>4, <1>5, <1>6, <1>7, <1>8 DEF Next, Edits, Begins

\* What is saved, what is on the disk and what is in memory agree at every step
\* of save(), for any texts, any number of launches and failures.
THEOREM FileCorrect == Spec => []FileInv
  BY FileInit, FileStep, PTL DEF Spec

\* Wherever the process dies and whatever the disk refuses, the preference file
\* is missing or whole.  (save(), replaceFile())
THEOREM NeverHalfWritten == Spec => []FileIsWhole
<1>1. FileInv => FileIsWhole
  BY FileKinds DEF FileInv, FileIsWhole
<1> QED BY <1>1, FileCorrect, PTL

-------------------------------------------------------------------------------
(* The identity.                                                             *)

LEMMA IdentityInit == Init => IdentityInv
  BY DEF Init, IdentityInv

LEMMA IdentityStep ==
  ASSUME "Lines" \notin Bios, ~Unreadable
  PROVE  FileInv /\ IdentityInv /\ [Next]_vars => IdentityInv'
<1> SUFFICES ASSUME FileInv, IdentityInv, [Next]_vars PROVE IdentityInv'
  OBVIOUS
<1>1. CASE Launch
  <2>1. PICK p \in Loaded : prefs' = Identified(p, bounds.launches + 1)
    BY <1>1 DEF Launch
  <2>2. prefs'.profile # NoProfile
    <3>1. bounds.launches + 1 \in Nat \ {0}
      BY DEF FileInv, Counts
    <3> QED BY <2>1, <3>1, LaunchReads
  <2>3. file # Missing => prefs'.profile = file.of.profile
    <3>1. SUFFICES ASSUME file # Missing PROVE prefs' = file.of
      OBVIOUS
    <3>2. p = file.of
      BY <3>1 DEF IdentityInv, Loaded
    <3> QED BY <2>1, <3>1, <3>2 DEF IdentityInv, Identified
  <2>4. app' = "Running" /\ file' = file
    BY <1>1 DEF Launch
  <2> QED BY <2>2, <2>3, <2>4 DEF IdentityInv, Readable, Valid
<1>2. CASE Edits
  BY <1>2, EditsDo DEF IdentityInv, Readable, Valid
<1>3. CASE Begins
  BY <1>3, BeginsDo DEF IdentityInv, Readable, Valid
<1>4. CASE Written
  BY <1>4 DEF Written, IdentityInv, Readable, Valid
<1>5. CASE Replaced
  <2>1. step = "Written" /\ file' \in {temporary, file} /\ UNCHANGED <<app, prefs>>
    BY <1>5 DEF Replaced
  <2>2. temporary = Whole(prefs) /\ app # "Down" /\ Valid(prefs) /\ prefs.bio # "Lines"
    BY <2>1 DEF FileInv, Profiles
  <2>3. CASE file' = temporary
    BY <2>1, <2>2, <2>3, FileKinds DEF IdentityInv, Readable
  <2>4. CASE file' = file
    BY <2>1, <2>4 DEF IdentityInv, Readable, Valid
  <2> QED BY <2>1, <2>3, <2>4
<1>6. CASE Exit
  BY <1>6 DEF Exit, IdentityInv, Readable, Valid
<1>7. CASE Crash
  BY <1>7 DEF Crash, IdentityInv, Readable, Valid
<1>8. CASE UNCHANGED vars
  BY <1>8 DEF vars, IdentityInv, Readable, Valid
<1> QED BY <1>1, <1>2, <1>3, <1>4, <1>5, <1>6, <1>7, <1>8 DEF Next, Edits, Begins

\* Where no text of two lines is typed and JamLink can open its own file, the
\* identity in the file stays the musician's, through crashes in the middle of a
\* save, refused saves and launches without number.  (loadPreferences())
THEOREM IdentityStays ==
  ASSUME "Lines" \notin Bios, ~Unreadable
  PROVE  Spec => IdentityKept
<1>1. FileInv /\ IdentityInv /\ [Next]_vars
        => [file.kind = "Whole" /\ file'.kind = "Whole"
              => file'.of.profile = file.of.profile]_vars
  <2> SUFFICES ASSUME FileInv, IdentityInv, Next,
                      file.kind = "Whole", file'.kind = "Whole"
               PROVE  file'.of.profile = file.of.profile
    OBVIOUS
  <2>1. CASE Replaced
    <3>1. file' \in {temporary, file} /\ step = "Written"
      BY <2>1 DEF Replaced
    <3>2. temporary = Whole(prefs) /\ app # "Down" /\ file # Missing
      BY <3>1, FileKinds DEF FileInv
    <3>3. prefs.profile = file.of.profile
      BY <3>2 DEF IdentityInv
    <3> QED BY <3>1, <3>2, <3>3, FileKinds
  <2>2. CASE ~Replaced
    <3>1. file' = file
      BY <2>2, EditsDo, BeginsDo DEF Next, Edits, Begins, Launch, Written, Exit, Crash
    <3> QED BY <3>1
  <2> QED BY <2>1, <2>2
<1>2. Spec => []IdentityInv
  BY IdentityInit, IdentityStep, FileCorrect, PTL DEF Spec
<1>3. Spec => [][Next]_vars
  BY PTL DEF Spec
<1> QED BY <1>1, <1>2, <1>3, FileCorrect, PTL DEF IdentityKept

-------------------------------------------------------------------------------
(* The installation.                                                         *)

Contents == Nat

TypeInv == /\ disk \in [target : Contents, stage : Contents, backup : Contents]
           /\ archive \in Versions \cup {Nothing}
           /\ published \in Versions
           /\ manager \in [at : {"Idle", "Checking", "Checksum", "Archive", "Restarting"},
                           candidate : Versions \cup {NoCandidate}]

\* Only what was found to be a release is asked for.
CandidateInv == manager.at \in {"Checksum", "Archive"} => manager.candidate # NoCandidate

\* Where the helper is, and what is whole then.
HelperInv ==
  /\ helper \in {"Waiting", "Extracting", "Extracts", "Clearing", "Preserving"}
       => disk.target \in Versions
  /\ helper \in {"Clearing", "Preserving", "Activating"} => disk.stage \in Versions
  /\ helper = "Activating" => disk.backup \in Versions

UpdateInv == TypeInv /\ CandidateInv /\ HelperInv /\ InstallationKept

-------------------------------------------------------------------------------

LEMMA UpdateInitially == ASSUME Latest \in Nat \ {0} PROVE UpdateInit => UpdateInv
BY DEF UpdateInit, UpdateInv, TypeInv, CandidateInv, HelperInv, InstallationKept, Manager,
       Versions, Nothing, NoCandidate, Damaged, Contents

\* The application deals with the archive alone, and hands over a verified one.
LEMMA AppStep ==
  ASSUME Latest \in Nat \ {0}, UpdateInv,
         \/ LaunchProgram \/ EnterRoom \/ LeaveRoom \/ AppEnds \/ CheckNow \/ CheckAnswers
         \/ Install \/ ChecksumAnswers \/ ArchiveDone \/ Publish \/ PowerLoss
  PROVE  UpdateInv'
<1> USE DEF UpdateInv, TypeInv, CandidateInv, HelperInv, InstallationKept, Manager,
            Versions, Nothing, NoCandidate, Damaged, Contents, Idle
<1>1. CASE LaunchProgram
  BY <1>1 DEF LaunchProgram
<1>2. CASE EnterRoom \/ LeaveRoom
  BY <1>2 DEF EnterRoom, LeaveRoom
<1>3. CASE AppEnds
  BY <1>3 DEF AppEnds
<1>4. CASE CheckNow \/ CheckAnswers
  BY <1>4 DEF CheckNow, CheckAnswers, Candidate
<1>5. CASE Install \/ ChecksumAnswers
  BY <1>5 DEF Install, ChecksumAnswers
<1>6. CASE ArchiveDone
  BY <1>6 DEF ArchiveDone, Verified
<1>7. CASE Publish
  BY <1>7 DEF Publish
<1>8. CASE PowerLoss
  BY <1>8 DEF PowerLoss
<1> QED BY <1>1, <1>2, <1>3, <1>4, <1>5, <1>6, <1>7, <1>8

LEMMA HelperStep == ASSUME Latest \in Nat \ {0}, UpdateInv, Helper PROVE UpdateInv'
<1> USE DEF UpdateInv, TypeInv, CandidateInv, HelperInv, InstallationKept, Manager,
            Versions, Nothing, NoCandidate, Damaged, Contents, At, Ends, OthersUnchanged
<1>1. CASE LookForTarget
  BY <1>1 DEF LookForTarget
<1>2. CASE WaitForParent
  BY <1>2 DEF WaitForParent
<1>3. CASE Clears
  BY <1>3 DEF Clears
<1>4. CASE Extracts
  BY <1>4 DEF Extracts
<1>5. CASE RemoveBackup
  BY <1>5 DEF RemoveBackup
<1>6. CASE Preserve
  <2>1. CASE Ends
    BY <1>6, <2>1 DEF Preserve
  <2>2. CASE helper' = "Activating"
    <3>1. disk' = [disk EXCEPT !.target = 0, !.backup = disk.target] /\ UNCHANGED manager
      BY <1>6, <2>2 DEF Preserve, Preserved
    <3>2. disk'.target = 0 /\ disk'.stage = disk.stage /\ disk'.backup = disk.target
          /\ disk' \in [target : Nat, stage : Nat, backup : Nat]
      BY <3>1
    <3> QED BY <1>6, <2>2, <3>1, <3>2 DEF Preserve
  <2> QED BY <1>6, <2>1, <2>2 DEF Preserve
<1>7. CASE Activate
  <2>1. At("Activating") /\ disk.stage \in Versions /\ disk.backup \in Versions
        /\ UNCHANGED <<manager, archive, published>>
    BY <1>7 DEF Activate
  <2>2. CASE disk' = [disk EXCEPT !.target = disk.stage, !.stage = Nothing]
             /\ helper' = "Starting"
    <3>1. disk' = [target |-> disk.stage, stage |-> Nothing, backup |-> disk.backup]
      BY <2>2
    <3> QED BY <2>1, <2>2, <3>1
  <2>3. CASE disk' = disk /\ helper' = "None"
    BY <2>1, <2>3
  <2>4. CASE disk' = [disk EXCEPT !.target = disk.backup, !.backup = Nothing]
             /\ helper' = "None"
    <3>1. disk' = [target |-> disk.backup, stage |-> disk.stage, backup |-> Nothing]
      BY <2>4
    <3> QED BY <2>1, <2>4, <3>1
  <2> QED BY <1>7, <2>2, <2>3, <2>4 DEF Activate
<1>8. CASE Start
  BY <1>8 DEF Start
<1> QED BY <1>1, <1>2, <1>3, <1>4, <1>5, <1>6, <1>7, <1>8 DEF Helper

\* What an update has reached, and what is whole then.
THEOREM UpdateCorrect ==
  ASSUME Latest \in Nat \ {0}
  PROVE  UpdateSpec => []UpdateInv
<1>1. UpdateInv /\ [UpdateNext]_updateVars => UpdateInv'
  <2>1. CASE UNCHANGED updateVars
    BY <2>1 DEF updateVars, UpdateInv, TypeInv, CandidateInv, HelperInv, InstallationKept
  <2> QED BY <2>1, AppStep, HelperStep DEF UpdateNext
<1> QED BY UpdateInitially, <1>1, PTL DEF UpdateSpec

\* Whatever fails and wherever the machine goes down, a whole JamLink is where it
\* is started from or beside it, and nothing that is not whole is ever started.
\* (wmain(), finishArchiveDownload())
THEOREM SomethingWholeIsLeft ==
  ASSUME Latest \in Nat \ {0}
  PROVE  UpdateSpec => []InstallationKept
<1>1. UpdateInv => InstallationKept
  BY DEF UpdateInv
<1> QED BY <1>1, UpdateCorrect, PTL

-------------------------------------------------------------------------------
(* SendRate.                                                                 *)

Asks == {NoRequest} \union 0 .. Floor

Controllers == [step : 0 .. Floor, bad : Nat, clean : Nat, reduced : BOOLEAN]

Places == [used : BOOLEAN, connected : BOOLEAN, controller : Controllers,
           pending : Asks, requested : Asks]

\* What was last asked for, or what is asked for now, is what the controller is
\* at; a fresh controller has not asked, and is at the fastest.
Asked(slot) ==
  IF slot.pending # NoRequest THEN slot.pending = slot.controller.step
  ELSE \/ slot.requested = slot.controller.step
       \/ slot.requested = NoRequest /\ slot.controller.step = 0

RateInv == /\ slots \in [Slots -> Places] /\ encoder \in Nat
           /\ \A s \in Slots : Asked(slots[s])

\* Every set of numbers has a least one.
LEMMA Least ==
  ASSUME NEW T \in SUBSET Nat, T # {}
  PROVE  \E n \in T : \A m \in T : n <= m
<1> DEFINE R == OpToRel(<, Nat)
<1>1. IsWellFoundedOn(R, Nat)
  BY NatLessThanWellFounded
<1>2. \A x, y \in Nat : x < y => <<x, y>> \in R
  BY DEF OpToRel
<1>3. T \subseteq Nat /\ \A n \in T : n \in Nat
  OBVIOUS
<1> HIDE DEF R
<1>4. PICK x \in T : \A y \in T : ~(<<y, x>> \in R)
  BY <1>1, <1>3, WFMin
<1>5. SUFFICES ASSUME NEW m \in T PROVE x <= m
  OBVIOUS
<1>6. ~(m < x)
  BY <1>2, <1>3, <1>4
<1> QED BY <1>3, <1>6

\* The greatest of some requests is one of them, and none is greater.
LEMMA GreatestAsk ==
  ASSUME NEW S \in SUBSET Asks, S # {}
  PROVE  Max(S) \in S /\ \A x \in S : x <= Max(S)
<1> DEFINE Above == {n \in Nat : \A x \in S : x < n}
<1>1. \A x \in S : x \in Int /\ -1 <= x /\ x <= Floor
  BY RateAssumption DEF Asks, NoRequest
<1>2. Floor + 1 \in Above
  BY <1>1, RateAssumption
<1>3. PICK n \in Above : \A k \in Above : n <= k
  BY <1>2, Least
<1>4. n - 1 \in S
  <2>1. CASE n = 0
    BY <1>1, <1>3, <2>1
  <2>2. CASE n # 0
    <3>1. SUFFICES ASSUME n - 1 \notin S PROVE FALSE
      OBVIOUS
    <3>2. n - 1 \in Nat /\ \A x \in S : x < n - 1
      BY <1>1, <2>2, <3>1
    <3> QED BY <1>3, <3>2
  <2> QED BY <2>1, <2>2
<1>5. \A x \in S : n - 1 >= x
  BY <1>1
<1>6. \E x \in S : \A y \in S : x >= y
  BY <1>4, <1>5
<1>7. Max(S) \in S /\ \A y \in S : Max(S) >= y
  BY <1>6 DEF Max
<1> QED BY <1>1, <1>7

\* A report moves a controller within the ladder.
LEMMA ObservedTyped ==
  ASSUME NEW c \in Controllers, NEW report \in Reports
  PROVE  Observed(c, report) \in Controllers
<1>1. c.step \in 0 .. Floor /\ c.bad \in Nat /\ c.clean \in Nat
  BY DEF Controllers
<1>2. Worse(c) \in Controllers /\ Better(c) \in Controllers
  <2>1. \A n, limit \in Nat : Until(n, limit) \in Nat
    BY DEF Until
  <2>2. Until(c.bad, BadToStepDown) \in Nat /\ Until(c.clean, CleanToStepUp) \in Nat
    BY <1>1, <2>1, RateAssumption
  <2> QED BY <2>2 DEF Worse, Better, Controllers
<1>3. ASSUME NEW d \in Controllers
      PROVE  SteppedDown(d) \in Controllers /\ SteppedUp(d) \in Controllers
  <2>1. d.step \in 0 .. Floor
    BY DEF Controllers
  <2>2. d.step < Floor => d.step + 1 \in 0 .. Floor
    BY <2>1, RateAssumption
  <2>3. d.step > 0 => d.step - 1 \in 0 .. Floor
    BY <2>1, RateAssumption
  <2>4. SteppedDown(d) \in Controllers
    BY <2>2 DEF SteppedDown, Controllers
  <2>5. SteppedUp(d) \in Controllers
    BY <2>3 DEF SteppedUp, Controllers
  <2> QED BY <2>4, <2>5
<1> QED BY <1>2, <1>3 DEF Observed, Reports

\* After a pass each place's request is the step its controller is at, or there
\* never was one.
LEMMA TakenIs ==
  ASSUME NEW slot \in Places, Asked(slot)
  PROVE  /\ Taken(slot) \in Places /\ Asked(Taken(slot))
         /\ Taken(slot).controller = slot.controller
         /\ \/ Taken(slot).requested = slot.controller.step
            \/ Taken(slot).requested = NoRequest /\ slot.controller.step = 0
<1>1. NoRequest \in Asks
  BY DEF Asks
<1>2. Taken(slot) \in Places
  BY <1>1 DEF Taken, Places
<1>3. /\ Taken(slot).pending = NoRequest /\ Taken(slot).controller = slot.controller
      /\ Taken(slot).requested = IF slot.pending # NoRequest THEN slot.pending ELSE slot.requested
  BY DEF Taken, Places
<1> QED BY <1>2, <1>3 DEF Asked

\* A place of one's own, and one nobody has had.
LEMMA PreparedIs ==
  /\ \A answers \in BOOLEAN : [Prepared EXCEPT !.connected = answers] \in Places
  /\ \A answers \in BOOLEAN : Asked([Prepared EXCEPT !.connected = answers])
  /\ Unused \in Places /\ Asked(Unused)
<1>1. NoRequest \in Asks
  BY DEF Asks
<1>2. Controller \in Controllers
  BY RateAssumption DEF Controller, Controllers
<1>3. Prepared \in Places
  BY <1>1, <1>2 DEF Prepared, Places
<1>4. Unused \in Places
  BY <1>3 DEF Unused, Places
<1>5. \A answers \in BOOLEAN : [Prepared EXCEPT !.connected = answers] \in Places
  BY <1>3 DEF Places
<1> QED BY <1>4, <1>5 DEF Asked, Prepared, Unused, Controller

LEMMA RateStarts == RateInit => RateInv
BY PreparedIs DEF RateInit, RateInv

\* One place changes.
LEMMA OnePlace ==
  ASSUME RateInv, NEW s \in Slots, NEW x \in Places, Asked(x),
         slots' = [slots EXCEPT ![s] = x], UNCHANGED encoder
  PROVE  RateInv'
BY DEF RateInv

LEMMA RateStep == RateInv /\ [RateNext]_rateVars => RateInv'
<1> SUFFICES ASSUME RateInv, [RateNext]_rateVars PROVE RateInv'
  OBVIOUS
<1>0. \A s \in Slots : slots[s] \in Places /\ Asked(slots[s])
  BY DEF RateInv
<1>1. ASSUME NEW s \in Slots, NEW report \in Reports, Ping(s, report) PROVE RateInv'
  <2> DEFINE old == slots[s].controller
             heard == Observed(old, report)
             asks == IF heard.step # old.step THEN heard.step ELSE slots[s].pending
             x == [slots[s] EXCEPT !.controller = heard, !.pending = asks]
  <2>1. heard \in Controllers
    BY <1>0, ObservedTyped DEF Places
  <2>2. slots' = [slots EXCEPT ![s] = x] /\ UNCHANGED encoder
    BY <1>1 DEF Ping, RateInv, Places
  <2> HIDE DEF heard
  <2>3. asks \in Asks
    BY <1>0, <2>1 DEF Asks, Controllers, Places
  <2>4. x \in Places
    BY <1>0, <2>1, <2>3 DEF Places
  <2>5. x.controller = heard /\ x.pending = asks /\ x.requested = slots[s].requested
    BY <1>0 DEF Places
  <2>6. heard.step # NoRequest
    BY <2>1, RateAssumption DEF Controllers, NoRequest
  <2>7. Asked(x)
    BY <1>0, <2>5, <2>6 DEF Asked
  <2> HIDE DEF x
  <2> QED BY <2>2, <2>4, <2>7, OnePlace
<1>2. ASSUME NEW s \in Slots, NEW answers \in BOOLEAN, Admit(s, answers) PROVE RateInv'
  BY <1>2, PreparedIs, OnePlace DEF Admit
<1>3. ASSUME NEW s \in Slots, Joins(s) \/ Expire(s) PROVE RateInv'
  <2>1. PICK on \in BOOLEAN : slots' = [slots EXCEPT ![s].connected = on] /\ UNCHANGED encoder
    BY <1>3 DEF Joins, Expire
  <2> DEFINE x == [slots[s] EXCEPT !.connected = on]
  <2>2. x \in Places /\ Asked(x)
    BY <1>0 DEF Places, Asked
  <2>3. slots' = [slots EXCEPT ![s] = x]
    BY <2>1 DEF RateInv
  <2> HIDE DEF x
  <2> QED BY <2>1, <2>2, <2>3, OnePlace
<1>4. CASE Drain
  <2>1. /\ slots' = [s \in Slots |-> IF slots[s].connected THEN Taken(slots[s]) ELSE slots[s]]
        /\ encoder' = IF Slowest(Connected) = NoRequest THEN encoder ELSE Slowest(Connected)
        /\ Connected # {}
    BY <1>4 DEF Drain
  <2>2. \A s \in Slots : slots'[s] \in Places /\ Asked(slots'[s])
    BY <1>0, <2>1, TakenIs
  <2>3. slots' \in [Slots -> Places]
    BY <1>0, <2>1, TakenIs
  <2> DEFINE all == {slots'[s].requested : s \in Connected}
  <2>4. all \in SUBSET Asks /\ all # {}
    BY <2>1, <2>2 DEF Connected, Places
  <2>5. Slowest(Connected) \in Asks
    BY <2>4, GreatestAsk DEF Slowest
  <2>6. encoder' \in Nat
    BY <2>1, <2>5, RateAssumption DEF Asks, RateInv
  <2> QED BY <2>2, <2>3, <2>6 DEF RateInv
<1>5. CASE Settle \/ UNCHANGED rateVars
  BY <1>5 DEF Settle, rateVars, RateInv
<1> QED BY <1>1, <1>2, <1>3, <1>4, <1>5 DEF RateNext

\* Every place's request is what its controller is at, for any number of places,
\* any ladder and any reports.  (observe(), drainOutgoingAudio())
THEOREM RateCorrect == RateSpec => []RateInv
BY RateStarts, RateStep, PTL DEF RateSpec

\* When audio is sent, it is at a rate no faster than that of anybody in session,
\* who may have asked long ago, and been away since.  (drainOutgoingAudio())
THEOREM NobodyOutrun == RateSpec => SlowestIsHeard
<1>1. ASSUME RateInv, [RateNext]_rateVars
      PROVE  [Drain => \A s \in Connected : encoder' >= slots[s].controller.step]_rateVars
  <2>1. SUFFICES ASSUME Drain, NEW s \in Connected PROVE encoder' >= slots[s].controller.step
    OBVIOUS
  <2>2. \A t \in Slots : slots[t] \in Places /\ Asked(slots[t])
    BY <1>1 DEF RateInv
  <2>3. /\ slots' = [t \in Slots |-> IF slots[t].connected THEN Taken(slots[t]) ELSE slots[t]]
        /\ encoder' = IF Slowest(Connected) = NoRequest THEN encoder ELSE Slowest(Connected)
    BY <2>1 DEF Drain
  <2>4. s \in Slots /\ slots[s].connected /\ slots'[s] = Taken(slots[s])
    BY <2>3 DEF Connected
  <2>5. \/ slots'[s].requested = slots[s].controller.step
        \/ slots'[s].requested = NoRequest /\ slots[s].controller.step = 0
    BY <2>2, <2>4, TakenIs
  <2> DEFINE all == {slots'[t].requested : t \in Connected}
  <2>6. \A t \in Connected : slots'[t] \in Places
    BY <2>2, <2>3, TakenIs DEF Connected
  <2>7. all \in SUBSET Asks /\ all # {} /\ slots'[s].requested \in all
    BY <2>6 DEF Places
  <2>8. slots'[s].requested <= Slowest(Connected) /\ Slowest(Connected) \in Asks
    BY <2>7, GreatestAsk DEF Slowest
  <2>9. slots[s].controller.step \in 0 .. Floor
    BY <2>2, <2>4 DEF Places, Controllers
  <2> QED BY <1>1, <2>3, <2>5, <2>8, <2>9, RateAssumption DEF Asks, NoRequest, RateInv
<1> QED BY <1>1, RateCorrect, PTL DEF RateSpec, SlowestIsHeard
=================================================================================
