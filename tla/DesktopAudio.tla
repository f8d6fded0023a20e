----------------------------- MODULE DesktopAudio -----------------------------
(***************************************************************************)
(* How the desktop application keeps the devices the musician chose open   *)
(* (app_controller.cpp).  Everything here runs on the application's        *)
(* thread, one handler after another, but the handlers follow each other   *)
(* in no fixed order: the musician chooses devices, tests the setup,       *)
(* enters and leaves rooms; timers reopen the devices after a choice,      *)
(* after a loss, and look at the service thirty times a second; devices    *)
(* come and go, and drop audio.                                            *)
(*                                                                         *)
(* Devices are numbered, and listed in the order of their numbers.  An     *)
(* interface has an input and an output and belongs to ASIO; a microphone  *)
(* and a pair of speakers belong to Windows.  The service is one step here *)
(* (AudioEngine has its threads).                                          *)
(***************************************************************************)
EXTENDS Integers, Sequences, FiniteSets, SequencesExt

CONSTANTS Interfaces,  \* ASIO interfaces
          Mics,        \* Windows' inputs
          Speakers,    \* Windows' outputs
          Sizes,       \* the buffer sizes each output offers, in frames
          Preferred,   \* the size it recommends
          MaxCalls,    \* bound: calls of the musician, sound checks apart
          MaxChanges   \* bound: times a device comes, goes or is reset

Devices == Interfaces \cup Mics \cup Speakers

ASSUME DevicesAssumption ==
  /\ Devices \subseteq Nat \ {0} /\ IsFiniteSet(Devices)
  /\ Interfaces \cap Mics = {} /\ Interfaces \cap Speakers = {} /\ Mics \cap Speakers = {}
  /\ \A d \in Interfaces \cup Speakers :
        Preferred[d] \in Sizes[d] /\ Sizes[d] \subseteq Nat \ {0} /\ IsFiniteSet(Sizes[d])

VARIABLES present,  \* the devices this computer has now
          lists,    \* instrumentOptions_ and voiceOptions_, outputOptions_, devicesAvailable_
          chosen,   \* instrumentIndex_, voiceIndex_ and outputIndex_
          buffer,   \* bufferSizeValues_, bufferSizeIndex_, autoBufferFrames_, autoBufferRaised_
          saved,    \* the selections in preferences_
          ready,    \* ReadinessTracker
          service,  \* the audio service
          seen,     \* audioTelemetry_
          timers,   \* audioRestartTimer_, telemetryTimer_, saveTimer_, retries on their way
          session,  \* whether there is a room
          alive,    \* FALSE once the application has read past the end of a list
          bounds    \* how often the musician and the devices have acted

vars == <<present, lists, chosen, buffer, saved, ready, service, seen, timers, session,
          alive, bounds>>

\* The placeholder of an empty list, and what a read past the end makes of itself.
NoDevice == 0
Automatic == 0

Roles == {"instrument", "voice", "output"}

At(list, i) == IF i \in DOMAIN list THEN list[i] ELSE NoDevice
ListOf(lst, role) == IF role = "output" THEN lst.outputs ELSE lst.inputs
DeviceOf(lst, pick, role) == At(ListOf(lst, role), pick[role])

\* The size the musician chose, and the one the device is opened with.
SizeOf(buf) == At(buf.ladder, buf.at)
EffectiveFrames(buf) == IF SizeOf(buf) = Automatic THEN buf.auto ELSE SizeOf(buf)

Sorted(S) == CHOOSE s \in [1 .. Cardinality(S) -> S] : \A i, j \in DOMAIN s : i < j => s[i] < s[j]

\* loadDeviceInventory()
Inventory(devs) ==
  LET ins  == devs \cap (Interfaces \cup Mics)
      outs == devs \cap (Interfaces \cup Speakers)
  IN IF ins # {} /\ outs # {}
     THEN [inputs |-> Sorted(ins), outputs |-> Sorted(outs), available |-> TRUE]
     ELSE [inputs |-> <<NoDevice>>, outputs |-> <<NoDevice>>, available |-> FALSE]

\* resolveDevice() and resolveScalar(): the first entry where the value is missing.
Resolve(list, value) ==
  IF \E i \in DOMAIN list : list[i] = value
  THEN CHOOSE i \in DOMAIN list : list[i] = value /\ \A j \in 1 .. i - 1 : list[j] # value
  ELSE 1

Resolved(lst, prefs) == [role \in Roles |-> Resolve(ListOf(lst, role), prefs[role])]

\* applySelectionsToPreferences()
Selections(lst, pick, buf) ==
  [kept \in Roles \cup {"size"} |-> IF kept = "size" THEN SizeOf(buf) ELSE DeviceOf(lst, pick, kept)]

\* Mistake: opening the device again begins at the recommended size.
ForgetsRaise(buf, d) == FALSE

\* Whether a raise belongs to this same ladder, and is kept.
KeepsRaise(buf, d) ==
  buf.ladder = <<Automatic>> \o Sorted(Sizes[d]) /\ buf.raised /\ buf.auto \in Sizes[d]

\* installBufferSizeOptions() and updateOutputCapabilities()
Installed(buf, d) ==
  LET ladder == <<Automatic>> \o Sorted(Sizes[d])
      keep   == KeepsRaise(buf, d)
  IN [ladder |-> ladder,
      at     |-> IF buf.at > Len(ladder) THEN Len(ladder) ELSE buf.at,
      auto   |-> IF keep THEN buf.auto ELSE Preferred[d],
      raised |-> keep]

\* evaluateAudioTopology(): the combinations that run.
Supported(setup) ==
  \/ setup.instrument \in Mics /\ setup.voice \in Mics /\ setup.output \in Speakers
  \/ /\ setup.instrument \in Interfaces /\ setup.output = setup.instrument
     /\ setup.voice \in Mics \cup {setup.instrument}

Unverified == <<>>

\* fingerprint() of a component.
Fingerprint(lst, pick, buf, role) == <<DeviceOf(lst, pick, role), SizeOf(buf)>>

\* updateReadinessConfiguration(): a component with another fingerprint is no
\* longer verified.
Configured(r, lst, pick, buf) ==
  LET prints == [role \in Roles |-> Fingerprint(lst, pick, buf, role)]
  IN [prints   |-> prints,
      verified |-> [role \in Roles |-> IF r.prints[role] = prints[role]
                                       THEN r.verified[role] ELSE Unverified]]

\* allVerified()
AllReady == ready.verified = ready.prints

-------------------------------------------------------------------------------
(* The service.                                                              *)

Nothing == [part \in Roles \cup {"frames"} |-> IF part = "frames" THEN 0 ELSE NoDevice]
Stopped == [state |-> "Stopped", setup |-> Nothing, mic |-> "None", dropped |-> FALSE]

\* start() with these selections.  mic: the thread of a microphone of Windows'
\* beside ASIO.
Opened(lst, pick, buf) ==
  LET setup == [part \in Roles \cup {"frames"} |->
                  IF part = "frames" THEN EffectiveFrames(buf) ELSE DeviceOf(lst, pick, part)]
      hybrid == setup.output \in Interfaces /\ setup.voice \in Mics
  IN IF Supported(setup) /\ \A role \in Roles : setup[role] \in present
     THEN [state |-> "Running", setup |-> setup, dropped |-> FALSE,
           mic |-> IF hybrid THEN "Running" ELSE "None"]
     ELSE [Stopped EXCEPT !.state = "Failed"]

\* telemetry(): the state, and secondaryVoiceActive.
Telemetry(svc) == [state |-> svc.state, voice |-> svc.mic \in {"None", "Running"}]

\* restartAudio(), given the lists, indices, sizes and timers it finds.
Reopen(lst, pick, buf, t) ==
  IF lst.available
  THEN /\ service' = Opened(lst, pick, buf)
       /\ seen' = Telemetry(service')
       /\ timers' = [t EXCEPT !.poll = @ \/ service'.state = "Running"]
  ELSE timers' = t /\ UNCHANGED <<service, seen>>

\* scheduleAudioRestart()
Schedule(t) ==
  IF lists.available
  THEN /\ service' = Stopped /\ seen' = Telemetry(service')
       /\ timers' = [t EXCEPT !.poll = FALSE, !.restart = TRUE]
  ELSE timers' = t /\ UNCHANGED <<service, seen>>

-------------------------------------------------------------------------------
(* The musician.                                                             *)

Calls == /\ alive /\ bounds.calls < MaxCalls
         /\ bounds' = [bounds EXCEPT !.calls = @ + 1]

\* Every index names an entry of its list.
InRange == \A role \in Roles : chosen[role] \in DOMAIN ListOf(lists, role)

\* setInstrumentDeviceIndex()
ChooseInstrument(i) ==
  /\ Calls
  /\ i \in DOMAIN lists.inputs \ {chosen.instrument}
  /\ chosen' = [chosen EXCEPT !.instrument = i]
  /\ ready' = Configured(ready, lists, chosen', buffer)
  /\ Schedule([timers EXCEPT !.save = TRUE])
  /\ UNCHANGED <<present, lists, buffer, saved, session, alive>>

\* tryReplaceVoiceEndpoint(): the microphone beside ASIO is exchanged, or falls
\* silent, or there is none to exchange.
VoiceAnswers(mic) ==
  IF service.mic = "None" \/ mic \notin Mics THEN {"NotSupported"}
  ELSE {"Failed"} \cup {a \in {"Applied"} : mic \in present /\ service.state = "Running"}

\* Mistake: whatever the service answers, the choice is taken for made.
AnyAnswer(answer) == answer # "Unasked"

\* The answers that spare the devices from being opened again.
Settled(answer) == answer \in {"Applied", "Failed"}

\* setVoiceDeviceIndex()
ChooseVoice(i) ==
  /\ Calls
  /\ i \in DOMAIN lists.inputs \ {chosen.voice}
  /\ chosen' = [chosen EXCEPT !.voice = i]
  /\ ready' = Configured(ready, lists, chosen', buffer)
  /\ LET mic == lists.inputs[i]
         t   == [timers EXCEPT !.save = TRUE]
     IN \E answer \in IF seen.state = "Running" THEN VoiceAnswers(mic) ELSE {"Unasked"} :
          IF Settled(answer)
          THEN /\ service' = CASE answer = "Applied" ->
                                   [service EXCEPT !.setup.voice = mic, !.mic = "Running"]
                             [] answer = "Failed" ->
                                   [service EXCEPT !.setup.voice = NoDevice, !.mic = "Silent"]
                             [] OTHER -> service
               /\ seen' = Telemetry(service')
               /\ timers' = t
          ELSE Schedule(t)
  /\ UNCHANGED <<present, lists, buffer, saved, session, alive>>

\* setOutputDeviceIndex()
ChooseOutput(i) ==
  /\ Calls
  /\ i \in DOMAIN lists.outputs \ {chosen.output}
  /\ chosen' = [chosen EXCEPT !.output = i]
  /\ buffer' = IF lists.available THEN Installed(buffer, lists.outputs[i]) ELSE buffer
  /\ ready' = Configured(ready, lists, chosen', buffer')
  /\ Schedule([timers EXCEPT !.save = TRUE])
  /\ UNCHANGED <<present, lists, saved, session, alive>>

\* setBufferSizeIndex()
ChooseSize(i) ==
  /\ Calls
  /\ i \in DOMAIN buffer.ladder \ {buffer.at}
  /\ buffer' = [buffer EXCEPT !.at = i]
  /\ ready' = Configured(ready, lists, chosen, buffer')
  /\ Schedule([timers EXCEPT !.save = TRUE])
  /\ UNCHANGED <<present, lists, chosen, saved, session, alive>>

\* saveSoundcheck(): nothing clips, and what runs is verified; and it is saved.
SaveSoundcheck ==
  /\ alive
  /\ LET now == Configured(ready, lists, chosen, buffer)
     IN ready' = IF lists.available /\ seen.state = "Running" /\ seen.voice
                 THEN [now EXCEPT !.verified = now.prints] ELSE ready
  /\ saved' = Selections(lists, chosen, buffer)
  /\ UNCHANGED <<present, lists, chosen, buffer, service, seen, timers, session, alive, bounds>>

\* retryAudio(): look again at what there is, and open it.
RetriesWith(t) ==
  /\ saved' = Selections(lists, chosen, buffer)
  /\ lists' = Inventory(present)
  /\ IF lists'.available
     THEN /\ chosen' = Resolved(lists', saved')
          /\ LET installed == Installed(buffer, DeviceOf(lists', chosen', "output"))
             IN buffer' = [installed EXCEPT !.at = Resolve(installed.ladder, saved'.size)]
          /\ ready' = Configured(ready, lists', chosen', buffer')
          /\ Reopen(lists', chosen', buffer', t)
     ELSE /\ seen' = [state |-> "NoEndpoints", voice |-> TRUE]
          /\ timers' = t
          /\ UNCHANGED <<chosen, buffer, ready, service>>
  /\ UNCHANGED <<present, session, alive>>

Retry == Calls /\ RetriesWith(timers)

\* A window moved, a level changed: scheduleSave().
ChangePreference ==
  /\ Calls /\ ~timers.save
  /\ timers' = [timers EXCEPT !.save = TRUE]
  /\ UNCHANGED <<present, lists, chosen, buffer, saved, ready, service, seen, session, alive>>

\* Mistake: devices that sound are enough.
Sounds == seen.state = "Running"

\* audioActive() and allReady(), which hosting and joining ask for.
MayBegin == seen.state = "Running" /\ AllReady

\* hostSession(), or joinSession() with a whole invite.  What there was is left
\* first, and then the room opens or it does not; leaving opens the devices again.
BeginSession ==
  /\ Calls /\ MayBegin
  /\ \E opens \in BOOLEAN :
       /\ session' = IF opens THEN "Room" ELSE "None"
       /\ IF opens \/ session # "None"
          THEN Reopen(lists, chosen, buffer, timers)
          ELSE UNCHANGED <<service, seen, timers>>
  /\ UNCHANGED <<present, lists, chosen, buffer, saved, ready, alive>>

\* joinSession() with the code of a private room.
AskToJoin ==
  /\ Calls /\ MayBegin
  /\ session' = "Asked"
  /\ IF session # "None" THEN Reopen(lists, chosen, buffer, timers)
                         ELSE UNCHANGED <<service, seen, timers>>
  /\ UNCHANGED <<present, lists, chosen, buffer, saved, ready, alive>>

\* The host let the musician in: joinDirectSession(), whatever became of the
\* devices meanwhile.
Admitted ==
  /\ alive /\ session = "Asked"
  /\ session' \in {"Room", "None"}
  /\ Reopen(lists, chosen, buffer, timers)
  /\ UNCHANGED <<present, lists, chosen, buffer, saved, ready, alive, bounds>>

LeaveSession ==
  /\ Calls /\ session # "None"
  /\ session' = "None"
  /\ Reopen(lists, chosen, buffer, timers)
  /\ UNCHANGED <<present, lists, chosen, buffer, saved, ready, alive>>

-------------------------------------------------------------------------------
(* Timers.                                                                   *)

\* audioRestartTimer_: a choice is opened.
RestartFires ==
  /\ alive /\ timers.restart
  /\ Reopen(lists, chosen, buffer, [timers EXCEPT !.restart = FALSE])
  /\ UNCHANGED <<present, lists, chosen, buffer, saved, ready, session, alive, bounds>>

\* The single shot of pollAudioTelemetry(), and of the constructor.
RetryFires ==
  /\ alive /\ timers.retries > 0
  /\ RetriesWith([timers EXCEPT !.retries = @ - 1])
  /\ UNCHANGED bounds

\* saveTimer_: persistNow()
SaveFires ==
  /\ alive /\ timers.save
  /\ saved' = Selections(lists, chosen, buffer)
  /\ timers' = [timers EXCEPT !.save = FALSE]
  /\ UNCHANGED <<present, lists, chosen, buffer, ready, service, seen, session, alive, bounds>>

\* Mistake: the largest size is followed by itself.
NextOrSame(buf) == {f \in Range(buf.ladder) : f >= buf.auto}

\* The sizes considerAutomaticBufferStep() may move up to; it takes the first.
Larger(buf) == {f \in Range(buf.ladder) : f > buf.auto}

\* reportAudioDeviceDropouts() has its reasons to let a drop pass: the device
\* is settling, or one was reported within five seconds.
Reports(svc) == IF svc.dropped THEN {"Settling", "Limited", "Reported"} ELSE {"Limited"}

StepsUp(report) ==
  report = "Reported" /\ SizeOf(buffer) = Automatic /\ Larger(buffer) # {}

\* pollAudioTelemetry()
Poll ==
  /\ alive /\ timers.poll
  /\ LET lost == seen.state = "Running" /\ service.state # "Running"
         now  == Telemetry(service)
         t    == [timers EXCEPT !.poll = ~lost,
                                !.retries = IF lost THEN @ + 1 ELSE @]
     IN \E report \in Reports(service) :
          /\ ready' = IF now.state = "Running" /\ seen.voice /\ ~now.voice
                      THEN [ready EXCEPT !.verified.voice = Unverified] ELSE ready
          /\ IF StepsUp(report)
             THEN /\ buffer' = [buffer EXCEPT !.auto = CHOOSE f \in Larger(buffer) :
                                                         \A g \in Larger(buffer) : f <= g,
                                              !.raised = TRUE]
                  /\ Schedule(t)
             ELSE /\ service' = [service EXCEPT !.dropped = @ /\ report = "Limited"]
                  /\ seen' = now
                  /\ timers' = t
                  /\ UNCHANGED buffer
  /\ UNCHANGED <<present, lists, chosen, saved, session, alive, bounds>>

\* The lists shrank to a placeholder while an index did not.  The next handler
\* that reads the options, of the musician or of a timer, reads past the end of
\* a vector: it gets what is no device (At), or the application is gone.
ReadsPastEnd ==
  /\ alive /\ ~InRange
  /\ timers.save \/ timers.retries > 0 \/ bounds.calls < MaxCalls
  /\ alive' = FALSE
  /\ UNCHANGED <<present, lists, chosen, buffer, saved, ready, service, seen, timers,
                 session, bounds>>

-------------------------------------------------------------------------------
(* The devices.                                                              *)

Changes == /\ alive /\ bounds.changes < MaxChanges
           /\ bounds' = [bounds EXCEPT !.changes = @ + 1]

Unplug(d) ==
  /\ Changes /\ d \in present
  /\ present' = present \ {d}
  /\ UNCHANGED <<lists, chosen, buffer, saved, ready, service, seen, timers, session, alive>>

Plug(d) ==
  /\ Changes /\ d \notin present
  /\ present' = present \cup {d}
  /\ UNCHANGED <<lists, chosen, buffer, saved, ready, service, seen, timers, session, alive>>

\* The service finds a device of its own gone: DeviceInvalidated.
Loses ==
  /\ alive /\ service.state = "Running"
  /\ \/ service.setup.output \notin present
     \/ service.mic = "None" /\ service.setup.voice \notin present
     \/ service.setup.instrument \notin present
  /\ service' = [service EXCEPT !.state = "Lost"]
  /\ UNCHANGED <<present, lists, chosen, buffer, saved, ready, seen, timers, session, alive,
                 bounds>>

\* A driver asks to be reset, though it is there.
Reset ==
  /\ Changes /\ service.state = "Running"
  /\ service' = [service EXCEPT !.state = "Lost"]
  /\ UNCHANGED <<present, lists, chosen, buffer, saved, ready, seen, timers, session, alive>>

\* The thread of the microphone loses it, and opens it again once it is back.
MicLost ==
  /\ alive /\ service.mic = "Running" /\ service.setup.voice \notin present
  /\ service' = [service EXCEPT !.mic = "Lost"]
  /\ UNCHANGED <<present, lists, chosen, buffer, saved, ready, seen, timers, session, alive,
                 bounds>>

MicBack ==
  /\ alive /\ service.mic = "Lost" /\ service.setup.voice \in present
  /\ service' = [service EXCEPT !.mic = "Running"]
  /\ UNCHANGED <<present, lists, chosen, buffer, saved, ready, seen, timers, session, alive,
                 bounds>>

\* A block of audio is dropped, at any size.
Drops ==
  /\ alive /\ service.state = "Running" /\ ~service.dropped
  /\ service' = [service EXCEPT !.dropped = TRUE]
  /\ UNCHANGED <<present, lists, chosen, buffer, saved, ready, seen, timers, session, alive,
                 bounds>>

-------------------------------------------------------------------------------

\* The constructor and loadPreferences(): what was saved is looked up in what
\* there is; a first launch lets chooseInitialAudioDefaults() pair an interface
\* with itself.  Only a setup that is wholly there is opened.
FirstSelections ==
  {[instrument |-> i, output |-> i, voice |-> v, size |-> Automatic] :
     i \in Interfaces, v \in Interfaces \cup Mics}

Init ==
  /\ present = Devices
  /\ lists = Inventory(present)
  /\ saved \in {s \in FirstSelections : Supported(s)}
  /\ chosen = Resolved(lists, saved)
  /\ buffer = [Installed([ladder |-> <<>>, at |-> 1, auto |-> 0, raised |-> FALSE],
                         saved.output) EXCEPT !.at = 1]
  /\ ready = [prints |-> [role \in Roles |-> Fingerprint(lists, chosen, buffer, role)],
              verified |-> [role \in Roles |-> Unverified]]
  /\ service = Stopped
  /\ seen = Telemetry(Stopped)
  /\ timers = [restart |-> FALSE, poll |-> FALSE, save |-> FALSE, retries |-> 1]
  /\ session = "None"
  /\ alive = TRUE
  /\ bounds = [calls |-> 0, changes |-> 0]

\* By hand, or by applyAudioSetupFix(), which goes through the same setters.
Chooses == \/ \E i \in DOMAIN lists.inputs : ChooseInstrument(i) \/ ChooseVoice(i)
           \/ \E i \in DOMAIN lists.outputs : ChooseOutput(i)
           \/ \E i \in DOMAIN buffer.ladder : ChooseSize(i)

Next == \/ Chooses \/ SaveSoundcheck \/ Retry \/ ChangePreference
        \/ BeginSession \/ AskToJoin \/ Admitted \/ LeaveSession
        \/ RestartFires \/ RetryFires \/ SaveFires \/ Poll \/ ReadsPastEnd
        \/ \E d \in Devices : Unplug(d) \/ Plug(d)
        \/ Loses \/ Reset \/ MicLost \/ MicBack \/ Drops

\* The event loop fires what is due, and the service notices what it lost.
Spec == /\ Init /\ [][Next]_vars
        /\ WF_vars(RestartFires) /\ WF_vars(RetryFires) /\ WF_vars(Poll) /\ WF_vars(Loses)

-------------------------------------------------------------------------------
(* Properties.                                                               *)

\* The devices that run are the ones the pages show as chosen, at the size they
\* show: whichever way a choice took effect, and whatever was plugged, lost or
\* raised meanwhile.  A microphone that could not be exchanged may be silent.
\* (setVoiceDeviceIndex() and restartAudio())
RunsWhatIsChosen ==
  alive /\ lists.available /\ service.state = "Running" =>
    /\ service.setup.instrument = DeviceOf(lists, chosen, "instrument")
    /\ service.setup.output = DeviceOf(lists, chosen, "output")
    /\ service.setup.voice \in {DeviceOf(lists, chosen, "voice"), NoDevice}
    /\ service.setup.frames = EffectiveFrames(buffer)

\* "it never steps back down within a session": while the sizes offered stay the
\* same, the automatic size that was raised is not lowered, by no retry, no
\* restart and no choice.  (considerAutomaticBufferStep(), installBufferSizeOptions())
BufferOnlyClimbs ==
  [][buffer'.ladder = buffer.ladder /\ buffer.raised
       => buffer'.raised /\ buffer'.auto >= buffer.auto]_vars

\* A room is begun only with the devices that were tested: those that sound at
\* that moment are those of the last saved sound check, each of them, at the
\* size it was checked with.  (hostSession(), joinSession(), saveSoundcheck())
BeginsAsChecked ==
  [][session # "Asked" /\ session # "Room" /\ session' = "Room" =>
       \A role \in Roles :
         ready.verified[role] \in {<<service.setup[role], Automatic>>,
                                 <<service.setup[role], service.setup.frames>>}]_vars

\* Once the musician and the devices rest, the application does: a device that
\* goes on dropping audio does not have it reopen the device for ever.
\* (the comment of installBufferSizeOptions())
SettlesDown == <>[](alive => ~timers.restart /\ timers.retries = 0)

\* What is claimed: once a device that was lost is connected again, audio runs
\* again without the musician doing anything.  (pollAudioTelemetry(), guidanceFor())
ReturnsByItself ==
  (service.state = "Lost" /\ present = Devices)
    ~> (service.state = "Running" \/ present # Devices)
=============================================================================
