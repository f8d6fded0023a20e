----------------------------- MODULE AudioEngine -----------------------------
(***************************************************************************)
(* The audio service (windows_soundcheck_audio_service.cpp) over its two   *)
(* backends, as the application's thread starts, stops and rearranges them *)
(* while their callbacks run:                                              *)
(*   - WASAPI: one worker thread waits for the devices' events             *)
(*     (wasapi_soundcheck_audio_service.cpp);                              *)
(*   - ASIO: the driver calls back, and a microphone of Windows' may stand *)
(*     in for the voice.  It has a thread of its own                       *)
(*     (wasapi_secondary_capture.cpp), which hands its samples over        *)
(*     through a bridge between the two clocks (hybrid_clock_bridge.hpp).  *)
(* A callback uses the transport of the room the musician is in, which the *)
(* application destroys when the musician leaves.                          *)
(*                                                                         *)
(* Samples are told apart by the rate they were captured at.  What the     *)
(* callbacks do to the recorder is the subject of SessionRecorder.         *)
(***************************************************************************)
EXTENDS Integers, Sequences

CONSTANTS Drivers,     \* the ASIO drivers installed
          Mics,        \* the microphones Windows offers
          Rates,       \* sample rates a microphone may have: positive
          RingBlocks,  \* blocks the bridge's ring has room for
          MaxCalls,    \* bound: calls of the application
          MaxChanges   \* bound: times a microphone changes or goes away

VARIABLES ctl,     \* the application's thread: where it is, and in which call
          svc,     \* WindowsSoundcheckAudioService
          room,    \* the transport that lives, or NoRoom; they are numbered
          wasapi,  \* the WASAPI backend and its worker
          asio,    \* the ASIO backend
          voice,   \* SecondaryWasapiCapture and its worker
          bridge,  \* HybridClockBridge
          mics,    \* the rate each microphone has now, or Gone
          changes  \* times one has changed

vars == <<ctl, svc, room, wasapi, asio, voice, bridge, mics, changes>>

NoRoom == 0
Gone == 0

\* The three devices start() may be asked for.
Windows == "Windows"
Setups == [instrument : Drivers \cup {Windows}, output : Drivers \cup {Windows},
           voice : Drivers \cup Mics]

\* evaluateAudioTopology(): which devices run together, and what hybridVoice_
\* and the voice's endpoint are then.
Topology(setup) ==
  CASE {setup.instrument, setup.output} = {Windows} /\ setup.voice \in Mics -> "Wasapi"
    [] setup.instrument \in Drivers /\ setup.output = setup.instrument
       /\ setup.voice \in Mics \cup {setup.instrument} -> "Asio"
    [] OTHER -> "Unsupported"

NoMic == "NoMic"

\* No callback is running.
Quiet == -1

Init == /\ ctl = [pc |-> "Idle", then |-> "Idle", call |-> "None", calls |-> 0,
                  mic |-> NoMic, awaited |-> 0]
        /\ svc = [active |-> "None", exchange |-> NoRoom]
        /\ room = NoRoom
        /\ wasapi = [pc |-> "None", stop |-> FALSE, told |-> "Nothing",
                     exchange |-> NoRoom, using |-> Quiet]
        /\ asio = [exchange |-> NoRoom, using |-> Quiet, started |-> FALSE, hybrid |-> FALSE]
        /\ voice = [pc |-> "None", stop |-> FALSE, told |-> "Nothing", begin |-> FALSE,
                    state |-> "Stopped", mic |-> NoMic, rate |-> Gone, valid |-> FALSE]
        /\ bridge = [wanted |-> Gone, asked |-> 0, seen |-> 0, applied |-> 0,
                     fed |-> Gone, ring |-> <<>>]
        /\ mics \in [Mics -> Rates]
        /\ changes = 0

Goto(pc) == ctl' = [ctl EXCEPT !.pc = pc]
At(pc) == ctl.pc = pc

-------------------------------------------------------------------------------
(* Calls of the application: restartAudio(), leaveSession(), hostSession()   *)
(* or joinDirectSession(), a microphone chosen, and the end.                 *)

Kinds == {"Restart", "Enter", "Leave", "Replace", "End"}

Call(kind) ==
  /\ At("Idle") /\ ctl.calls < MaxCalls
  /\ kind = "Enter" => room = NoRoom
  /\ kind = "Leave" => room # NoRoom
  /\ ctl' = [ctl EXCEPT !.pc = IF kind = "Replace" THEN "Replace" ELSE "Stop",
                        !.call = kind, !.calls = @ + 1]
  /\ UNCHANGED <<svc, room, wasapi, asio, voice, bridge, mics, changes>>

\* The call is over.
Return == ctl' = [ctl EXCEPT !.pc = "Idle", !.then = "Idle", !.call = "None",
                             !.mic = NoMic, !.awaited = 0]

\* stop() of the service: the worker or the driver is told to.
Stop ==
  /\ At("Stop")
  /\ CASE svc.active = "None" -> Goto("Stopped") /\ UNCHANGED <<wasapi, asio>>
       [] svc.active = "Wasapi" -> /\ wasapi' = [wasapi EXCEPT !.stop = TRUE]
                                   /\ Goto("JoinWasapi") /\ UNCHANGED asio
       [] svc.active = "Asio" -> /\ asio' = [asio EXCEPT !.started = FALSE]
                                 /\ Goto("JoinDriver") /\ UNCHANGED wasapi
  /\ UNCHANGED <<svc, room, voice, bridge, mics, changes>>

\* Mistake: a thread that was told to end is let go of.
LetGo(thread) == TRUE

\* What join() waits for.
Ended(thread) == thread.pc \in {"None", "Done"}

JoinWasapi ==
  /\ At("JoinWasapi") /\ Ended(wasapi)
  /\ wasapi' = [wasapi EXCEPT !.pc = "None", !.stop = FALSE]
  /\ Goto("Stopped")
  /\ UNCHANGED <<svc, room, asio, voice, bridge, mics, changes>>

\* ASIOStop() returns when no callback runs.
JoinDriver ==
  /\ At("JoinDriver") /\ asio.using = Quiet
  /\ ctl' = [ctl EXCEPT !.pc = "StopVoice",
                        !.then = IF ctl.call = "Abort" THEN "NotStarted" ELSE "Stopped"]
  /\ UNCHANGED <<svc, room, wasapi, asio, voice, bridge, mics, changes>>

\* stop() of the second capture, in two steps: the event, and the join.
StopVoice ==
  /\ At("StopVoice")
  /\ voice' = [voice EXCEPT !.stop = TRUE]
  /\ Goto("JoinVoice")
  /\ UNCHANGED <<svc, room, wasapi, asio, bridge, mics, changes>>

JoinVoice ==
  /\ At("JoinVoice") /\ Ended(voice)
  /\ voice' = [voice EXCEPT !.pc = "None", !.stop = FALSE, !.begin = FALSE, !.told = "Nothing",
                            !.mic = NoMic, !.valid = FALSE,
                            !.state = IF @ = "Failed" THEN "Failed" ELSE "Stopped"]
  /\ Goto(ctl.then)
  /\ UNCHANGED <<svc, room, wasapi, asio, bridge, mics, changes>>

\* The service is silent: the transport may be exchanged.
Stopped ==
  /\ At("Stopped")
  /\ svc' = [active |-> "None",
             exchange |-> CASE ctl.call = "Leave" -> NoRoom
                            [] ctl.call = "Enter" -> ctl.calls
                            [] OTHER -> svc.exchange]
  /\ room' = svc'.exchange
  /\ IF ctl.call = "End" THEN Return ELSE Goto("Open")
  /\ UNCHANGED <<wasapi, asio, voice, bridge, mics, changes>>

-------------------------------------------------------------------------------
(* start() of the service, and of a backend.                                 *)

\* setPeerAudioExchange() of the backend
GivenExchange(backend) == [backend EXCEPT !.exchange = svc.exchange]

OpenWasapi ==
  /\ At("Open")
  /\ \E setup \in Setups : Topology(setup) = "Wasapi"
  /\ svc' = [svc EXCEPT !.active = "Wasapi"]
  /\ wasapi' = [GivenExchange(wasapi) EXCEPT !.pc = "Opening", !.stop = FALSE,
                                             !.told = "Nothing"]
  /\ Goto("AwaitWasapi")
  /\ UNCHANGED <<room, asio, voice, bridge, mics, changes>>

OpenAsio ==
  /\ At("Open")
  /\ \E setup \in Setups :
       /\ Topology(setup) = "Asio"
       /\ asio' = [GivenExchange(asio) EXCEPT !.hybrid = setup.voice \in Mics]
       /\ ctl' = [ctl EXCEPT !.pc = "OpenDriver",
                             !.mic = IF setup.voice \in Mics THEN setup.voice ELSE NoMic]
  /\ svc' = [svc EXCEPT !.active = "Asio"]
  /\ UNCHANGED <<room, wasapi, voice, bridge, mics, changes>>

OpenNothing ==
  /\ At("Open")
  /\ \E setup \in Setups : Topology(setup) = "Unsupported"
  /\ Return
  /\ UNCHANGED <<svc, room, wasapi, asio, voice, bridge, mics, changes>>

\* result.get(), and the join after a failure
AwaitWasapi ==
  /\ At("AwaitWasapi")
  /\ \/ /\ wasapi.told = "Ready" /\ UNCHANGED <<svc, wasapi>>
     \/ /\ wasapi.told = "Failed" /\ wasapi.pc = "Done"
        /\ wasapi' = [wasapi EXCEPT !.pc = "None"]
        /\ svc' = [svc EXCEPT !.active = "None"]
  /\ Return
  /\ UNCHANGED <<room, asio, voice, bridge, mics, changes>>

\* driver_.open() and configure()
OpenDriver ==
  /\ At("OpenDriver")
  /\ \/ Goto(IF asio.hybrid THEN "PrepareVoice" ELSE "StartDriver")
     \/ ctl' = [ctl EXCEPT !.pc = "StopVoice", !.then = "NotStarted"]
  /\ UNCHANGED <<svc, room, wasapi, asio, voice, bridge, mics, changes>>

\* prepare(), whose own stop() comes first: the thread opens the microphone.
PrepareVoice ==
  /\ At("PrepareVoice")
  /\ voice' = [voice EXCEPT !.pc = "Opening", !.stop = FALSE, !.begin = FALSE,
                            !.told = "Nothing", !.state = "Starting", !.mic = ctl.mic]
  /\ Goto("AwaitVoice")
  /\ UNCHANGED <<svc, room, wasapi, asio, bridge, mics, changes>>

\* future.get(): a fresh bridge for a fresh start, or a transition of the
\* bridge that runs.
AwaitVoice ==
  /\ At("AwaitVoice") /\ voice.told # "Nothing"
  /\ IF voice.told = "Failed"
       THEN /\ ctl' = [ctl EXCEPT !.pc = "StopVoice",
                         !.then = IF ctl.call = "Replace" THEN "Return" ELSE "NotStarted"]
            /\ UNCHANGED bridge
     ELSE IF ctl.call = "Replace" THEN Goto("WantRate") /\ UNCHANGED bridge
     ELSE /\ bridge' = [wanted |-> voice.rate, asked |-> bridge.asked + 1,
                        seen |-> bridge.asked + 1, applied |-> bridge.asked + 1,
                        fed |-> voice.rate, ring |-> <<>>]
          /\ Goto("StartDriver")
  /\ UNCHANGED <<svc, room, wasapi, asio, voice, mics, changes>>

\* ASIOStart()
StartDriver ==
  /\ At("StartDriver")
  /\ \/ /\ asio' = [asio EXCEPT !.started = TRUE]
        /\ Goto(IF asio.hybrid THEN "Begin" ELSE "Return")
     \/ /\ UNCHANGED asio
        /\ ctl' = [ctl EXCEPT !.pc = "StopVoice", !.then = "NotStarted"]
  /\ UNCHANGED <<svc, room, wasapi, voice, bridge, mics, changes>>

\* begin(): the event, then up to a second of waiting for the thread to run.
Begin ==
  /\ At("Begin")
  /\ voice' = [voice EXCEPT !.begin = TRUE]
  /\ Goto("AwaitBegin")
  /\ UNCHANGED <<svc, room, wasapi, asio, bridge, mics, changes>>

AwaitBegin ==
  /\ At("AwaitBegin")
  /\ \/ voice.state = "Running" /\ Goto("Return")
     \/ /\ voice.state # "Running"
        /\ IF ctl.call = "Replace" THEN ctl' = [ctl EXCEPT !.pc = "StopVoice", !.then = "Return"]
                                   ELSE Goto("StopDriver")
  /\ UNCHANGED <<svc, room, wasapi, asio, voice, bridge, mics, changes>>

\* The voice did not begin: the driver is stopped again.
StopDriver ==
  /\ At("StopDriver")
  /\ asio' = [asio EXCEPT !.started = FALSE]
  /\ ctl' = [ctl EXCEPT !.pc = "JoinDriver", !.call = "Abort"]
  /\ UNCHANGED <<svc, room, wasapi, voice, bridge, mics, changes>>

NotStarted ==
  /\ At("NotStarted")
  /\ svc' = [svc EXCEPT !.active = "None"]
  /\ Return
  /\ UNCHANGED <<room, wasapi, asio, voice, bridge, mics, changes>>

-------------------------------------------------------------------------------
(* tryReplaceVoiceEndpoint(): another microphone, and the driver runs on.    *)

Replace ==
  /\ At("Replace")
  /\ IF svc.active = "Asio" /\ asio.started /\ asio.hybrid
       THEN \E m \in Mics :
              ctl' = [ctl EXCEPT !.pc = "StopVoice", !.then = "PrepareVoice", !.mic = m]
       ELSE Return
  /\ UNCHANGED <<svc, room, wasapi, asio, voice, bridge, mics, changes>>

\* requestSourceTransition(): the rate, then the generation that asks for it.
WantRate ==
  /\ At("WantRate")
  /\ bridge' = [bridge EXCEPT !.wanted = voice.rate]
  /\ Goto("AskTransition")
  /\ UNCHANGED <<svc, room, wasapi, asio, voice, mics, changes>>

AskTransition ==
  /\ At("AskTransition")
  /\ bridge' = [bridge EXCEPT !.asked = @ + 1]
  /\ ctl' = [ctl EXCEPT !.pc = "AwaitTransition", !.awaited = bridge.asked + 1]
  /\ UNCHANGED <<svc, room, wasapi, asio, voice, mics, changes>>

\* Mistake: the microphone may begin as soon as the transition was asked for.
TransitionAsked == bridge.asked >= ctl.awaited

\* transitionApplied()
TransitionApplied == bridge.applied >= ctl.awaited

\* A second of waiting, which may not be enough.
AwaitTransition ==
  /\ At("AwaitTransition")
  /\ IF TransitionApplied THEN Goto("Begin")
                          ELSE ctl' = [ctl EXCEPT !.pc = "StopVoice", !.then = "Return"]
  /\ UNCHANGED <<svc, room, wasapi, asio, voice, bridge, mics, changes>>

Returns ==
  /\ At("Return") /\ Return
  /\ UNCHANGED <<svc, room, wasapi, asio, voice, bridge, mics, changes>>

ControlStep ==
  \/ Stop \/ JoinWasapi \/ JoinDriver \/ StopVoice \/ JoinVoice \/ Stopped
  \/ OpenWasapi \/ OpenAsio \/ OpenNothing \/ AwaitWasapi \/ OpenDriver
  \/ PrepareVoice \/ AwaitVoice \/ StartDriver
  \/ Begin \/ AwaitBegin \/ StopDriver \/ NotStarted
  \/ Replace \/ WantRate \/ AskTransition \/ AwaitTransition \/ Returns

-------------------------------------------------------------------------------
(* The WASAPI worker: run().                                                 *)

\* initialize(): any of the three streams may not open.
WasapiFails ==
  /\ wasapi.pc = "Opening"
  /\ wasapi' = [wasapi EXCEPT !.pc = "Done", !.told = "Failed"]
  /\ UNCHANGED <<ctl, svc, room, asio, voice, bridge, mics, changes>>

WasapiRuns ==
  /\ wasapi.pc = "Opening"
  /\ wasapi' = [wasapi EXCEPT !.pc = "Loop", !.told = "Ready"]
  /\ UNCHANGED <<ctl, svc, room, asio, voice, bridge, mics, changes>>

\* Of several events, the one to stop comes first.
WasapiTold ==
  /\ wasapi.pc = "Loop" /\ wasapi.stop
  /\ wasapi' = [wasapi EXCEPT !.pc = "Done"]
  /\ UNCHANGED <<ctl, svc, room, asio, voice, bridge, mics, changes>>

WasapiEvent == /\ wasapi.pc = "Loop" /\ ~wasapi.stop
               /\ UNCHANGED <<ctl, svc, room, asio, voice, bridge, mics, changes>>

\* processCapture(): a device that failed ends the loop, any other gives
\* samples, which are pushed to the transport.
WasapiCaptures ==
  /\ WasapiEvent
  /\ \/ wasapi' = [wasapi EXCEPT !.pc = "Done"]
     \/ wasapi' = [wasapi EXCEPT !.pc = "Busy", !.using = wasapi.exchange]

\* processRender() pulls from the transport before it asks for the device's
\* buffer.
WasapiRenders ==
  /\ WasapiEvent
  /\ wasapi' = [wasapi EXCEPT !.pc = "Busy", !.using = wasapi.exchange]

\* Both go on, or fail, after they used it.
WasapiDone ==
  /\ wasapi.pc = "Busy"
  /\ \E pc \in {"Loop", "Done"} : wasapi' = [wasapi EXCEPT !.pc = pc, !.using = Quiet]
  /\ UNCHANGED <<ctl, svc, room, asio, voice, bridge, mics, changes>>

WasapiStep == WasapiFails \/ WasapiRuns \/ WasapiTold \/ WasapiDone

-------------------------------------------------------------------------------
(* The driver's callbacks: process(), which pulls the voice over the bridge. *)

\* pull(): a transition that was asked for empties the ring and sets the
\* resampler; what is in the ring is then drawn into it.
Pulled == IF bridge.asked # bridge.seen
            THEN [bridge EXCEPT !.fed = bridge.wanted, !.seen = bridge.asked,
                                !.applied = bridge.asked, !.ring = <<>>]
            ELSE [bridge EXCEPT !.ring = <<>>]

DriverCalls ==
  /\ asio.started /\ asio.using = Quiet
  /\ asio' = [asio EXCEPT !.using = asio.exchange]
  /\ bridge' = IF asio.hybrid THEN Pulled ELSE bridge
  /\ UNCHANGED <<ctl, svc, room, wasapi, voice, mics, changes>>

DriverDone ==
  /\ asio.using # Quiet
  /\ asio' = [asio EXCEPT !.using = Quiet]
  /\ UNCHANGED <<ctl, svc, room, wasapi, voice, bridge, mics, changes>>

-------------------------------------------------------------------------------
(* The thread of the second capture: run().                                  *)

\* initializeCapture(), the first time
VoiceOpens ==
  /\ voice.pc = "Opening"
  /\ \/ /\ mics[voice.mic] # Gone
        /\ voice' = [voice EXCEPT !.pc = "Waiting", !.rate = mics[voice.mic], !.valid = TRUE,
                                  !.told = "Ready"]
     \/ voice' = [voice EXCEPT !.pc = "Done", !.state = "Failed", !.told = "Failed"]
  /\ UNCHANGED <<ctl, svc, room, wasapi, asio, bridge, mics, changes>>

\* Mistake: the thread waits only for the event to begin.
WaitsToBegin(v) == IF v.begin THEN "Start" ELSE "Waiting"

Waited(v) == IF v.stop THEN "Done" ELSE IF v.begin THEN "Start" ELSE "Waiting"

VoiceWaits ==
  /\ voice.pc = "Waiting" /\ Waited(voice) # "Waiting"
  /\ voice' = [voice EXCEPT !.pc = Waited(voice)]
  /\ UNCHANGED <<ctl, svc, room, wasapi, asio, bridge, mics, changes>>

VoiceStarts ==
  /\ voice.pc = "Start"
  /\ \/ voice.valid /\ voice' = [voice EXCEPT !.pc = "Capture", !.state = "Running"]
     \/ voice' = [voice EXCEPT !.pc = "Retry", !.state = "Invalidated"]
  /\ UNCHANGED <<ctl, svc, room, wasapi, asio, bridge, mics, changes>>

VoiceTold ==
  /\ voice.pc \in {"Capture", "Retry"} /\ voice.stop
  /\ voice' = [voice EXCEPT !.pc = "Done", !.state = IF @ = "Running" THEN "Stopped" ELSE @]
  /\ UNCHANGED <<ctl, svc, room, wasapi, asio, bridge, mics, changes>>

\* process(): a device that has changed fails, any other hands its samples to
\* the bridge.
VoiceEvent ==
  /\ voice.pc = "Capture" /\ ~voice.stop
  /\ voice' = IF voice.valid THEN [voice EXCEPT !.pc = "Push"]
                            ELSE [voice EXCEPT !.pc = "Retry", !.state = "Invalidated"]
  /\ UNCHANGED <<ctl, svc, room, wasapi, asio, bridge, mics, changes>>

VoicePushed ==
  /\ voice.pc = "Push"
  /\ voice' = [voice EXCEPT !.pc = "Capture"]
  /\ bridge' = IF Len(bridge.ring) < RingBlocks
                 THEN [bridge EXCEPT !.ring = Append(@, voice.rate)] ELSE bridge
  /\ UNCHANGED <<ctl, svc, room, wasapi, asio, mics, changes>>

\* Mistake: whatever rate the microphone has come back with will do.
FitsAnyRate(now, expected) == now # Gone

\* The bridge still expects the rate the thread began with.
Fits(now, expected) == now = expected

\* A second later: the microphone is opened again, or the old stream is tried.
VoiceReopens ==
  /\ voice.pc = "Retry" /\ ~voice.stop
  /\ LET now == mics[voice.mic]
     IN \/ now # Gone /\ Fits(now, voice.rate)
           /\ voice' = [voice EXCEPT !.pc = "Start", !.valid = TRUE, !.rate = now]
        \/ voice' = [voice EXCEPT !.pc = "Start", !.state = "Failed"]
  /\ UNCHANGED <<ctl, svc, room, wasapi, asio, bridge, mics, changes>>

VoiceStep == VoiceOpens \/ VoiceWaits \/ VoiceStarts \/ VoiceTold \/ VoicePushed

-------------------------------------------------------------------------------

\* A microphone is pulled out, comes back, or has its rate changed: the
\* streams on it are no longer valid.
MicChanges(m) ==
  /\ changes < MaxChanges /\ changes' = changes + 1
  /\ \E rate \in (Rates \cup {Gone}) \ {mics[m]} : mics' = [mics EXCEPT ![m] = rate]
  /\ voice' = IF voice.mic = m THEN [voice EXCEPT !.valid = FALSE] ELSE voice
  /\ UNCHANGED <<ctl, svc, room, wasapi, asio, bridge>>

Next == \/ \E kind \in Kinds : Call(kind)
        \/ ControlStep
        \/ WasapiStep \/ WasapiCaptures \/ WasapiRenders
        \/ DriverCalls \/ DriverDone
        \/ VoiceStep \/ VoiceEvent \/ VoiceReopens
        \/ \E m \in Mics : MicChanges(m)

\* Threads run, a callback that was entered returns, a join or a wait ends when
\* what it waits for has happened.  Devices need not send events.
Fairness == WF_vars(ControlStep) /\ WF_vars(WasapiStep) /\ WF_vars(DriverDone)
            /\ WF_vars(VoiceStep)

Spec == Init /\ [][Next]_vars /\ Fairness

-------------------------------------------------------------------------------

(***************************************************************************)
(* A callback uses the transport of the room the musician is in, or none:  *)
(* a transport is never destroyed, nor exchanged, under a callback.        *)
(***************************************************************************)
ExchangeLives == {wasapi.using, asio.using} \subseteq {Quiet, NoRoom, room}

(***************************************************************************)
(* The samples that wait in the bridge have the rate its resampler is set  *)
(* to, unless they are about to be thrown away: no voice is played too     *)
(* high or too low after a microphone was replaced, or was pulled out and  *)
(* came back.                                                              *)
(***************************************************************************)
RatesAgree == bridge.asked = bridge.seen =>
                \A i \in DOMAIN bridge.ring : bridge.ring[i] = bridge.fed

(***************************************************************************)
(* The ring of the bridge is cleared only while nobody writes to it, as    *)
(* SpscAudioRing asks of those who clear it.                               *)
(***************************************************************************)
ClearedAlone == [][bridge'.seen # bridge.seen => voice.pc # "Push"]_vars

(***************************************************************************)
(* The application's thread comes back from every call: no join waits for  *)
(* a thread that waits for something else.                                 *)
(***************************************************************************)
ControlReturns == ctl.pc # "Idle" ~> ctl.pc = "Idle"
===============================================================================
