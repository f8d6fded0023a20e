---------------------------- MODULE Audio_proofs ----------------------------
(***************************************************************************)
(* What is proved of the audio path.                                       *)
(*                                                                         *)
(* AudioEngine, whatever the drivers, the microphones and their rates are, *)
(* however often the application calls: a transport is never destroyed     *)
(* under a callback, and the bridge between two clocks never plays samples *)
(* of one rate as those of another.  Both follow from where the            *)
(* application's thread can be while another thread is at work: the        *)
(* transport is exchanged where neither backend runs, and the bridge is    *)
(* set where the voice's thread has not begun.                             *)
(*                                                                         *)
(* JitterBuffer, whatever is lost, late or repeated: the decoder is given  *)
(* each packet that is due, whole, once and in order.  It follows from     *)
(* playout only ever growing while the numbering lasts, so that a producer *)
(* with an old copy of it reclaims nothing that is still to be played.     *)
(***************************************************************************)
EXTENDS AudioEngine, JitterBuffer, SequenceTheorems, TLAPS


Places == {"Idle", "Stop", "JoinWasapi", "JoinDriver", "StopVoice", "JoinVoice", "Stopped",
           "Open", "AwaitWasapi", "OpenDriver", "PrepareVoice", "AwaitVoice", "StartDriver",
           "Begin", "AwaitBegin", "StopDriver", "NotStarted", "Replace", "WantRate",
           "AskTransition", "AwaitTransition", "Return"}
\* Where it goes when the voice's thread has been joined.
Afters == {"Idle", "Stopped", "PrepareVoice", "Return", "NotStarted"}
ThreadPlaces == {"None", "Opening", "Loop", "Busy", "Waiting", "Start", "Capture", "Push",
                 "Retry", "Done"}
VoiceStates == {"Stopped", "Starting", "Running", "Invalidated", "Failed"}
Told == {"Nothing", "Ready", "Failed"}
Known == Rates \cup {Gone}

Control == [pc : Places, then : Afters, call : Kinds \cup {"None", "Abort"}, calls : Nat,
            mic : Mics \cup {NoMic}, awaited : Nat]
Service == [active : {"None", "Wasapi", "Asio"}, exchange : Nat]
Wasapi == [pc : ThreadPlaces, stop : BOOLEAN, told : Told, exchange : Nat, using : Int]
Asio == [exchange : Nat, using : Int, started : BOOLEAN, hybrid : BOOLEAN]
Voice == [pc : ThreadPlaces, stop : BOOLEAN, told : Told, begin : BOOLEAN,
          state : VoiceStates, mic : Mics \cup {NoMic}, rate : Known, valid : BOOLEAN]
Bridge == [wanted : Known, asked : Nat, seen : Nat, applied : Nat, fed : Known,
           ring : Seq(Known)]

TypeInv == /\ ctl \in Control /\ svc \in Service /\ room \in Nat
           /\ wasapi \in Wasapi /\ asio \in Asio /\ voice \in Voice
           /\ bridge \in Bridge /\ mics \in [Mics -> Known]

\* A microphone is chosen before the voice's thread opens it.
ToOpen == \/ At("PrepareVoice")
          \/ At("OpenDriver") /\ asio.hybrid
          \/ ctl.pc \in {"StopVoice", "JoinVoice"} /\ ctl.then = "PrepareVoice"

MicInv == /\ ToOpen => ctl.mic \in Mics
          /\ voice.pc = "Opening" => voice.mic \in Mics

-------------------------------------------------------------------------------
(* Where the application's thread may be while a backend runs.               *)

WasapiRunsNow == wasapi.pc \in {"Opening", "Loop", "Busy"}
DriverRunsNow == asio.started \/ asio.using # Quiet

\* A microphone is replaced while the driver runs on.
Replacing == \/ ctl.pc \in {"WantRate", "AskTransition", "AwaitTransition"}
             \/ ctl.pc \in {"PrepareVoice", "AwaitVoice"} /\ ctl.call = "Replace"
             \/ ctl.pc \in {"StopVoice", "JoinVoice"}
                /\ \/ ctl.then = "PrepareVoice" /\ ctl.call = "Replace"
                   \/ ctl.then = "Return"

\* The driver is about to be started.
Starting == \/ ctl.pc \in {"OpenDriver", "PrepareVoice", "AwaitVoice", "StartDriver"}
            \/ ctl.pc \in {"StopVoice", "JoinVoice"} /\ ctl.then = "PrepareVoice"

WasapiInv ==
  /\ wasapi.using # Quiet => wasapi.pc = "Busy" /\ wasapi.using = wasapi.exchange
  /\ WasapiRunsNow => /\ svc.active = "Wasapi" /\ wasapi.exchange = room
                      /\ ctl.pc \in {"Idle", "Replace", "Stop", "JoinWasapi", "AwaitWasapi"}

DriverInv ==
  /\ asio.using # Quiet => asio.using = asio.exchange
  /\ DriverRunsNow => /\ svc.active = "Asio" /\ asio.exchange = room
                      /\ \/ ctl.pc \in {"Idle", "Replace", "Stop", "JoinDriver", "Begin",
                                        "AwaitBegin", "StopDriver", "Return"}
                         \/ Replacing
  /\ Starting => svc.active = "Asio" /\ asio.exchange = room
  /\ At("JoinDriver") => ~asio.started
  /\ At("Replace") => ctl.call = "Replace"

ExchangeInv == svc.exchange = room /\ WasapiInv /\ DriverInv

-------------------------------------------------------------------------------
(* Where it may be while the voice's thread has begun.                       *)

Begun == voice.begin \/ voice.pc \in {"Start", "Capture", "Push", "Retry"}

\* The bridge is set to what the thread captures, and nothing else is asked of it.
Set == bridge.asked = bridge.seen /\ bridge.fed = voice.rate

BridgeInv ==
  /\ bridge.seen = bridge.applied /\ bridge.seen <= bridge.asked
  /\ voice.pc = "Opening" => At("AwaitVoice") /\ voice.told = "Nothing"
  /\ Begun => Set
  /\ ctl.pc \in {"AwaitVoice", "WantRate", "AskTransition", "AwaitTransition"} => ~Begun
  /\ ctl.pc \in {"AskTransition", "AwaitTransition"} => bridge.wanted = voice.rate
  /\ At("AwaitTransition") =>
       /\ ctl.awaited = bridge.asked
       /\ bridge.asked = bridge.seen => bridge.fed = bridge.wanted
  /\ At("StartDriver") /\ asio.hybrid => Set
  /\ At("Begin") => Set
  /\ RatesAgree

AudioInv == TypeInv /\ MicInv /\ ExchangeInv /\ BridgeInv

-------------------------------------------------------------------------------
\* Every step keeps the types.
LEMMA TypeStep ==
  ASSUME TypeInv, MicInv, [Next]_vars
  PROVE  TypeInv'
<1> USE DEF TypeInv
<1>1. ASSUME NEW p \in Places, Goto(p) PROVE ctl' \in Control
  BY <1>1 DEF Goto, Control
<1>2. ASSUME NEW then \in Afters, ctl' = [ctl EXCEPT !.pc = "StopVoice", !.then = then]
      PROVE  ctl' \in Control
  BY <1>2 DEF Control, Places, Afters
<1>3. ASSUME NEW kind \in Kinds, Call(kind) PROVE TypeInv'
  <2>1. PICK p \in Places : ctl' = [ctl EXCEPT !.pc = p, !.call = kind, !.calls = @ + 1]
    BY <1>3 DEF Call, Places
  <2>2. ctl.calls + 1 \in Nat /\ kind \in Kinds \cup {"None", "Abort"}
    BY DEF Control
  <2>3. ctl' \in Control
    BY <2>1, <2>2 DEF Control
  <2> QED BY <1>3, <2>3 DEF Call
<1>4. CASE Stop
  <2>1. CASE svc.active = "None"
    BY <1>4, <2>1 DEF Stop, Goto, Control, Places, Afters
  <2>2. CASE svc.active = "Wasapi"
    <3>1. Goto("JoinWasapi") /\ wasapi' = [wasapi EXCEPT !.stop = TRUE]
      BY <1>4, <2>2 DEF Stop
    <3>2. ctl' \in Control /\ wasapi' \in Wasapi
      BY <3>1 DEF Goto, Control, Places, Afters, Wasapi
    <3> QED BY <1>4, <2>2, <3>2 DEF Stop
  <2>3. CASE svc.active = "Asio"
    <3>1. Goto("JoinDriver") /\ asio' = [asio EXCEPT !.started = FALSE]
      BY <1>4, <2>3 DEF Stop
    <3>2. ctl' \in Control /\ asio' \in Asio
      BY <3>1 DEF Goto, Control, Places, Afters, Asio
    <3> QED BY <1>4, <2>3, <3>2 DEF Stop
  <2> QED BY <2>1, <2>2, <2>3 DEF Service
<1>5. CASE JoinWasapi
  BY <1>5 DEF JoinWasapi, Ended, Goto, Control, Wasapi, Places, ThreadPlaces, Told
<1>6. CASE JoinDriver
  <2>1. PICK then \in Afters : ctl' = [ctl EXCEPT !.pc = "StopVoice", !.then = then]
    BY <1>6 DEF JoinDriver, Places, Afters
  <2> QED BY <1>6, <2>1 DEF JoinDriver, Control, Places, Afters
<1>7. CASE StopVoice
  BY <1>7 DEF StopVoice, Goto, Control, Voice, Places
<1>8. CASE JoinVoice
  BY <1>8 DEF JoinVoice, Ended, Goto, Control, Places, Afters, Voice, ThreadPlaces,
              VoiceStates, Told
<1>9. CASE Stopped
  <2>1. PICK n \in Nat : svc' = [active |-> "None", exchange |-> n] /\ room' = n
    BY <1>9 DEF Stopped, Control, Service, NoRoom
  <2>2. svc' \in Service /\ room' \in Nat
    BY <2>1 DEF Service
  <2>3. CASE ctl.call = "End"
    <3>1. Return
      BY <1>9, <2>3 DEF Stopped
    <3>2. ctl' \in Control
      BY <3>1 DEF Return, Control, Places, Afters
    <3> QED BY <1>9, <2>2, <3>2 DEF Stopped
  <2>4. CASE ctl.call # "End"
    <3>1. Goto("Open")
      BY <1>9, <2>4 DEF Stopped
    <3>2. ctl' \in Control
      BY <1>1, <3>1 DEF Places, Afters
    <3> QED BY <1>9, <2>2, <3>2 DEF Stopped
  <2> QED BY <2>3, <2>4
<1>10. CASE OpenWasapi
  BY <1>10 DEF OpenWasapi, GivenExchange, Goto, Control, Service, Wasapi, Places, ThreadPlaces, Told
<1>11. CASE OpenAsio
  <2>1. PICK setup \in Setups :
          /\ asio' = [GivenExchange(asio) EXCEPT !.hybrid = setup.voice \in Mics]
          /\ ctl' = [ctl EXCEPT !.pc = "OpenDriver",
                               !.mic = IF setup.voice \in Mics THEN setup.voice ELSE NoMic]
    BY <1>11 DEF OpenAsio
  <2>2. asio' \in Asio
    <3>1. PICK given \in Asio : given = GivenExchange(asio)
      BY DEF GivenExchange, Asio, Service
    <3>2. asio' = [given EXCEPT !.hybrid = setup.voice \in Mics]
      BY <2>1, <3>1, Zenon
    <3>3. CASE asio' = [given EXCEPT !.hybrid = TRUE]
      BY <3>3 DEF Asio
    <3>4. CASE asio' = [given EXCEPT !.hybrid = FALSE]
      BY <3>4 DEF Asio
    <3>5. (setup.voice \in Mics) = TRUE \/ (setup.voice \in Mics) = FALSE
      OBVIOUS
    <3> QED BY <3>2, <3>3, <3>4, <3>5, Zenon
  <2>3. ctl' \in Control
    BY <2>1 DEF Control, Places, Afters
  <2> QED BY <1>11, <2>2, <2>3 DEF OpenAsio, Service
<1>12. CASE OpenNothing
  BY <1>12 DEF OpenNothing, Return, Control, Places, Afters
<1>13. CASE AwaitWasapi
  BY <1>13 DEF AwaitWasapi, Return, Control, Service, Wasapi, Places, ThreadPlaces, Afters
<1>14. CASE OpenDriver
  <2>1. \/ Goto("PrepareVoice") \/ Goto("StartDriver")
        \/ ctl' = [ctl EXCEPT !.pc = "StopVoice", !.then = "NotStarted"]
    BY <1>14 DEF OpenDriver
  <2>2. ctl' \in Control
    BY <1>1, <1>2, <2>1 DEF Places, Afters
  <2> QED BY <1>14, <2>2 DEF OpenDriver
<1>15. CASE PrepareVoice
  BY <1>15 DEF PrepareVoice, Goto, Control, Voice, Places, ThreadPlaces, VoiceStates, Told
<1>16. CASE AwaitVoice
  <2>1. ctl' \in Control
    <3>1. \/ Goto("StartDriver") \/ Goto("WantRate")
          \/ \E then \in Afters : ctl' = [ctl EXCEPT !.pc = "StopVoice", !.then = then]
      BY <1>16 DEF AwaitVoice, Places, Afters
    <3> QED BY <1>1, <1>2, <3>1 DEF Places, Afters
  <2>2. bridge' \in Bridge
    <3>1. CASE bridge' = bridge
      BY <3>1
    <3>2. CASE bridge' = [wanted |-> voice.rate, asked |-> bridge.asked + 1,
                          seen |-> bridge.asked + 1, applied |-> bridge.asked + 1,
                          fed |-> voice.rate, ring |-> <<>>]
      <4>1. <<>> \in Seq(Known) /\ voice.rate \in Known /\ bridge.asked + 1 \in Nat
        BY DEF Voice, Bridge
      <4> QED BY <3>2, <4>1 DEF Bridge
    <3> QED BY <1>16, <3>1, <3>2 DEF AwaitVoice
  <2> QED BY <1>16, <2>1, <2>2 DEF AwaitVoice
<1>17. CASE StartDriver
  <2>1. CASE asio' = [asio EXCEPT !.started = TRUE]
             /\ Goto(IF asio.hybrid THEN "Begin" ELSE "Return")
    BY <1>17, <2>1 DEF StartDriver, Goto, Control, Places, Afters, Asio
  <2>2. CASE UNCHANGED asio /\ ctl' = [ctl EXCEPT !.pc = "StopVoice", !.then = "NotStarted"]
    BY <1>17, <2>2 DEF StartDriver, Control, Places, Afters
  <2> QED BY <1>17, <2>1, <2>2 DEF StartDriver
<1>18. CASE Begin
  BY <1>18 DEF Begin, Goto, Control, Voice, Places
<1>19. CASE AwaitBegin
  <2>1. \/ Goto("Return") \/ Goto("StopDriver")
        \/ ctl' = [ctl EXCEPT !.pc = "StopVoice", !.then = "Return"]
    BY <1>19 DEF AwaitBegin
  <2>2. ctl' \in Control
    BY <1>1, <1>2, <2>1 DEF Places, Afters
  <2> QED BY <1>19, <2>2 DEF AwaitBegin
<1>20. CASE StopDriver
  BY <1>20 DEF StopDriver, Control, Asio, Places
<1>21. CASE NotStarted
  BY <1>21 DEF NotStarted, Return, Control, Service, Places, Afters
<1>22. CASE Replace
  <2>1. CASE Return
    BY <1>22, <2>1 DEF Replace, Return, Control, Places, Afters
  <2>2. CASE \E m \in Mics :
               ctl' = [ctl EXCEPT !.pc = "StopVoice", !.then = "PrepareVoice", !.mic = m]
    BY <1>22, <2>2 DEF Replace, Control, Places, Afters
  <2> QED BY <1>22, <2>1, <2>2 DEF Replace
<1>23. CASE WantRate
  BY <1>23 DEF WantRate, Goto, Control, Bridge, Voice, Places
<1>24. CASE AskTransition
  <2>1. bridge.asked + 1 \in Nat
    BY DEF Bridge
  <2>2. ctl' \in Control /\ bridge' \in Bridge
    BY <1>24, <2>1 DEF AskTransition, Control, Bridge, Places
  <2> QED BY <1>24, <2>2 DEF AskTransition
<1>25. CASE AwaitTransition
  <2>1. \/ Goto("Begin")
        \/ ctl' = [ctl EXCEPT !.pc = "StopVoice", !.then = "Return"]
    BY <1>25 DEF AwaitTransition
  <2>2. ctl' \in Control
    BY <1>1, <1>2, <2>1 DEF Places, Afters
  <2> QED BY <1>25, <2>2 DEF AwaitTransition
<1>26. CASE Returns
  BY <1>26 DEF Returns, Return, Control, Places, Afters
<1>27. CASE WasapiFails
  BY <1>27 DEF WasapiFails, Wasapi, ThreadPlaces, Told
<1>28. CASE WasapiRuns
  BY <1>28 DEF WasapiRuns, Wasapi, ThreadPlaces, Told
<1>29. CASE WasapiTold
  BY <1>29 DEF WasapiTold, Wasapi, ThreadPlaces
<1>30. CASE WasapiCaptures
  <2>1. wasapi.exchange \in Int /\ "Busy" \in ThreadPlaces /\ "Done" \in ThreadPlaces
    BY DEF Wasapi, ThreadPlaces
  <2>2. wasapi' \in Wasapi
    BY <1>30, <2>1 DEF WasapiCaptures, Wasapi
  <2> QED BY <1>30, <2>2 DEF WasapiCaptures, WasapiEvent
<1>31. CASE WasapiRenders
  <2>1. wasapi.exchange \in Int /\ "Busy" \in ThreadPlaces
    BY DEF Wasapi, ThreadPlaces
  <2>2. wasapi' \in Wasapi
    BY <1>31, <2>1 DEF WasapiRenders, Wasapi
  <2> QED BY <1>31, <2>2 DEF WasapiRenders, WasapiEvent
<1>32. CASE WasapiDone
  <2>1. Quiet \in Int
    BY DEF Quiet
  <2>2. PICK pc \in ThreadPlaces : wasapi' = [wasapi EXCEPT !.pc = pc, !.using = Quiet]
    BY <1>32 DEF WasapiDone, ThreadPlaces
  <2>3. wasapi' \in Wasapi
    BY <2>1, <2>2 DEF Wasapi
  <2> QED BY <1>32, <2>3 DEF WasapiDone
<1>33. CASE DriverCalls
  <2>1. asio' \in Asio
    BY <1>33 DEF DriverCalls, Asio
  <2>2. Pulled \in Bridge
    <3>1. <<>> \in Seq(Known)
      OBVIOUS
    <3>2. CASE bridge.asked # bridge.seen
      BY <3>1, <3>2 DEF Pulled, Bridge
    <3>3. CASE bridge.asked = bridge.seen
      BY <3>1, <3>3 DEF Pulled, Bridge
    <3> QED BY <3>2, <3>3
  <2> QED BY <1>33, <2>1, <2>2 DEF DriverCalls
<1>34. CASE DriverDone
  BY <1>34 DEF DriverDone, Asio, Quiet
<1>35. CASE VoiceOpens
  <2>1. mics[voice.mic] \in Known
    BY <1>35 DEF VoiceOpens, MicInv
  <2>2. CASE voice' = [voice EXCEPT !.pc = "Waiting", !.rate = mics[voice.mic], !.valid = TRUE,
                                   !.told = "Ready"]
    BY <1>35, <2>1, <2>2 DEF VoiceOpens, Voice, ThreadPlaces, Told
  <2>3. CASE voice' = [voice EXCEPT !.pc = "Done", !.state = "Failed", !.told = "Failed"]
    BY <1>35, <2>3 DEF VoiceOpens, Voice, ThreadPlaces, Told, VoiceStates
  <2> QED BY <1>35, <2>2, <2>3 DEF VoiceOpens
<1>36. CASE VoiceWaits
  BY <1>36 DEF VoiceWaits, Waited, Voice, ThreadPlaces
<1>37. CASE VoiceStarts
  BY <1>37 DEF VoiceStarts, Voice, ThreadPlaces, VoiceStates
<1>38. CASE VoiceTold
  BY <1>38 DEF VoiceTold, Voice, ThreadPlaces, VoiceStates
<1>39. CASE VoiceEvent
  BY <1>39 DEF VoiceEvent, Voice, ThreadPlaces, VoiceStates
<1>40. CASE VoicePushed
  <2>1. voice' \in Voice
    BY <1>40 DEF VoicePushed, Voice, ThreadPlaces
  <2>2. Append(bridge.ring, voice.rate) \in Seq(Known)
    BY DEF Bridge, Voice
  <2>3. bridge' \in Bridge
    <3>1. bridge' = bridge \/ bridge' = [bridge EXCEPT !.ring = Append(bridge.ring, voice.rate)]
      BY <1>40 DEF VoicePushed
    <3> QED BY <2>2, <3>1 DEF Bridge
  <2> QED BY <1>40, <2>1, <2>3 DEF VoicePushed
<1>41. CASE VoiceReopens
  BY <1>41 DEF VoiceReopens, Fits, Voice, ThreadPlaces, VoiceStates
<1>42. ASSUME NEW m \in Mics, MicChanges(m) PROVE TypeInv'
  <2>1. PICK rate \in Known : mics' = [mics EXCEPT ![m] = rate]
    BY <1>42 DEF MicChanges, Known
  <2> QED BY <1>42, <2>1 DEF MicChanges, Voice
<1>43. CASE UNCHANGED vars
  BY <1>43 DEF vars
<1> QED BY <1>3, <1>4, <1>5, <1>6, <1>7, <1>8, <1>9, <1>10, <1>11, <1>12, <1>13,
           <1>14, <1>15, <1>16, <1>17, <1>18, <1>19, <1>20, <1>21, <1>22, <1>23,
           <1>24, <1>25, <1>26, <1>27, <1>28, <1>29, <1>30, <1>31, <1>32, <1>33,
           <1>34, <1>35, <1>36, <1>37, <1>38, <1>39, <1>40, <1>41, <1>42, <1>43
        DEF Next, ControlStep, WasapiStep, VoiceStep

\* And a microphone chosen.
LEMMA MicStep ==
  ASSUME AudioInv, [Next]_vars
  PROVE  MicInv'
<1> USE DEF AudioInv, TypeInv, MicInv, ToOpen, At, Control, Service, Wasapi, Asio,
           Voice, Bridge
<1>1. ASSUME NEW kind \in Kinds, Call(kind) PROVE MicInv'
  BY <1>1 DEF Call, Kinds
<1>2. CASE Stop
  <2>1. At("Stop") /\ UNCHANGED <<svc, room, voice, bridge, mics>>
    BY <1>2 DEF Stop
  <2>2. \/ svc.active = "None" /\ Goto("Stopped") /\ UNCHANGED <<wasapi, asio>>
        \/ /\ svc.active = "Wasapi"
           /\ Goto("JoinWasapi")
           /\ wasapi' = [wasapi EXCEPT !.stop = TRUE]
           /\ UNCHANGED asio
        \/ /\ svc.active = "Asio"
           /\ Goto("JoinDriver")
           /\ asio' = [asio EXCEPT !.started = FALSE]
           /\ UNCHANGED wasapi
    BY <1>2 DEF Stop
  <2>3. CASE svc.active = "None" /\ Goto("Stopped") /\ UNCHANGED <<wasapi, asio>>
    BY <2>1, <2>3 DEF Goto
  <2>4. CASE /\ svc.active = "Wasapi"
             /\ Goto("JoinWasapi")
             /\ wasapi' = [wasapi EXCEPT !.stop = TRUE]
             /\ UNCHANGED asio
    BY <2>1, <2>4 DEF Goto
  <2>5. CASE /\ svc.active = "Asio"
             /\ Goto("JoinDriver")
             /\ asio' = [asio EXCEPT !.started = FALSE]
             /\ UNCHANGED wasapi
    BY <2>1, <2>5 DEF Goto
  <2> QED BY <2>2, <2>3, <2>4, <2>5
<1>3. CASE JoinWasapi
  BY <1>3 DEF JoinWasapi, Ended, Goto
<1>4. CASE JoinDriver
  BY <1>4 DEF JoinDriver, Goto
<1>5. CASE StopVoice
  BY <1>5 DEF StopVoice, Goto
<1>6. CASE JoinVoice
  <2>1. At("JoinVoice") /\ UNCHANGED <<svc, room, wasapi, asio, bridge, mics>>
        /\ Ended(voice)
    BY <1>6 DEF JoinVoice
  <2>2. voice'.pc = "None" /\ ~voice'.begin
    BY <1>6 DEF JoinVoice
  <2>3. ctl' = [ctl EXCEPT !.pc = ctl.then]
    BY <1>6 DEF JoinVoice, Goto
  <2> QED BY <2>1, <2>2, <2>3 DEF Afters, Ended
<1>7. CASE Stopped
  BY <1>7 DEF Stopped, Return, Goto
<1>8. CASE OpenWasapi
  BY <1>8 DEF OpenWasapi, GivenExchange, Goto
<1>9. CASE OpenAsio
  BY <1>9 DEF OpenAsio, GivenExchange, Goto
<1>10. CASE OpenNothing
  BY <1>10 DEF OpenNothing, Return, Goto
<1>11. CASE AwaitWasapi
  BY <1>11 DEF AwaitWasapi, Return, Goto
<1>12. CASE OpenDriver
  BY <1>12 DEF OpenDriver, Goto
<1>13. CASE PrepareVoice
  BY <1>13 DEF PrepareVoice, Goto
<1>14. CASE AwaitVoice
  <2>1. At("AwaitVoice") /\ UNCHANGED <<svc, room, wasapi, asio, voice, mics>>
        /\ voice.told # "Nothing"
    BY <1>14 DEF AwaitVoice
  <2>2. \/ /\ ctl.call = "Replace"
           /\ ctl' = [ctl EXCEPT !.pc = "StopVoice", !.then = "Return"]
           /\ UNCHANGED bridge
        \/ /\ ctl.call # "Replace"
           /\ ctl' = [ctl EXCEPT !.pc = "StopVoice", !.then = "NotStarted"]
           /\ UNCHANGED bridge
        \/ ctl.call = "Replace" /\ Goto("WantRate") /\ UNCHANGED bridge
        \/ /\ ctl.call # "Replace"
           /\ Goto("StartDriver")
           /\ bridge' = [wanted |-> voice.rate, asked |-> bridge.asked + 1,
                         seen |-> bridge.asked + 1, applied |-> bridge.asked + 1,
                         fed |-> voice.rate, ring |-> <<>>]
    BY <1>14 DEF AwaitVoice
  <2>3. CASE /\ ctl.call = "Replace"
             /\ ctl' = [ctl EXCEPT !.pc = "StopVoice", !.then = "Return"]
             /\ UNCHANGED bridge
    BY <2>1, <2>3
  <2>4. CASE /\ ctl.call # "Replace"
             /\ ctl' = [ctl EXCEPT !.pc = "StopVoice", !.then = "NotStarted"]
             /\ UNCHANGED bridge
    BY <2>1, <2>4
  <2>5. CASE ctl.call = "Replace" /\ Goto("WantRate") /\ UNCHANGED bridge
    BY <2>1, <2>5 DEF Goto
  <2>6. CASE /\ ctl.call # "Replace"
             /\ Goto("StartDriver")
             /\ bridge' = [wanted |-> voice.rate, asked |-> bridge.asked + 1,
                           seen |-> bridge.asked + 1, applied |-> bridge.asked + 1,
                           fed |-> voice.rate, ring |-> <<>>]
    BY <2>1, <2>6 DEF Goto
  <2> QED BY <2>2, <2>3, <2>4, <2>5, <2>6
<1>15. CASE StartDriver
  BY <1>15 DEF StartDriver, Goto
<1>16. CASE Begin
  BY <1>16 DEF Begin, Goto
<1>17. CASE AwaitBegin
  <2>1. At("AwaitBegin") /\ UNCHANGED <<svc, room, wasapi, asio, voice, bridge, mics>>
    BY <1>17 DEF AwaitBegin
  <2>2. \/ Goto("Return")
        \/ /\ ctl.call = "Replace"
           /\ ctl' = [ctl EXCEPT !.pc = "StopVoice", !.then = "Return"]
        \/ ctl.call # "Replace" /\ Goto("StopDriver")
    BY <1>17 DEF AwaitBegin
  <2>3. CASE Goto("Return")
    BY <2>1, <2>3 DEF Goto
  <2>4. CASE /\ ctl.call = "Replace"
             /\ ctl' = [ctl EXCEPT !.pc = "StopVoice", !.then = "Return"]
    BY <2>1, <2>4
  <2>5. CASE ctl.call # "Replace" /\ Goto("StopDriver")
    BY <2>1, <2>5 DEF Goto
  <2> QED BY <2>2, <2>3, <2>4, <2>5
<1>18. CASE StopDriver
  BY <1>18 DEF StopDriver, Goto
<1>19. CASE NotStarted
  BY <1>19 DEF NotStarted, Return, Goto
<1>20. CASE Replace
  <2>1. At("Replace") /\ UNCHANGED <<svc, room, wasapi, asio, voice, bridge, mics>>
    BY <1>20 DEF Replace
  <2>2. \/ Return
        \/ /\ asio.started /\ asio.hybrid
           /\ \E m \in Mics : ctl' = [ctl EXCEPT !.pc = "StopVoice", !.then = "PrepareVoice",
                                              !.mic = m]
    BY <1>20 DEF Replace
  <2>3. CASE Return
    BY <2>1, <2>3 DEF Return
  <2>4. CASE /\ asio.started /\ asio.hybrid
             /\ \E m \in Mics : ctl' = [ctl EXCEPT !.pc = "StopVoice", !.then = "PrepareVoice",
                                              !.mic = m]
    BY <2>1, <2>4
  <2> QED BY <2>2, <2>3, <2>4
<1>21. CASE WantRate
  BY <1>21 DEF WantRate, Goto
<1>22. CASE AskTransition
  BY <1>22 DEF AskTransition, Goto
<1>23. CASE AwaitTransition
  BY <1>23 DEF AwaitTransition, TransitionApplied, Goto
<1>24. CASE Returns
  BY <1>24 DEF Returns, Return, Goto
<1>25. CASE WasapiFails
  BY <1>25 DEF WasapiFails
<1>26. CASE WasapiRuns
  BY <1>26 DEF WasapiRuns
<1>27. CASE WasapiTold
  BY <1>27 DEF WasapiTold
<1>28. CASE WasapiCaptures
  BY <1>28 DEF WasapiCaptures, WasapiEvent
<1>29. CASE WasapiRenders
  BY <1>29 DEF WasapiRenders, WasapiEvent
<1>30. CASE WasapiDone
  BY <1>30 DEF WasapiDone
<1>31. CASE DriverCalls
  BY <1>31 DEF DriverCalls, Pulled
<1>32. CASE DriverDone
  BY <1>32 DEF DriverDone
<1>33. CASE VoiceOpens
  BY <1>33 DEF VoiceOpens
<1>34. CASE VoiceWaits
  BY <1>34 DEF VoiceWaits, Waited
<1>35. CASE VoiceStarts
  BY <1>35 DEF VoiceStarts
<1>36. CASE VoiceTold
  BY <1>36 DEF VoiceTold
<1>37. CASE VoiceEvent
  BY <1>37 DEF VoiceEvent
<1>38. CASE VoicePushed
  BY <1>38 DEF VoicePushed
<1>39. CASE VoiceReopens
  BY <1>39 DEF VoiceReopens, Fits
<1>40. ASSUME NEW m \in Mics, MicChanges(m) PROVE MicInv'
  BY <1>40 DEF MicChanges
<1>41. CASE UNCHANGED vars
  BY <1>41 DEF vars
<1> QED BY <1>1, <1>2, <1>3, <1>4, <1>5, <1>6, <1>7, <1>8, <1>9, <1>10, <1>11,
           <1>12, <1>13, <1>14, <1>15, <1>16, <1>17, <1>18, <1>19, <1>20, <1>21,
           <1>22, <1>23, <1>24, <1>25, <1>26, <1>27, <1>28, <1>29, <1>30, <1>31,
           <1>32, <1>33, <1>34, <1>35, <1>36, <1>37, <1>38, <1>39, <1>40, <1>41
        DEF Next, ControlStep, WasapiStep, VoiceStep

\* No backend runs where the transport is exchanged.
LEMMA ExchangeStep ==
  ASSUME AudioInv, [Next]_vars
  PROVE  ExchangeInv'
<1> USE DEF AudioInv, TypeInv, ExchangeInv, WasapiInv, WasapiRunsNow, DriverInv,
           DriverRunsNow, Replacing, Starting, At, NoRoom, Quiet, Control, Service,
           Wasapi, Asio, Voice, Bridge
<1>1. ASSUME NEW kind \in Kinds, Call(kind) PROVE ExchangeInv'
  BY <1>1 DEF Call, Kinds
<1>2. CASE Stop
  <2>1. At("Stop") /\ UNCHANGED <<svc, room, voice, bridge, mics>>
    BY <1>2 DEF Stop
  <2>2. \/ svc.active = "None" /\ Goto("Stopped") /\ UNCHANGED <<wasapi, asio>>
        \/ /\ svc.active = "Wasapi"
           /\ Goto("JoinWasapi")
           /\ wasapi' = [wasapi EXCEPT !.stop = TRUE]
           /\ UNCHANGED asio
        \/ /\ svc.active = "Asio"
           /\ Goto("JoinDriver")
           /\ asio' = [asio EXCEPT !.started = FALSE]
           /\ UNCHANGED wasapi
    BY <1>2 DEF Stop
  <2>3. CASE svc.active = "None" /\ Goto("Stopped") /\ UNCHANGED <<wasapi, asio>>
    BY <2>1, <2>3 DEF Goto
  <2>4. CASE /\ svc.active = "Wasapi"
             /\ Goto("JoinWasapi")
             /\ wasapi' = [wasapi EXCEPT !.stop = TRUE]
             /\ UNCHANGED asio
    BY <2>1, <2>4 DEF Goto
  <2>5. CASE /\ svc.active = "Asio"
             /\ Goto("JoinDriver")
             /\ asio' = [asio EXCEPT !.started = FALSE]
             /\ UNCHANGED wasapi
    BY <2>1, <2>5 DEF Goto
  <2> QED BY <2>2, <2>3, <2>4, <2>5
<1>3. CASE JoinWasapi
  BY <1>3 DEF JoinWasapi, Ended, Goto
<1>4. CASE JoinDriver
  BY <1>4 DEF JoinDriver, Goto
<1>5. CASE StopVoice
  BY <1>5 DEF StopVoice, Goto
<1>6. CASE JoinVoice
  <2>1. At("JoinVoice") /\ UNCHANGED <<svc, room, wasapi, asio, bridge, mics>>
        /\ Ended(voice)
    BY <1>6 DEF JoinVoice
  <2>2. voice'.pc = "None" /\ ~voice'.begin
    BY <1>6 DEF JoinVoice
  <2>3. ctl' = [ctl EXCEPT !.pc = ctl.then]
    BY <1>6 DEF JoinVoice, Goto
  <2> QED BY <2>1, <2>2, <2>3 DEF Afters, Ended
<1>7. CASE Stopped
  <2>1. At("Stopped") /\ UNCHANGED <<wasapi, asio, voice, bridge, mics>>
    BY <1>7 DEF Stopped
  <2>2. svc'.exchange = room'
    BY <1>7 DEF Stopped
  <2>3. ~WasapiRunsNow /\ ~DriverRunsNow
    BY <2>1
  <2>4. CASE Return
    BY <2>1, <2>2, <2>3, <2>4 DEF Return
  <2>5. CASE Goto("Open")
    BY <2>1, <2>2, <2>3, <2>5 DEF Goto
  <2> QED BY <1>7, <2>4, <2>5 DEF Stopped
<1>8. CASE OpenWasapi
  BY <1>8 DEF OpenWasapi, GivenExchange, Goto
<1>9. CASE OpenAsio
  BY <1>9 DEF OpenAsio, GivenExchange, Goto
<1>10. CASE OpenNothing
  BY <1>10 DEF OpenNothing, Return, Goto
<1>11. CASE AwaitWasapi
  BY <1>11 DEF AwaitWasapi, Return, Goto
<1>12. CASE OpenDriver
  BY <1>12 DEF OpenDriver, Goto
<1>13. CASE PrepareVoice
  BY <1>13 DEF PrepareVoice, Goto
<1>14. CASE AwaitVoice
  <2>1. At("AwaitVoice") /\ UNCHANGED <<svc, room, wasapi, asio, voice, mics>>
        /\ voice.told # "Nothing"
    BY <1>14 DEF AwaitVoice
  <2>2. \/ /\ ctl.call = "Replace"
           /\ ctl' = [ctl EXCEPT !.pc = "StopVoice", !.then = "Return"]
           /\ UNCHANGED bridge
        \/ /\ ctl.call # "Replace"
           /\ ctl' = [ctl EXCEPT !.pc = "StopVoice", !.then = "NotStarted"]
           /\ UNCHANGED bridge
        \/ ctl.call = "Replace" /\ Goto("WantRate") /\ UNCHANGED bridge
        \/ /\ ctl.call # "Replace"
           /\ Goto("StartDriver")
           /\ bridge' = [wanted |-> voice.rate, asked |-> bridge.asked + 1,
                         seen |-> bridge.asked + 1, applied |-> bridge.asked + 1,
                         fed |-> voice.rate, ring |-> <<>>]
    BY <1>14 DEF AwaitVoice
  <2>3. CASE /\ ctl.call = "Replace"
             /\ ctl' = [ctl EXCEPT !.pc = "StopVoice", !.then = "Return"]
             /\ UNCHANGED bridge
    BY <2>1, <2>3
  <2>4. CASE /\ ctl.call # "Replace"
             /\ ctl' = [ctl EXCEPT !.pc = "StopVoice", !.then = "NotStarted"]
             /\ UNCHANGED bridge
    BY <2>1, <2>4
  <2>5. CASE ctl.call = "Replace" /\ Goto("WantRate") /\ UNCHANGED bridge
    BY <2>1, <2>5 DEF Goto
  <2>6. CASE /\ ctl.call # "Replace"
             /\ Goto("StartDriver")
             /\ bridge' = [wanted |-> voice.rate, asked |-> bridge.asked + 1,
                           seen |-> bridge.asked + 1, applied |-> bridge.asked + 1,
                           fed |-> voice.rate, ring |-> <<>>]
    BY <2>1, <2>6 DEF Goto
  <2> QED BY <2>2, <2>3, <2>4, <2>5, <2>6
<1>15. CASE StartDriver
  <2>1. At("StartDriver") /\ UNCHANGED <<svc, room, wasapi, voice, bridge, mics>>
    BY <1>15 DEF StartDriver
  <2>2. \/ asio.hybrid /\ Goto("Begin") /\ asio' = [asio EXCEPT !.started = TRUE]
        \/ ~asio.hybrid /\ Goto("Return") /\ asio' = [asio EXCEPT !.started = TRUE]
        \/ /\ ctl' = [ctl EXCEPT !.pc = "StopVoice", !.then = "NotStarted"]
           /\ UNCHANGED asio
    BY <1>15 DEF StartDriver
  <2>3. CASE asio.hybrid /\ Goto("Begin") /\ asio' = [asio EXCEPT !.started = TRUE]
    BY <2>1, <2>3 DEF Goto
  <2>4. CASE ~asio.hybrid /\ Goto("Return") /\ asio' = [asio EXCEPT !.started = TRUE]
    BY <2>1, <2>4 DEF Goto
  <2>5. CASE /\ ctl' = [ctl EXCEPT !.pc = "StopVoice", !.then = "NotStarted"]
             /\ UNCHANGED asio
    BY <2>1, <2>5
  <2> QED BY <2>2, <2>3, <2>4, <2>5
<1>16. CASE Begin
  BY <1>16 DEF Begin, Goto
<1>17. CASE AwaitBegin
  <2>1. At("AwaitBegin") /\ UNCHANGED <<svc, room, wasapi, asio, voice, bridge, mics>>
    BY <1>17 DEF AwaitBegin
  <2>2. \/ Goto("Return")
        \/ /\ ctl.call = "Replace"
           /\ ctl' = [ctl EXCEPT !.pc = "StopVoice", !.then = "Return"]
        \/ ctl.call # "Replace" /\ Goto("StopDriver")
    BY <1>17 DEF AwaitBegin
  <2>3. CASE Goto("Return")
    BY <2>1, <2>3 DEF Goto
  <2>4. CASE /\ ctl.call = "Replace"
             /\ ctl' = [ctl EXCEPT !.pc = "StopVoice", !.then = "Return"]
    BY <2>1, <2>4
  <2>5. CASE ctl.call # "Replace" /\ Goto("StopDriver")
    BY <2>1, <2>5 DEF Goto
  <2> QED BY <2>2, <2>3, <2>4, <2>5
<1>18. CASE StopDriver
  BY <1>18 DEF StopDriver, Goto
<1>19. CASE NotStarted
  BY <1>19 DEF NotStarted, Return, Goto
<1>20. CASE Replace
  <2>1. At("Replace") /\ UNCHANGED <<svc, room, wasapi, asio, voice, bridge, mics>>
    BY <1>20 DEF Replace
  <2>2. \/ Return
        \/ /\ asio.started /\ asio.hybrid
           /\ \E m \in Mics : ctl' = [ctl EXCEPT !.pc = "StopVoice", !.then = "PrepareVoice",
                                              !.mic = m]
    BY <1>20 DEF Replace
  <2>3. CASE Return
    BY <2>1, <2>3 DEF Return
  <2>4. CASE /\ asio.started /\ asio.hybrid
             /\ \E m \in Mics : ctl' = [ctl EXCEPT !.pc = "StopVoice", !.then = "PrepareVoice",
                                              !.mic = m]
    BY <2>1, <2>4
  <2> QED BY <2>2, <2>3, <2>4
<1>21. CASE WantRate
  BY <1>21 DEF WantRate, Goto
<1>22. CASE AskTransition
  BY <1>22 DEF AskTransition, Goto
<1>23. CASE AwaitTransition
  <2>1. At("AwaitTransition") /\ UNCHANGED <<svc, room, wasapi, asio, voice, bridge, mics>>
    BY <1>23 DEF AwaitTransition
  <2>2. \/ bridge.applied >= ctl.awaited /\ Goto("Begin")
        \/ ctl' = [ctl EXCEPT !.pc = "StopVoice", !.then = "Return"]
    BY <1>23 DEF AwaitTransition, TransitionApplied
  <2>3. CASE bridge.applied >= ctl.awaited /\ Goto("Begin")
    BY <2>1, <2>3 DEF Goto
  <2>4. CASE ctl' = [ctl EXCEPT !.pc = "StopVoice", !.then = "Return"]
    BY <2>1, <2>4
  <2> QED BY <2>2, <2>3, <2>4
<1>24. CASE Returns
  BY <1>24 DEF Returns, Return, Goto
<1>25. CASE WasapiFails
  BY <1>25 DEF WasapiFails
<1>26. CASE WasapiRuns
  BY <1>26 DEF WasapiRuns
<1>27. CASE WasapiTold
  BY <1>27 DEF WasapiTold
<1>28. CASE WasapiCaptures
  BY <1>28 DEF WasapiCaptures, WasapiEvent
<1>29. CASE WasapiRenders
  BY <1>29 DEF WasapiRenders, WasapiEvent
<1>30. CASE WasapiDone
  BY <1>30 DEF WasapiDone
<1>31. CASE DriverCalls
  BY <1>31 DEF DriverCalls, Pulled
<1>32. CASE DriverDone
  BY <1>32 DEF DriverDone
<1>33. CASE VoiceOpens
  BY <1>33 DEF VoiceOpens
<1>34. CASE VoiceWaits
  BY <1>34 DEF VoiceWaits, Waited
<1>35. CASE VoiceStarts
  BY <1>35 DEF VoiceStarts
<1>36. CASE VoiceTold
  BY <1>36 DEF VoiceTold
<1>37. CASE VoiceEvent
  BY <1>37 DEF VoiceEvent
<1>38. CASE VoicePushed
  BY <1>38 DEF VoicePushed
<1>39. CASE VoiceReopens
  BY <1>39 DEF VoiceReopens, Fits
<1>40. ASSUME NEW m \in Mics, MicChanges(m) PROVE ExchangeInv'
  BY <1>40 DEF MicChanges
<1>41. CASE UNCHANGED vars
  BY <1>41 DEF vars
<1> QED BY <1>1, <1>2, <1>3, <1>4, <1>5, <1>6, <1>7, <1>8, <1>9, <1>10, <1>11,
           <1>12, <1>13, <1>14, <1>15, <1>16, <1>17, <1>18, <1>19, <1>20, <1>21,
           <1>22, <1>23, <1>24, <1>25, <1>26, <1>27, <1>28, <1>29, <1>30, <1>31,
           <1>32, <1>33, <1>34, <1>35, <1>36, <1>37, <1>38, <1>39, <1>40, <1>41
        DEF Next, ControlStep, WasapiStep, VoiceStep

\* The bridge is set before the voice begins, and left alone after.
LEMMA BridgeStep ==
  ASSUME AudioInv, [Next]_vars
  PROVE  BridgeInv'
<1> USE DEF AudioInv, TypeInv, BridgeInv, Begun, Set, RatesAgree, At, Control,
           Service, Wasapi, Asio, Voice, Bridge
<1>1. ASSUME NEW kind \in Kinds, Call(kind) PROVE BridgeInv'
  BY <1>1 DEF Call, Kinds
<1>2. CASE Stop
  <2>1. At("Stop") /\ UNCHANGED <<svc, room, voice, bridge, mics>>
    BY <1>2 DEF Stop
  <2>2. \/ svc.active = "None" /\ Goto("Stopped") /\ UNCHANGED <<wasapi, asio>>
        \/ /\ svc.active = "Wasapi"
           /\ Goto("JoinWasapi")
           /\ wasapi' = [wasapi EXCEPT !.stop = TRUE]
           /\ UNCHANGED asio
        \/ /\ svc.active = "Asio"
           /\ Goto("JoinDriver")
           /\ asio' = [asio EXCEPT !.started = FALSE]
           /\ UNCHANGED wasapi
    BY <1>2 DEF Stop
  <2>3. CASE svc.active = "None" /\ Goto("Stopped") /\ UNCHANGED <<wasapi, asio>>
    BY <2>1, <2>3 DEF Goto
  <2>4. CASE /\ svc.active = "Wasapi"
             /\ Goto("JoinWasapi")
             /\ wasapi' = [wasapi EXCEPT !.stop = TRUE]
             /\ UNCHANGED asio
    BY <2>1, <2>4 DEF Goto
  <2>5. CASE /\ svc.active = "Asio"
             /\ Goto("JoinDriver")
             /\ asio' = [asio EXCEPT !.started = FALSE]
             /\ UNCHANGED wasapi
    BY <2>1, <2>5 DEF Goto
  <2> QED BY <2>2, <2>3, <2>4, <2>5
<1>3. CASE JoinWasapi
  BY <1>3 DEF JoinWasapi, Ended, Goto
<1>4. CASE JoinDriver
  BY <1>4 DEF JoinDriver, Goto
<1>5. CASE StopVoice
  BY <1>5 DEF StopVoice, Goto
<1>6. CASE JoinVoice
  <2>1. At("JoinVoice") /\ UNCHANGED <<svc, room, wasapi, asio, bridge, mics>>
        /\ Ended(voice)
    BY <1>6 DEF JoinVoice
  <2>2. voice'.pc = "None" /\ ~voice'.begin
    BY <1>6 DEF JoinVoice
  <2>3. ctl' = [ctl EXCEPT !.pc = ctl.then]
    BY <1>6 DEF JoinVoice, Goto
  <2> QED BY <2>1, <2>2, <2>3 DEF Afters, Ended
<1>7. CASE Stopped
  <2>1. At("Stopped") /\ UNCHANGED <<wasapi, asio, voice, bridge, mics>>
    BY <1>7 DEF Stopped
  <2>2. \/ Return
        \/ Goto("Open")
    BY <1>7 DEF Stopped
  <2>3. CASE Return
    BY <2>1, <2>3 DEF Return
  <2>4. CASE Goto("Open")
    BY <2>1, <2>4 DEF Goto
  <2> QED BY <2>2, <2>3, <2>4
<1>8. CASE OpenWasapi
  BY <1>8 DEF OpenWasapi, GivenExchange, Goto
<1>9. CASE OpenAsio
  BY <1>9 DEF OpenAsio, GivenExchange, Goto
<1>10. CASE OpenNothing
  BY <1>10 DEF OpenNothing, Return, Goto
<1>11. CASE AwaitWasapi
  BY <1>11 DEF AwaitWasapi, Return, Goto
<1>12. CASE OpenDriver
  <2>1. At("OpenDriver") /\ UNCHANGED <<svc, room, wasapi, asio, voice, bridge, mics>>
    BY <1>12 DEF OpenDriver
  <2>2. \/ asio.hybrid /\ Goto("PrepareVoice")
        \/ ~asio.hybrid /\ Goto("StartDriver")
        \/ ctl' = [ctl EXCEPT !.pc = "StopVoice", !.then = "NotStarted"]
    BY <1>12 DEF OpenDriver
  <2>3. CASE asio.hybrid /\ Goto("PrepareVoice")
    BY <2>1, <2>3 DEF Goto
  <2>4. CASE ~asio.hybrid /\ Goto("StartDriver")
    BY <2>1, <2>4 DEF Goto
  <2>5. CASE ctl' = [ctl EXCEPT !.pc = "StopVoice", !.then = "NotStarted"]
    BY <2>1, <2>5
  <2> QED BY <2>2, <2>3, <2>4, <2>5
<1>13. CASE PrepareVoice
  BY <1>13 DEF PrepareVoice, Goto
<1>14. CASE AwaitVoice
  <2>1. At("AwaitVoice") /\ UNCHANGED <<svc, room, wasapi, asio, voice, mics>>
        /\ voice.told # "Nothing"
    BY <1>14 DEF AwaitVoice
  <2>2. \/ /\ ctl.call = "Replace"
           /\ ctl' = [ctl EXCEPT !.pc = "StopVoice", !.then = "Return"]
           /\ UNCHANGED bridge
        \/ /\ ctl.call # "Replace"
           /\ ctl' = [ctl EXCEPT !.pc = "StopVoice", !.then = "NotStarted"]
           /\ UNCHANGED bridge
        \/ ctl.call = "Replace" /\ Goto("WantRate") /\ UNCHANGED bridge
        \/ /\ ctl.call # "Replace"
           /\ Goto("StartDriver")
           /\ bridge' = [wanted |-> voice.rate, asked |-> bridge.asked + 1,
                         seen |-> bridge.asked + 1, applied |-> bridge.asked + 1,
                         fed |-> voice.rate, ring |-> <<>>]
    BY <1>14 DEF AwaitVoice
  <2>3. CASE /\ ctl.call = "Replace"
             /\ ctl' = [ctl EXCEPT !.pc = "StopVoice", !.then = "Return"]
             /\ UNCHANGED bridge
    BY <2>1, <2>3
  <2>4. CASE /\ ctl.call # "Replace"
             /\ ctl' = [ctl EXCEPT !.pc = "StopVoice", !.then = "NotStarted"]
             /\ UNCHANGED bridge
    BY <2>1, <2>4
  <2>5. CASE ctl.call = "Replace" /\ Goto("WantRate") /\ UNCHANGED bridge
    BY <2>1, <2>5 DEF Goto
  <2>6. CASE /\ ctl.call # "Replace"
             /\ Goto("StartDriver")
             /\ bridge' = [wanted |-> voice.rate, asked |-> bridge.asked + 1,
                           seen |-> bridge.asked + 1, applied |-> bridge.asked + 1,
                           fed |-> voice.rate, ring |-> <<>>]
    BY <2>1, <2>6 DEF Goto
  <2> QED BY <2>2, <2>3, <2>4, <2>5, <2>6
<1>15. CASE StartDriver
  <2>1. At("StartDriver") /\ UNCHANGED <<svc, room, wasapi, voice, bridge, mics>>
    BY <1>15 DEF StartDriver
  <2>2. \/ asio.hybrid /\ Goto("Begin") /\ asio' = [asio EXCEPT !.started = TRUE]
        \/ ~asio.hybrid /\ Goto("Return") /\ asio' = [asio EXCEPT !.started = TRUE]
        \/ /\ ctl' = [ctl EXCEPT !.pc = "StopVoice", !.then = "NotStarted"]
           /\ UNCHANGED asio
    BY <1>15 DEF StartDriver
  <2>3. CASE asio.hybrid /\ Goto("Begin") /\ asio' = [asio EXCEPT !.started = TRUE]
    BY <2>1, <2>3 DEF Goto
  <2>4. CASE ~asio.hybrid /\ Goto("Return") /\ asio' = [asio EXCEPT !.started = TRUE]
    BY <2>1, <2>4 DEF Goto
  <2>5. CASE /\ ctl' = [ctl EXCEPT !.pc = "StopVoice", !.then = "NotStarted"]
             /\ UNCHANGED asio
    BY <2>1, <2>5
  <2> QED BY <2>2, <2>3, <2>4, <2>5
<1>16. CASE Begin
  BY <1>16 DEF Begin, Goto
<1>17. CASE AwaitBegin
  <2>1. At("AwaitBegin") /\ UNCHANGED <<svc, room, wasapi, asio, voice, bridge, mics>>
    BY <1>17 DEF AwaitBegin
  <2>2. \/ Goto("Return")
        \/ /\ ctl.call = "Replace"
           /\ ctl' = [ctl EXCEPT !.pc = "StopVoice", !.then = "Return"]
        \/ ctl.call # "Replace" /\ Goto("StopDriver")
    BY <1>17 DEF AwaitBegin
  <2>3. CASE Goto("Return")
    BY <2>1, <2>3 DEF Goto
  <2>4. CASE /\ ctl.call = "Replace"
             /\ ctl' = [ctl EXCEPT !.pc = "StopVoice", !.then = "Return"]
    BY <2>1, <2>4
  <2>5. CASE ctl.call # "Replace" /\ Goto("StopDriver")
    BY <2>1, <2>5 DEF Goto
  <2> QED BY <2>2, <2>3, <2>4, <2>5
<1>18. CASE StopDriver
  BY <1>18 DEF StopDriver, Goto
<1>19. CASE NotStarted
  BY <1>19 DEF NotStarted, Return, Goto
<1>20. CASE Replace
  <2>1. At("Replace") /\ UNCHANGED <<svc, room, wasapi, asio, voice, bridge, mics>>
    BY <1>20 DEF Replace
  <2>2. \/ Return
        \/ /\ asio.started /\ asio.hybrid
           /\ \E m \in Mics : ctl' = [ctl EXCEPT !.pc = "StopVoice", !.then = "PrepareVoice",
                                              !.mic = m]
    BY <1>20 DEF Replace
  <2>3. CASE Return
    BY <2>1, <2>3 DEF Return
  <2>4. CASE /\ asio.started /\ asio.hybrid
             /\ \E m \in Mics : ctl' = [ctl EXCEPT !.pc = "StopVoice", !.then = "PrepareVoice",
                                              !.mic = m]
    BY <2>1, <2>4
  <2> QED BY <2>2, <2>3, <2>4
<1>21. CASE WantRate
  BY <1>21 DEF WantRate, Goto
<1>22. CASE AskTransition
  BY <1>22 DEF AskTransition, Goto
<1>23. CASE AwaitTransition
  <2>1. At("AwaitTransition") /\ UNCHANGED <<svc, room, wasapi, asio, voice, bridge, mics>>
    BY <1>23 DEF AwaitTransition
  <2>2. \/ bridge.applied >= ctl.awaited /\ Goto("Begin")
        \/ ctl' = [ctl EXCEPT !.pc = "StopVoice", !.then = "Return"]
    BY <1>23 DEF AwaitTransition, TransitionApplied
  <2>3. CASE bridge.applied >= ctl.awaited /\ Goto("Begin")
    BY <2>1, <2>3 DEF Goto
  <2>4. CASE ctl' = [ctl EXCEPT !.pc = "StopVoice", !.then = "Return"]
    BY <2>1, <2>4
  <2> QED BY <2>2, <2>3, <2>4
<1>24. CASE Returns
  BY <1>24 DEF Returns, Return, Goto
<1>25. CASE WasapiFails
  BY <1>25 DEF WasapiFails
<1>26. CASE WasapiRuns
  BY <1>26 DEF WasapiRuns
<1>27. CASE WasapiTold
  BY <1>27 DEF WasapiTold
<1>28. CASE WasapiCaptures
  BY <1>28 DEF WasapiCaptures, WasapiEvent
<1>29. CASE WasapiRenders
  BY <1>29 DEF WasapiRenders, WasapiEvent
<1>30. CASE WasapiDone
  BY <1>30 DEF WasapiDone
<1>31. CASE DriverCalls
  BY <1>31 DEF DriverCalls, Pulled
<1>32. CASE DriverDone
  BY <1>32 DEF DriverDone
<1>33. CASE VoiceOpens
  <2>1. voice.pc = "Opening" /\ UNCHANGED <<ctl, svc, room, wasapi, asio, bridge, mics>>
    BY <1>33 DEF VoiceOpens
  <2>2. voice'.pc \in {"Waiting", "Done"} /\ voice'.begin = voice.begin
    BY <1>33 DEF VoiceOpens
  <2>3. At("AwaitVoice") /\ ~Begun /\ ~Begun'
    BY <2>1, <2>2
  <2> QED BY <2>1, <2>2, <2>3
<1>34. CASE VoiceWaits
  BY <1>34 DEF VoiceWaits, Waited
<1>35. CASE VoiceStarts
  BY <1>35 DEF VoiceStarts
<1>36. CASE VoiceTold
  BY <1>36 DEF VoiceTold
<1>37. CASE VoiceEvent
  BY <1>37 DEF VoiceEvent
<1>38. CASE VoicePushed
  BY <1>38 DEF VoicePushed
<1>39. CASE VoiceReopens
  BY <1>39 DEF VoiceReopens, Fits
<1>40. ASSUME NEW m \in Mics, MicChanges(m) PROVE BridgeInv'
  BY <1>40 DEF MicChanges
<1>41. CASE UNCHANGED vars
  BY <1>41 DEF vars
<1> QED BY <1>1, <1>2, <1>3, <1>4, <1>5, <1>6, <1>7, <1>8, <1>9, <1>10, <1>11,
           <1>12, <1>13, <1>14, <1>15, <1>16, <1>17, <1>18, <1>19, <1>20, <1>21,
           <1>22, <1>23, <1>24, <1>25, <1>26, <1>27, <1>28, <1>29, <1>30, <1>31,
           <1>32, <1>33, <1>34, <1>35, <1>36, <1>37, <1>38, <1>39, <1>40, <1>41
        DEF Next, ControlStep, WasapiStep, VoiceStep

-------------------------------------------------------------------------------

LEMMA InitHolds == Init => AudioInv
<1> SUFFICES ASSUME Init PROVE AudioInv
  OBVIOUS
<1> USE DEF Init, NoRoom, Quiet, Gone
<1>1. TypeInv
  <2>1. <<>> \in Seq(Known) /\ Gone \in Known
    BY DEF Known
  <2>2. ctl \in Control /\ svc \in Service /\ room \in Nat
    BY DEF Control, Service, Places, Afters
  <2>3. wasapi \in Wasapi /\ asio \in Asio
    BY DEF Wasapi, Asio, ThreadPlaces, Told
  <2>4. voice \in Voice
    BY <2>1 DEF Voice, ThreadPlaces, Told, VoiceStates
  <2>5. bridge \in Bridge
    BY <2>1 DEF Bridge
  <2>6. mics \in [Mics -> Known]
    BY DEF Known
  <2> QED BY <2>2, <2>3, <2>4, <2>5, <2>6 DEF TypeInv
<1>2. MicInv
  BY DEF MicInv, ToOpen, At
<1>3. ExchangeInv
  BY DEF ExchangeInv, WasapiInv, WasapiRunsNow, DriverInv, DriverRunsNow, Starting, At
<1>4. BridgeInv
  BY DEF BridgeInv, Begun, Set, RatesAgree, At
<1> QED BY <1>1, <1>2, <1>3, <1>4 DEF AudioInv

(***************************************************************************)
(* In every reachable state the threads are where the application's thread *)
(* allows them to be, and the bridge is set to what the voice's thread     *)
(* captures once that has begun.                                           *)
(***************************************************************************)
THEOREM AudioCorrect == Spec => []AudioInv
<1>1. AudioInv /\ [Next]_vars => AudioInv'
  BY TypeStep, MicStep, ExchangeStep, BridgeStep DEF AudioInv
<1> QED BY InitHolds, <1>1, PTL DEF Spec

(***************************************************************************)
(* A callback of a worker or of the driver uses the transport that lives,  *)
(* or none, whatever the application's thread is doing meanwhile.          *)
(***************************************************************************)
THEOREM CallbacksUseWhatLives == Spec => []ExchangeLives
<1>1. AudioInv => ExchangeLives
  <2> SUFFICES ASSUME AudioInv PROVE ExchangeLives
    OBVIOUS
  <2>1. wasapi.using \in {Quiet, room}
    BY DEF AudioInv, ExchangeInv, WasapiInv, WasapiRunsNow
  <2>2. asio.using \in {Quiet, room}
    BY DEF AudioInv, ExchangeInv, DriverInv, DriverRunsNow
  <2> QED BY <2>1, <2>2 DEF ExchangeLives
<1> QED BY <1>1, AudioCorrect, PTL

(***************************************************************************)
(* The samples that wait in the bridge have the rate it resamples from,    *)
(* however often a microphone was replaced or came back.                   *)
(***************************************************************************)
THEOREM BridgeKeepsRate == Spec => []RatesAgree
<1>1. AudioInv => RatesAgree
  BY DEF AudioInv, BridgeInv
<1> QED BY <1>1, AudioCorrect, PTL

(***************************************************************************)
(* The two who empty the bridge's ring, the application's thread before    *)
(* the driver starts and the driver's callback after a transition was      *)
(* asked for, do so while the voice's thread writes nothing.               *)
(***************************************************************************)
THEOREM BridgeClearedAlone == Spec => ClearedAlone
<1> DEFINE Alone == bridge'.seen # bridge.seen => voice.pc # "Push"
<1>1. AudioInv /\ [Next]_vars => [Alone]_vars
  <2> SUFFICES ASSUME AudioInv, Next, bridge'.seen # bridge.seen, voice.pc = "Push"
               PROVE  FALSE
    BY DEF vars
  <2>1. ~At("AwaitVoice") /\ bridge.asked = bridge.seen
    BY DEF AudioInv, BridgeInv, Begun, Set, At
  <2>2. bridge \in Bridge
    BY DEF AudioInv, TypeInv
  <2>3. CASE DriverCalls
    BY <2>1, <2>2, <2>3 DEF DriverCalls, Pulled, Bridge
  <2>4. CASE WantRate \/ AskTransition \/ VoicePushed
    BY <2>2, <2>4 DEF WantRate, AskTransition, VoicePushed, Bridge
  <2>5. CASE UNCHANGED bridge
    BY <2>5
  <2>6. AwaitVoice \/ DriverCalls \/ WantRate \/ AskTransition \/ VoicePushed \/ UNCHANGED bridge
    BY DEF Next, ControlStep, WasapiStep, VoiceStep, Call, Stop, JoinWasapi, JoinDriver,
           StopVoice, JoinVoice, Stopped, OpenWasapi, OpenAsio, OpenNothing, AwaitWasapi,
           OpenDriver, PrepareVoice, StartDriver, Begin, AwaitBegin, StopDriver, NotStarted,
           Replace, AwaitTransition, Returns, WasapiFails, WasapiRuns, WasapiTold,
           WasapiDone, WasapiCaptures, WasapiRenders, WasapiEvent, DriverDone, VoiceOpens,
           VoiceWaits, VoiceStarts, VoiceTold, VoiceEvent, VoiceReopens, MicChanges
  <2> QED BY <2>1, <2>3, <2>4, <2>5, <2>6 DEF AwaitVoice
<1> QED BY <1>1, AudioCorrect, PTL DEF Spec, ClearedAlone

-------------------------------------------------------------------------------
(* Numbers that do not wrap around.                                          *)

\* The greatest number a session can reach, when at most n packets in a row are
\* lost.
Peak(n) == LET start == IF FirstNumber > RestartNumber THEN FirstNumber ELSE RestartNumber
           IN start + MaxPackets * (n + 1)

\* A session short enough that its numbers stay in the lower half, where before
\* and after are those of the integers; and no packet is later than its sender
\* has numbers.
ShortSession(n) ==
  /\ n \in Nat /\ \A k \in Losses : k <= n
  /\ \A k \in Delays : k <= FirstNumber /\ k <= RestartNumber
  /\ 2 * (Peak(n) + 1) < Modulus

\* Within the lower half the signed difference is the difference.
LEMMA PlainDistance ==
  ASSUME NEW a \in Nat, NEW b \in Nat, 2 * a < Modulus, 2 * b < Modulus
  PROVE  /\ Distance(a, b) = a - b
         /\ SequenceBefore(a, b) <=> a < b
<1>0. Modulus \in Nat \ {0}
  BY ShapeAssumption
<1>d. PICK d \in Int : d = a - b
  OBVIOUS
<1>e. -Modulus < d /\ d < Modulus
  BY <1>0, <1>d
<1>1. d % Modulus = IF d >= 0 THEN d ELSE d + Modulus
  BY <1>0, <1>e
<1>2. Distance(a, b) = a - b
  BY <1>0, <1>d, <1>1 DEF Distance
<1> QED BY <1>2 DEF SequenceBefore

LEMMA PlainPlus ==
  ASSUME NEW a \in Int, NEW k \in Int, a + k \in 0..(Modulus - 1)
  PROVE  Plus(a, k) = a + k
<1>0. Modulus \in Nat \ {0}
  BY ShapeAssumption
<1>d. PICK d \in Int : d = a + k
  OBVIOUS
<1>e. 0 <= d /\ d < Modulus
  BY <1>0, <1>d
<1>1. d % Modulus = d
  BY <1>0, <1>e
<1> QED BY <1>d, <1>1 DEF Plus

-------------------------------------------------------------------------------
(* The invariant.                                                            *)

\* Where the consumer is while playout has not moved past the packet in hand.
Held == {"discarding", "trimmed", "decoding", "conceal"}

JitterKinds(n) ==
  /\ next \in Nat /\ packets \in 0..MaxPackets /\ restarts \in Nat
  /\ next <= Peak(n) - (MaxPackets - packets) * (n + 1)
  /\ next >= FirstNumber \/ next >= RestartNumber
  /\ hasFirst \in BOOLEAN /\ epoch \in Nat
  /\ first \in 0..Peak(n) /\ highest \in 0..Peak(n)
  /\ pNumber \in 0..Peak(n) /\ cHighest \in 0..Peak(n)
  /\ playout \in 0..(Peak(n) + 1) /\ pPlayout \in 0..(Peak(n) + 1)
  /\ limits \in Settings /\ target \in MinDepth..MaxDepth /\ cTarget \in MinDepth..MaxDepth
  /\ stamp \in [Slots -> 0..Peak(n) \union {None}]
  /\ data \in [Slots -> [number : Numbers \union {None}, run : Nat]]
  /\ pAt \in {"idle", "rebase", "epoch", "adapt", "look", "claim", "copy", "publish"}
  /\ cAt \in {"idle", "prime", "span", "primed", "depth", "take", "release"} \union
             {"trim", "discarding", "trimmed", "decoding", "conceal"}
  /\ primed \in BOOLEAN /\ pPlaying \in BOOLEAN
  /\ observed \in 0..epoch
  /\ told \in 0..(Peak(n) + 1) \union {None}

\* How far a pass of the consumer may still move playout.
PassInv(n) ==
  /\ cAt \in {"take", "decoding", "conceal"} => playout <= Peak(n)
  /\ cAt \in {"trim", "discarding", "trimmed"} => playout + 1 <= Peak(n)
  /\ cAt = "release" => playout # 0
  /\ cAt \in {"prime", "span", "primed"} => ~primed
  /\ cAt \in {"depth", "trim", "take", "release"} \union Held => primed
  /\ ~hasFirst => ~primed /\ cAt \in {"idle", "prime"}

\* The decoder was told of nothing that is still to come.
ToldInv == told # None => IF cAt \in Held THEN told <= playout ELSE told < playout

\* A pass that began in this numbering does not come to a packet that has not.
AheadInv ==
  observed = epoch /\ pAt \notin {"rebase", "epoch"} =>
    /\ cAt = "span" => cHighest <= highest
    /\ primed \/ cAt = "primed" => playout <= highest + 1
    /\ cAt \in {"take", "decoding", "conceal"} => playout <= highest
    /\ cAt \in {"trim", "discarding", "trimmed"} => playout + 1 <= highest

\* As long as the numbering lasts, playout grows, so a producer that reclaims a slot
\* by an old copy of it reclaims nothing that is due.
Writing(i) == pAt \in {"copy", "publish"} /\ SlotOf(pNumber) = i

SlotInv ==
  epoch = 0 =>
    /\ pPlayout <= playout
    /\ ~primed /\ cAt # "primed" => playout = 0
    /\ \A i \in Slots : /\ stamp[i] # None /\ ~Writing(i) => data[i].number = stamp[i]
                        /\ Writing(i) => stamp[i] = None \/ stamp[i] < pPlayout
    /\ pAt = "publish" => data[SlotOf(pNumber)].number = pNumber
    /\ cAt \in {"decoding", "discarding"} => stamp[SlotOf(playout)] = playout

JitterInv(n) == JitterKinds(n) /\ PassInv(n) /\ ToldInv /\ AheadInv /\ SlotInv

-------------------------------------------------------------------------------

LEMMA SlotsOfNumbers ==
  ASSUME NEW a \in Nat
  PROVE  SlotOf(a) \in Slots
BY ShapeAssumption DEF SlotOf, Slots

LEMMA PeakIs ==
  ASSUME NEW n, ShortSession(n)
  PROVE  /\ n \in Nat /\ Peak(n) \in Nat /\ 2 * (Peak(n) + 1) < Modulus
         /\ MaxPackets * (n + 1) \in Nat
         /\ FirstNumber \in Nat /\ FirstNumber <= Peak(n) - MaxPackets * (n + 1)
         /\ RestartNumber \in Nat /\ RestartNumber <= Peak(n) - MaxPackets * (n + 1)
         /\ Modulus \in Nat /\ MaxPackets \in Nat
<1>1. /\ n \in Nat /\ MaxPackets \in Nat /\ Modulus \in Nat
      /\ FirstNumber \in Nat /\ RestartNumber \in Nat
  BY ShapeAssumption DEF ShortSession
<1>2. MaxPackets * (n + 1) \in Nat
  BY <1>1
<1> DEFINE m == MaxPackets * (n + 1)
<1>3. m \in Nat /\ Peak(n) = (IF FirstNumber > RestartNumber THEN FirstNumber ELSE RestartNumber) + m
  BY <1>2 DEF Peak
<1> HIDE DEF m
<1>4. Peak(n) \in Nat /\ FirstNumber <= Peak(n) - m /\ RestartNumber <= Peak(n) - m
  BY <1>1, <1>3
<1> QED BY <1>1, <1>2, <1>4 DEF m, ShortSession

\* The sender's room grows with every packet that is left.
LEMMA Room ==
  ASSUME NEW n \in Nat, NEW p \in 0..MaxPackets, MaxPackets \in Nat
  PROVE  /\ (MaxPackets - p) * (n + 1) \in Nat
         /\ p < MaxPackets => (MaxPackets - p) * (n + 1)
                                = (MaxPackets - (p + 1)) * (n + 1) + n + 1
         /\ (MaxPackets - p) * (n + 1) <= MaxPackets * (n + 1)
<1>1. PICK q \in Nat : q = MaxPackets - p
  OBVIOUS
<1>2. q * (n + 1) \in Nat
  OBVIOUS
<1>3. q # 0 => q * (n + 1) = (q - 1) * (n + 1) + n + 1
  OBVIOUS
<1>4. MaxPackets * (n + 1) = q * (n + 1) + p * (n + 1)
  BY <1>1
<1>5. p * (n + 1) \in Nat
  OBVIOUS
<1>6. MaxPackets - (p + 1) = q - 1
  BY <1>1
<1>7. q * (n + 1) <= MaxPackets * (n + 1)
  BY <1>2, <1>4, <1>5
<1> QED BY <1>1, <1>2, <1>3, <1>6, <1>7

\* The signed difference of any two numbers the two threads look at.
LEMMA Compared ==
  ASSUME NEW n, ShortSession(n), NEW a \in 0..(Peak(n) + 1), NEW b \in 0..(Peak(n) + 1)
  PROVE  Distance(a, b) = a - b /\ (SequenceBefore(a, b) <=> a < b)
BY PeakIs, PlainDistance

LEMMA Moved ==
  ASSUME NEW n, ShortSession(n), NEW a \in Int, NEW k \in Int, a + k \in 0..(Peak(n) + 1)
  PROVE  Plus(a, k) = a + k
BY PeakIs, PlainPlus

\* Nothing has arrived and nobody has been told.
LEMMA Initially ==
  ASSUME NEW n, ShortSession(n), JitterInit
  PROVE  JitterInv(n)
<1>1. JitterKinds(n)
  <2>1. /\ target \in MinDepth..MaxDepth /\ cTarget \in MinDepth..MaxDepth
        /\ limits \in Settings
    BY ShapeAssumption DEF JitterInit, Settings
  <2>2. stamp \in [Slots -> 0..Peak(n) \union {None}]
    BY DEF JitterInit
  <2>3. data \in [Slots -> [number : Numbers \union {None}, run : Nat]]
    BY DEF JitterInit, Torn, Packet
  <2>4. packets = 0 /\ MaxPackets - packets = MaxPackets
    BY PeakIs DEF JitterInit
  <2>5. next <= Peak(n) - (MaxPackets - packets) * (n + 1)
    BY <2>4, PeakIs DEF JitterInit
  <2>6. next \in Nat /\ packets \in 0..MaxPackets /\ (next >= FirstNumber \/ next >= RestartNumber)
    BY PeakIs DEF JitterInit
  <2>7. /\ first \in 0..Peak(n) /\ highest \in 0..Peak(n)
        /\ pNumber \in 0..Peak(n) /\ cHighest \in 0..Peak(n)
        /\ playout \in 0..(Peak(n) + 1) /\ pPlayout \in 0..(Peak(n) + 1)
    BY PeakIs DEF JitterInit
  <2>8. /\ hasFirst \in BOOLEAN /\ primed \in BOOLEAN /\ pPlaying \in BOOLEAN
        /\ told \in 0..(Peak(n) + 1) \union {None}
    BY DEF JitterInit
  <2>10. epoch \in Nat /\ observed \in 0..epoch /\ restarts \in Nat
    BY DEF JitterInit
  <2>9. /\ pAt \in {"idle", "rebase", "epoch", "adapt", "look", "claim", "copy", "publish"}
        /\ cAt \in {"idle", "prime", "span", "primed", "depth", "take", "release"} \union
                   {"trim", "discarding", "trimmed", "decoding", "conceal"}
    BY DEF JitterInit
  <2> QED BY <2>1, <2>2, <2>3, <2>5, <2>6, <2>7, <2>8, <2>9, <2>10 DEF JitterKinds
<1>2. PassInv(n) /\ ToldInv /\ AheadInv /\ SlotInv
  BY DEF JitterInit, PassInv, Held, ToldInv, AheadInv, SlotInv
<1> QED BY <1>1, <1>2 DEF JitterInv

-------------------------------------------------------------------------------
(* The producer.                                                             *)

\* What arrives is a number of the session.
LEMMA ArrivesWithin ==
  ASSUME NEW n, ShortSession(n), JitterKinds(n), packets < MaxPackets, NEW number \in Arriving
  PROVE  /\ number \in 0..(Peak(n) - 1)
         /\ LET after == IF SequenceBefore(number, next) THEN next ELSE Plus(number, 1)
            IN /\ after \in Nat
               /\ after <= Peak(n) - (MaxPackets - (packets + 1)) * (n + 1)
               /\ after >= FirstNumber \/ after >= RestartNumber
<1> DEFINE rest == (MaxPackets - (packets + 1)) * (n + 1)
<1>0. /\ n \in Nat /\ MaxPackets \in Nat /\ packets \in 0..MaxPackets
      /\ packets + 1 \in 0..MaxPackets
      /\ next <= Peak(n) - (MaxPackets - packets) * (n + 1)
  BY PeakIs DEF JitterKinds
<1>1. rest \in Nat /\ next <= Peak(n) - (rest + n + 1)
  <2>1. (MaxPackets - packets) * (n + 1) = rest + n + 1
    BY <1>0
  <2>2. rest \in Nat
    BY <1>0
  <2> HIDE DEF rest
  <2> QED BY <1>0, <2>1, <2>2
<1>2. PICK k \in Int : /\ k <= n /\ number = Plus(next, k) /\ next + k >= 0
  <2>1. CASE \E k \in Losses : number = Plus(next, k)
    BY <2>1, NetworkAssumption DEF ShortSession, JitterKinds
  <2>2. CASE \E k \in Delays : number = Plus(next, -k)
    <3>1. PICK k \in Delays : number = Plus(next, -k)
      BY <2>2
    <3>2. k \in Nat \ {0} /\ k <= FirstNumber /\ k <= RestartNumber
      BY NetworkAssumption DEF ShortSession
    <3>3. -k \in Int /\ -k <= n /\ next + (-k) >= 0
      BY <3>2, PeakIs DEF JitterKinds
    <3> QED BY <3>1, <3>3
  <2> QED BY <2>1, <2>2 DEF Arriving
<1> HIDE DEF rest
<1>3. next + k \in 0..(Peak(n) - 1)
  BY <1>1, <1>2, PeakIs DEF JitterKinds
<1>4. number = next + k
  BY <1>2, <1>3, PeakIs, Moved DEF JitterKinds
<1>5. number \in 0..(Peak(n) - 1) /\ number + 1 <= Peak(n) - rest
  BY <1>1, <1>2, <1>3, <1>4, PeakIs DEF JitterKinds
<1>6. Plus(number, 1) = number + 1
  BY <1>5, PeakIs, Moved
<1>7. next \in 0..(Peak(n) + 1)
  BY <1>1, PeakIs DEF JitterKinds
<1>8. SequenceBefore(number, next) <=> number < next
  <2>1. number \in 0..(Peak(n) + 1)
    BY <1>5, PeakIs
  <2> QED BY <1>7, <2>1, Compared
<1>9. CASE number < next
  BY <1>1, <1>5, <1>8, <1>9, PeakIs DEF JitterKinds, rest
<1>10. CASE ~(number < next)
  BY <1>1, <1>5, <1>6, <1>8, <1>10, PeakIs DEF JitterKinds, rest
<1> QED BY <1>5, <1>9, <1>10

\* What the proofs below need of numbers, slots and constants.
LEMMA Arithmetic ==
  ASSUME NEW n, ShortSession(n)
  PROVE  /\ \A a, b \in 0..(Peak(n) + 1) : /\ Distance(a, b) = a - b
                                           /\ SequenceBefore(a, b) <=> a < b
         /\ \A a, k \in Int : a + k \in 0..(Peak(n) + 1) => Plus(a, k) = a + k
         /\ \A a \in Nat : SlotOf(a) \in Slots
         /\ Peak(n) \in Nat /\ n \in Nat /\ Modulus \in Nat /\ MaxPackets \in Nat
         /\ Peak(n) + 1 < Modulus
         /\ MinDepth \in Nat \ {0} /\ MaxDepth \in Nat /\ TrimSlack \in Nat /\ StretchSlack \in Nat
<1>1. \A a, b \in 0..(Peak(n) + 1) : Distance(a, b) = a - b /\ (SequenceBefore(a, b) <=> a < b)
  BY Compared
<1>2. \A a, k \in Int : a + k \in 0..(Peak(n) + 1) => Plus(a, k) = a + k
  BY Moved
<1>3. \A a \in Nat : SlotOf(a) \in Slots
  BY SlotsOfNumbers
<1>4. Peak(n) \in Nat /\ n \in Nat /\ Modulus \in Nat /\ MaxPackets \in Nat /\ Peak(n) + 1 < Modulus
  BY PeakIs
<1> QED BY <1>1, <1>2, <1>3, <1>4, ShapeAssumption

\* The sender starts over: an old number again, but never beyond the peak.
LEMMA RestartNumberingKeeps ==
  ASSUME NEW n, ShortSession(n), JitterInv(n), RestartNumbering
  PROVE  JitterInv(n)'
<1>1. JitterKinds(n)'
  <2>1. next' <= Peak(n) - (MaxPackets - packets) * (n + 1)
    <3>1. (MaxPackets - packets) * (n + 1) \in Nat
          /\ (MaxPackets - packets) * (n + 1) <= MaxPackets * (n + 1)
      BY Arithmetic, Room DEF JitterInv, JitterKinds
    <3>2. next' = RestartNumber
      BY DEF RestartNumbering
    <3> QED BY <3>1, <3>2, PeakIs
  <2>2. next' \in Nat /\ next' >= RestartNumber /\ restarts' \in Nat
    BY PeakIs DEF RestartNumbering, JitterInv, JitterKinds
  <2>3. UNCHANGED <<packets, numbering, depths, playout, primed, stamp, data, producer, consumer>>
    BY DEF RestartNumbering
  <2> QED BY <2>1, <2>2, <2>3 DEF JitterInv, JitterKinds, numbering, depths, producer, consumer
<1>2. PassInv(n)'
  BY DEF JitterInv, PassInv, RestartNumbering, numbering, consumer
<1>3. ToldInv'
  BY DEF JitterInv, ToldInv, RestartNumbering, consumer
<1>4. AheadInv'
  BY DEF JitterInv, AheadInv, RestartNumbering, numbering, consumer
<1>5. SlotInv'
  BY DEF JitterInv, SlotInv, Writing, RestartNumbering, numbering, producer, consumer
<1> QED BY <1>1, <1>2, <1>3, <1>4, <1>5 DEF JitterInv

LEMMA SubmitKeeps ==
  ASSUME NEW n, ShortSession(n), JitterInv(n), \E number \in Arriving : Submit(number)
  PROVE  JitterInv(n)'
<1>n. PICK number \in Arriving : Submit(number)
  OBVIOUS
<1>h. number \in 0..Peak(n)
  BY ArrivesWithin, Arithmetic DEF Submit, JitterInv
<1>f. number \in 0..(Peak(n) + 1) /\ highest \in 0..(Peak(n) + 1)
  BY <1>h, Arithmetic DEF JitterInv, JitterKinds
<1>g. Distance(number, highest) = number - highest
  BY <1>f, Arithmetic
<1>1. JitterKinds(n)'
  <2>1. packets < MaxPackets /\ number \in 0..(Peak(n) - 1)
        /\ next' \in Nat /\ next' <= Peak(n) - (MaxPackets - (packets + 1)) * (n + 1)
        /\ (next' >= FirstNumber \/ next' >= RestartNumber)
    BY <1>n, ArrivesWithin DEF Submit, JitterInv
  <2>2. packets' = packets + 1 /\ packets' \in 0..MaxPackets
    BY <1>n, <2>1, Arithmetic DEF Submit, JitterInv, JitterKinds
  <2>3. /\ first' \in {first, number} /\ highest' \in {highest, number} /\ pNumber' = number
        /\ hasFirst' \in {TRUE, hasFirst} /\ pAt' \in {"adapt", "rebase"} /\ epoch' = epoch
    BY <1>n DEF Submit, SubmitFirst, SubmitNext, SubmitRebase
  <2>4. first' \in 0..Peak(n) /\ highest' \in 0..Peak(n) /\ pNumber' \in 0..Peak(n)
        /\ cHighest' \in 0..Peak(n)
    BY <2>1, <2>3, Arithmetic DEF Submit, consumer, JitterInv, JitterKinds
  <2>5. hasFirst' \in BOOLEAN
    BY <2>3 DEF JitterInv, JitterKinds
  <2> QED BY <2>1, <2>2, <2>3, <2>4, <2>5 DEF JitterInv, JitterKinds, Submit, depths, consumer
<1>2. PassInv(n)'
  BY DEF JitterInv, PassInv, Submit, SubmitFirst, SubmitNext, SubmitRebase, consumer
<1>3. ToldInv'
  BY DEF JitterInv, ToldInv, Submit, consumer
<1>4. AheadInv'
  BY <1>n, <1>h, <1>g DEF JitterInv, JitterKinds, PassInv, AheadInv, Submit, SubmitFirst,
     SubmitNext, SubmitRebase, Jump, consumer
<1>5. SlotInv'
  BY DEF JitterInv, SlotInv, Writing, Submit, SubmitFirst, SubmitNext, SubmitRebase, consumer
<1> QED BY <1>1, <1>2, <1>3, <1>4, <1>5 DEF JitterInv

LEMMA RebaseHighestKeeps ==
  ASSUME NEW n, ShortSession(n), JitterInv(n), RebaseHighest
  PROVE  JitterInv(n)'
<1>1. JitterKinds(n)'
  BY DEF JitterInv, JitterKinds, RebaseHighest, network, depths, consumer
<1>2. PassInv(n)'
  BY DEF JitterInv, PassInv, RebaseHighest, consumer
<1>3. ToldInv'
  BY DEF JitterInv, ToldInv, RebaseHighest, consumer
<1>4. AheadInv'
  BY DEF JitterInv, AheadInv, RebaseHighest
<1>5. SlotInv'
  BY DEF JitterInv, SlotInv, Writing, RebaseHighest, consumer
<1> QED BY <1>1, <1>2, <1>3, <1>4, <1>5 DEF JitterInv

LEMMA RebaseEpochKeeps ==
  ASSUME NEW n, ShortSession(n), JitterInv(n), RebaseEpoch
  PROVE  JitterInv(n)'
<1>1. JitterKinds(n)'
  BY DEF JitterInv, JitterKinds, RebaseEpoch, network, depths, consumer
<1>2. PassInv(n)'
  BY DEF JitterInv, PassInv, RebaseEpoch, consumer
<1>3. ToldInv'
  BY DEF JitterInv, ToldInv, RebaseEpoch, consumer
<1>4. AheadInv'
  BY DEF JitterInv, JitterKinds, AheadInv, RebaseEpoch, consumer
<1>5. SlotInv'
  BY DEF JitterInv, JitterKinds, SlotInv, RebaseEpoch
<1> QED BY <1>1, <1>2, <1>3, <1>4, <1>5 DEF JitterInv

LEMMA AdaptTargetKeeps ==
  ASSUME NEW n, ShortSession(n), JitterInv(n), AdaptTarget
  PROVE  JitterInv(n)'
<1>1. JitterKinds(n)'
  <2>1. target' \in MinDepth..MaxDepth
    BY Arithmetic DEF AdaptTarget, Adapted, JitterInv, JitterKinds, Settings
  <2> QED BY <2>1 DEF JitterInv, JitterKinds, AdaptTarget, network, numbering, consumer
<1>2. PassInv(n)'
  BY DEF JitterInv, PassInv, AdaptTarget, numbering, consumer
<1>3. ToldInv'
  BY DEF JitterInv, ToldInv, AdaptTarget, consumer
<1>4. AheadInv'
  BY DEF JitterInv, AheadInv, AdaptTarget, numbering, consumer
<1>5. SlotInv'
  BY DEF JitterInv, JitterKinds, SlotInv, Writing, AdaptTarget, numbering, consumer
<1> QED BY <1>1, <1>2, <1>3, <1>4, <1>5 DEF JitterInv

LEMMA LookWhetherLateKeeps ==
  ASSUME NEW n, ShortSession(n), JitterInv(n), LookWhetherLate
  PROVE  JitterInv(n)'
<1>1. JitterKinds(n)'
  <2>1. /\ pAt' \in {"idle", "claim"} /\ pNumber' \in {0, pNumber} /\ pPlayout' \in {0, pPlayout}
        /\ pPlaying' \in {FALSE, primed}
    BY DEF LookWhetherLate, SubmitReturns
  <2>2. pNumber' \in 0..Peak(n) /\ pPlayout' \in 0..(Peak(n) + 1)
    BY <2>1, Arithmetic DEF JitterInv, JitterKinds
  <2>4. pPlaying' \in BOOLEAN
    BY <2>1 DEF JitterInv, JitterKinds
  <2> QED BY <2>1, <2>2, <2>4 DEF JitterInv, JitterKinds, LookWhetherLate, network, numbering,
             depths, consumer
<1>2. PassInv(n)'
  BY DEF JitterInv, PassInv, LookWhetherLate, numbering, consumer
<1>3. ToldInv'
  BY DEF JitterInv, ToldInv, LookWhetherLate, consumer
<1>4. AheadInv'
  BY DEF JitterInv, AheadInv, LookWhetherLate, numbering, consumer
<1>5. SlotInv'
  BY DEF JitterInv, JitterKinds, SlotInv, Writing, LookWhetherLate, SubmitReturns, numbering,
     consumer
<1> QED BY <1>1, <1>2, <1>3, <1>4, <1>5 DEF JitterInv

\* A slot is claimed only where its packet is older than the copy of playout.
LEMMA ClaimSlotKeeps ==
  ASSUME NEW n, ShortSession(n), JitterInv(n), ClaimSlot
  PROVE  JitterInv(n)'
<1>1. JitterKinds(n)'
  <2>1. /\ pAt' \in {"idle", "copy"} /\ pNumber' \in {0, pNumber} /\ pPlayout' \in {0, pPlayout}
        /\ pPlaying' \in {FALSE, pPlaying}
    BY DEF ClaimSlot, SubmitReturns
  <2>2. pNumber' \in 0..Peak(n) /\ pPlayout' \in 0..(Peak(n) + 1)
    BY <2>1, Arithmetic DEF JitterInv, JitterKinds
  <2>4. pPlaying' \in BOOLEAN
    BY <2>1 DEF JitterInv, JitterKinds
  <2>3. data' \in [Slots -> [number : Numbers \union {None}, run : Nat]]
    BY DEF ClaimSlot, Torn, Packet, JitterInv, JitterKinds
  <2> QED BY <2>1, <2>2, <2>3, <2>4 DEF JitterInv, JitterKinds, ClaimSlot, network, numbering,
             depths, consumer
<1>2. PassInv(n)'
  BY DEF JitterInv, PassInv, ClaimSlot, numbering, consumer
<1>3. ToldInv'
  BY DEF JitterInv, ToldInv, ClaimSlot, consumer
<1>4. AheadInv'
  BY DEF JitterInv, AheadInv, ClaimSlot, numbering, consumer
<1>5. SlotInv'
  <2>1. CASE pAt' = "copy"
    <3>1. /\ data' = [data EXCEPT ![SlotOf(pNumber)] = Torn] /\ UNCHANGED <<pNumber, pPlayout, pPlaying>>
          /\ \/ stamp[SlotOf(pNumber)] = None
             \/ SequenceBefore(stamp[SlotOf(pNumber)], pPlayout)
      BY <2>1 DEF ClaimSlot, SubmitReturns, MayReclaim
    <3>2. SlotOf(pNumber) \in Slots
      BY Arithmetic DEF JitterInv, JitterKinds
    <3>3. stamp[SlotOf(pNumber)] \in 0..(Peak(n) + 1) \union {None} /\ pPlayout \in 0..(Peak(n) + 1)
      BY <3>2, Arithmetic DEF JitterInv, JitterKinds
    <3>4. stamp[SlotOf(pNumber)] = None \/ stamp[SlotOf(pNumber)] < pPlayout
      BY <3>1, <3>3, Arithmetic
    <3> QED BY <2>1, <3>1, <3>2, <3>4 DEF JitterInv, SlotInv, Writing, ClaimSlot, numbering,
               consumer
  <2>2. CASE pAt' # "copy"
    <3>1. UNCHANGED data /\ pAt' = "idle" /\ pPlayout' = 0 /\ pAt = "claim"
      BY <2>2 DEF ClaimSlot, SubmitReturns
    <3> QED BY <3>1 DEF JitterInv, JitterKinds, SlotInv, Writing, ClaimSlot, numbering, consumer
  <2> QED BY <2>1, <2>2
<1> QED BY <1>1, <1>2, <1>3, <1>4, <1>5 DEF JitterInv

LEMMA CopyPayloadKeeps ==
  ASSUME NEW n, ShortSession(n), JitterInv(n), CopyPayload
  PROVE  JitterInv(n)'
<1>1. JitterKinds(n)'
  <2>1. pNumber \in Numbers
    BY Arithmetic DEF JitterInv, JitterKinds, Numbers
  <2>2. data' \in [Slots -> [number : Numbers \union {None}, run : Nat]]
    BY <2>1 DEF CopyPayload, Packet, JitterInv, JitterKinds
  <2> QED BY <2>2 DEF JitterInv, JitterKinds, CopyPayload, network, numbering, depths, consumer
<1>2. PassInv(n)'
  BY DEF JitterInv, PassInv, CopyPayload, numbering, consumer
<1>3. ToldInv'
  BY DEF JitterInv, ToldInv, CopyPayload, consumer
<1>4. AheadInv'
  BY DEF JitterInv, AheadInv, CopyPayload, numbering, consumer
<1>5. SlotInv'
  BY Arithmetic DEF JitterInv, JitterKinds, SlotInv, Writing, CopyPayload, Packet, numbering,
     consumer
<1> QED BY <1>1, <1>2, <1>3, <1>4, <1>5 DEF JitterInv

\* What is published is not the slot the consumer is reading.
LEMMA PublishStampKeeps ==
  ASSUME NEW n, ShortSession(n), JitterInv(n), PublishStamp
  PROVE  JitterInv(n)'
<1>1. JitterKinds(n)'
  <2>1. stamp' \in [Slots -> 0..Peak(n) \union {None}]
    BY DEF PublishStamp, JitterInv, JitterKinds
  <2>2. pNumber' = 0 /\ pPlayout' = 0 /\ pPlaying' = FALSE /\ pAt' = "idle"
    BY DEF PublishStamp, SubmitReturns
  <2>3. pNumber' \in 0..Peak(n) /\ pPlayout' \in 0..(Peak(n) + 1)
    BY <2>2, Arithmetic
  <2>4. pPlaying' \in BOOLEAN
    BY <2>2
  <2> QED BY <2>1, <2>2, <2>3, <2>4 DEF JitterInv, JitterKinds, PublishStamp, network, numbering,
             depths, consumer
<1>2. PassInv(n)'
  BY DEF JitterInv, PassInv, PublishStamp, numbering, consumer
<1>3. ToldInv'
  BY DEF JitterInv, ToldInv, PublishStamp, consumer
<1>4. AheadInv'
  BY DEF JitterInv, AheadInv, PublishStamp, numbering, consumer
<1>5. SlotInv'
  <2>1. SlotOf(pNumber) \in Slots
    BY Arithmetic DEF JitterInv, JitterKinds
  <2>2. /\ stamp' = [stamp EXCEPT ![SlotOf(pNumber)] = pNumber]
        /\ pAt = "publish" /\ pAt' = "idle" /\ pPlayout' = 0
    BY DEF PublishStamp, SubmitReturns
  <2>3. stamp[SlotOf(pNumber)] \in 0..Peak(n) \union {None} /\ playout \in Nat /\ pPlayout \in Nat
    BY <2>1 DEF JitterInv, JitterKinds
  <2>4. epoch = 0 /\ cAt \in {"decoding", "discarding"} => SlotOf(playout) # SlotOf(pNumber)
    BY <2>2, <2>1, <2>3 DEF JitterInv, SlotInv, Writing, None
  <2> QED BY <2>1, <2>2, <2>3, <2>4 DEF JitterInv, JitterKinds, SlotInv, Writing, PublishStamp,
             numbering, consumer
<1> QED BY <1>1, <1>2, <1>3, <1>4, <1>5 DEF JitterInv

\* The control thread moves the limits under both.
LEMMA ConfigureDepthKeeps ==
  ASSUME NEW n, ShortSession(n), JitterInv(n), ConfigureDepth
  PROVE  JitterInv(n)'
<1>1. JitterKinds(n)'
  BY DEF JitterInv, JitterKinds, ConfigureDepth, Settings, network, numbering, producer, consumer
<1>2. PassInv(n)'
  BY DEF JitterInv, PassInv, ConfigureDepth, numbering, consumer
<1>3. ToldInv'
  BY DEF JitterInv, ToldInv, ConfigureDepth, consumer
<1>4. AheadInv'
  BY DEF JitterInv, AheadInv, ConfigureDepth, numbering, producer, consumer
<1>5. SlotInv'
  BY DEF JitterInv, SlotInv, Writing, ConfigureDepth, numbering, producer, consumer
<1> QED BY <1>1, <1>2, <1>3, <1>4, <1>5 DEF JitterInv

-------------------------------------------------------------------------------
(* The consumer.                                                             *)

LEMMA BeginPacketKeeps ==
  ASSUME NEW n, ShortSession(n), JitterInv(n), BeginPacket
  PROVE  JitterInv(n)'
<1>1. JitterKinds(n)'
  BY DEF JitterInv, JitterKinds, BeginPacket, StillPrimed, network, numbering, depths, producer
<1>2. PassInv(n)'
  BY DEF JitterInv, PassInv, Held, BeginPacket, StillPrimed, numbering
<1>3. ToldInv'
  BY DEF JitterInv, ToldInv, Held, BeginPacket
<1>4. AheadInv'
  BY DEF JitterInv, AheadInv, BeginPacket, StillPrimed, numbering, producer
<1>5. SlotInv'
  BY DEF JitterInv, JitterKinds, SlotInv, Writing, BeginPacket, StillPrimed, numbering, producer
<1> QED BY <1>1, <1>2, <1>3, <1>4, <1>5 DEF JitterInv

LEMMA PrimeLookKeeps ==
  ASSUME NEW n, ShortSession(n), JitterInv(n), PrimeLook
  PROVE  JitterInv(n)'
<1>1. JitterKinds(n)'
  BY DEF JitterInv, JitterKinds, PrimeLook, network, numbering, depths, producer
<1>2. PassInv(n)'
  BY DEF JitterInv, PassInv, Held, PrimeLook, numbering
<1>3. ToldInv'
  BY DEF JitterInv, JitterKinds, PassInv, ToldInv, PrimeLook
<1>4. AheadInv'
  BY DEF JitterInv, JitterKinds, PassInv, AheadInv, PrimeLook, numbering
<1>5. SlotInv'
  BY DEF JitterInv, SlotInv, Writing, PrimeLook, numbering, producer
<1> QED BY <1>1, <1>2, <1>3, <1>4, <1>5 DEF JitterInv

\* A priming puts playout within what has arrived.
LEMMA PrimeSpanKeeps ==
  ASSUME NEW n, ShortSession(n), JitterInv(n), PrimeSpan
  PROVE  JitterInv(n)'
<1>h. \/ playout' = playout /\ told' = told /\ cAt' = "idle"
      \/ /\ playout' = cHighest + 1 - cTarget /\ playout' \in 0..cHighest
         /\ told' = None /\ cAt' = "primed"
  <2>1. /\ cHighest \in 0..Peak(n) /\ first \in 0..Peak(n) /\ cTarget \in MinDepth..MaxDepth
    BY DEF JitterInv, JitterKinds
  <2>2. Distance(cHighest, first) = cHighest - first
    BY <2>1, Arithmetic
  <2>3. CASE cHighest - first + 1 < cTarget
    BY <2>2, <2>3 DEF PrimeSpan
  <2>4. CASE ~(cHighest - first + 1 < cTarget)
    <3>1. -(cTarget - 1) \in Int /\ cHighest + (-(cTarget - 1)) = cHighest + 1 - cTarget
          /\ cHighest + 1 - cTarget \in 0..cHighest
      BY <2>1, <2>4, Arithmetic
    <3>2. cHighest \in Int /\ cHighest + (-(cTarget - 1)) \in 0..(Peak(n) + 1)
      BY <2>1, <3>1, Arithmetic
    <3>3. Plus(cHighest, -(cTarget - 1)) = cHighest + 1 - cTarget
      BY <3>1, <3>2, Moved
    <3> QED BY <2>2, <2>4, <3>1, <3>3 DEF PrimeSpan
  <2> QED BY <2>3, <2>4
<1>1. JitterKinds(n)'
  BY <1>h, Arithmetic DEF JitterInv, JitterKinds, PrimeSpan, network, numbering, depths, producer
<1>2. PassInv(n)'
  BY DEF JitterInv, PassInv, Held, PrimeSpan, numbering
<1>3. ToldInv'
  BY DEF JitterInv, JitterKinds, PassInv, ToldInv, PrimeSpan
<1>4. AheadInv'
  BY <1>h DEF JitterInv, JitterKinds, AheadInv, PrimeSpan, numbering, producer
<1>5. SlotInv'
  BY <1>h DEF JitterInv, JitterKinds, PassInv, SlotInv, Writing, PrimeSpan, numbering, producer
<1> QED BY <1>1, <1>2, <1>3, <1>4, <1>5 DEF JitterInv

LEMMA PrimeDoneKeeps ==
  ASSUME NEW n, ShortSession(n), JitterInv(n), PrimeDone
  PROVE  JitterInv(n)'
<1>1. JitterKinds(n)'
  BY DEF JitterInv, JitterKinds, PrimeDone, network, numbering, depths, producer
<1>2. PassInv(n)'
  BY DEF JitterInv, PassInv, PrimeDone, numbering
<1>3. ToldInv'
  BY DEF JitterInv, JitterKinds, PassInv, ToldInv, PrimeDone
<1>4. AheadInv'
  BY DEF JitterInv, AheadInv, PrimeDone, numbering, producer
<1>5. SlotInv'
  BY DEF JitterInv, SlotInv, Writing, PrimeDone, numbering, producer
<1> QED BY <1>1, <1>2, <1>3, <1>4, <1>5 DEF JitterInv

\* A packet is taken only where one is due, and trimmed only where two are.
LEMMA CheckDepthKeeps ==
  ASSUME NEW n, ShortSession(n), JitterInv(n), CheckDepth
  PROVE  JitterInv(n)'
<1>g. highest \in 0..(Peak(n) + 1) /\ playout \in 0..(Peak(n) + 1)
  BY Arithmetic DEF JitterInv, JitterKinds
<1>h. Depth = highest - playout + 1
  BY <1>g, Arithmetic DEF Depth
<1>i. /\ cAt = "depth" /\ cAt' \in {"idle", "take", "trim"}
      /\ cAt' = "take" => playout <= highest
      /\ cAt' = "trim" => playout + 1 <= highest
  <2>1. target \in Nat \ {0}
    BY Arithmetic DEF JitterInv, JitterKinds
  <2> QED BY <1>g, <1>h, <2>1, Arithmetic DEF CheckDepth, Stretches
<1>1. JitterKinds(n)'
  BY DEF JitterInv, JitterKinds, CheckDepth, network, numbering, depths, producer
<1>2. PassInv(n)'
  BY <1>i, Arithmetic DEF JitterInv, JitterKinds, PassInv, CheckDepth, numbering
<1>3. ToldInv'
  BY DEF JitterInv, ToldInv, Held, CheckDepth
<1>4. AheadInv'
  BY <1>i DEF JitterInv, AheadInv, CheckDepth, numbering, producer
<1>5. SlotInv'
  BY DEF JitterInv, SlotInv, Writing, CheckDepth, numbering, producer
<1> QED BY <1>1, <1>2, <1>3, <1>4, <1>5 DEF JitterInv

LEMMA TrimPacketKeeps ==
  ASSUME NEW n, ShortSession(n), JitterInv(n), TrimPacket
  PROVE  JitterInv(n)'
<1>h. playout + 1 \in 0..(Peak(n) + 1) /\ Plus(playout, 1) = playout + 1
  BY Arithmetic DEF JitterInv, JitterKinds, PassInv, TrimPacket
<1>g. PastTrimmed = playout + 1
  BY <1>h DEF PastTrimmed
<1>1. JitterKinds(n)'
  BY <1>g, Arithmetic DEF JitterInv, JitterKinds, PassInv, TrimPacket, network, numbering, depths,
     producer
<1>2. PassInv(n)'
  BY <1>g DEF JitterInv, PassInv, TrimPacket, numbering
<1>3. ToldInv'
  BY <1>g DEF JitterInv, JitterKinds, ToldInv, Held, TrimPacket
<1>4. AheadInv'
  BY <1>g DEF JitterInv, JitterKinds, AheadInv, TrimPacket, numbering, producer
<1>5. SlotInv'
  BY <1>g DEF JitterInv, JitterKinds, PassInv, SlotInv, Writing, TrimPacket, Due, numbering,
     producer
<1> QED BY <1>1, <1>2, <1>3, <1>4, <1>5 DEF JitterInv

LEMMA DiscardDecodedKeeps ==
  ASSUME NEW n, ShortSession(n), JitterInv(n), DiscardDecoded
  PROVE  JitterInv(n)'
<1>1. JitterKinds(n)'
  BY DEF JitterInv, JitterKinds, DiscardDecoded, Release, network, numbering, depths, producer
<1>2. PassInv(n)'
  BY DEF JitterInv, PassInv, Held, DiscardDecoded, numbering
<1>3. ToldInv'
  BY DEF JitterInv, ToldInv, Held, DiscardDecoded
<1>4. AheadInv'
  BY DEF JitterInv, AheadInv, DiscardDecoded, numbering, producer
<1>5. SlotInv'
  BY DEF JitterInv, SlotInv, Writing, DiscardDecoded, Release, numbering, producer
<1> QED BY <1>1, <1>2, <1>3, <1>4, <1>5 DEF JitterInv

LEMMA TrimDoneKeeps ==
  ASSUME NEW n, ShortSession(n), JitterInv(n), TrimDone
  PROVE  JitterInv(n)'
<1>h. playout + 1 \in 0..(Peak(n) + 1) /\ Plus(playout, 1) = playout + 1
  BY Arithmetic DEF JitterInv, JitterKinds, PassInv, TrimDone
<1>g. PastTrimmed = playout + 1
  BY <1>h DEF PastTrimmed
<1>1. JitterKinds(n)'
  BY <1>g, Arithmetic DEF JitterInv, JitterKinds, PassInv, TrimDone, network, numbering, depths,
     producer
<1>2. PassInv(n)'
  BY <1>g DEF JitterInv, PassInv, Held, TrimDone, numbering
<1>3. ToldInv'
  BY <1>g DEF JitterInv, JitterKinds, ToldInv, TrimDone
<1>4. AheadInv'
  BY <1>g DEF JitterInv, JitterKinds, AheadInv, TrimDone, numbering, producer
<1>5. SlotInv'
  BY <1>g DEF JitterInv, JitterKinds, PassInv, Held, SlotInv, Writing, TrimDone, numbering, producer
<1> QED BY <1>1, <1>2, <1>3, <1>4, <1>5 DEF JitterInv

LEMMA TakePacketKeeps ==
  ASSUME NEW n, ShortSession(n), JitterInv(n), TakePacket
  PROVE  JitterInv(n)'
<1>1. JitterKinds(n)'
  BY DEF JitterInv, JitterKinds, TakePacket, network, numbering, depths, producer
<1>2. PassInv(n)'
  BY DEF JitterInv, PassInv, TakePacket, numbering
<1>3. ToldInv'
  BY DEF JitterInv, JitterKinds, ToldInv, Held, TakePacket
<1>4. AheadInv'
  BY DEF JitterInv, AheadInv, TakePacket, numbering, producer
<1>5. SlotInv'
  BY DEF JitterInv, SlotInv, Writing, TakePacket, Due, numbering, producer
<1> QED BY <1>1, <1>2, <1>3, <1>4, <1>5 DEF JitterInv

LEMMA DecodePacketKeeps ==
  ASSUME NEW n, ShortSession(n), JitterInv(n), DecodePacket
  PROVE  JitterInv(n)'
<1>h. playout + 1 \in 0..(Peak(n) + 1) /\ Plus(playout, 1) = playout + 1
  BY Arithmetic DEF JitterInv, JitterKinds, PassInv, DecodePacket
<1>1. JitterKinds(n)'
  BY <1>h DEF JitterInv, JitterKinds, DecodePacket, Release, network, numbering, depths, producer
<1>2. PassInv(n)'
  BY <1>h DEF JitterInv, JitterKinds, PassInv, Held, DecodePacket, numbering
<1>3. ToldInv'
  BY <1>h DEF JitterInv, JitterKinds, ToldInv, Held, DecodePacket
<1>4. AheadInv'
  BY <1>h DEF JitterInv, JitterKinds, AheadInv, DecodePacket, numbering, producer
<1>5. SlotInv'
  <2>1. CASE playout' = Plus(playout, 1) /\ cAt' = "release" /\ UNCHANGED stamp
    BY <1>h, <2>1 DEF JitterInv, JitterKinds, PassInv, Held, SlotInv, Writing, DecodePacket,
       numbering, producer
  <2>2. CASE stamp' = Release /\ cAt' = "conceal" /\ UNCHANGED playout
    BY <2>2 DEF JitterInv, SlotInv, Writing, DecodePacket, Release, numbering, producer
  <2> QED BY <2>1, <2>2 DEF DecodePacket
<1> QED BY <1>1, <1>2, <1>3, <1>4, <1>5 DEF JitterInv

LEMMA ReleaseSlotKeeps ==
  ASSUME NEW n, ShortSession(n), JitterInv(n), ReleaseSlot
  PROVE  JitterInv(n)'
<1>1. JitterKinds(n)'
  BY DEF JitterInv, JitterKinds, ReleaseSlot, network, numbering, depths, producer
<1>2. PassInv(n)'
  BY DEF JitterInv, PassInv, ReleaseSlot, numbering
<1>3. ToldInv'
  BY DEF JitterInv, ToldInv, Held, ReleaseSlot
<1>4. AheadInv'
  BY DEF JitterInv, AheadInv, ReleaseSlot, numbering, producer
<1>5. SlotInv'
  BY DEF JitterInv, SlotInv, Writing, ReleaseSlot, numbering, producer
<1> QED BY <1>1, <1>2, <1>3, <1>4, <1>5 DEF JitterInv

LEMMA ConcealPacketKeeps ==
  ASSUME NEW n, ShortSession(n), JitterInv(n), ConcealPacket
  PROVE  JitterInv(n)'
<1>h. playout + 1 \in 0..(Peak(n) + 1) /\ Plus(playout, 1) = playout + 1
  BY Arithmetic DEF JitterInv, JitterKinds, PassInv, ConcealPacket
<1>1. JitterKinds(n)'
  BY <1>h DEF JitterInv, JitterKinds, ConcealPacket, network, numbering, depths, producer
<1>2. PassInv(n)'
  BY DEF JitterInv, PassInv, Held, ConcealPacket, numbering
<1>3. ToldInv'
  BY <1>h DEF JitterInv, JitterKinds, ToldInv, ConcealPacket
<1>4. AheadInv'
  BY <1>h DEF JitterInv, JitterKinds, AheadInv, ConcealPacket, numbering, producer
<1>5. SlotInv'
  BY <1>h DEF JitterInv, JitterKinds, PassInv, Held, SlotInv, Writing, ConcealPacket, numbering,
     producer
<1> QED BY <1>1, <1>2, <1>3, <1>4, <1>5 DEF JitterInv

-------------------------------------------------------------------------------
(* Every step.                                                               *)

\* Every step of every thread keeps the invariant.
LEMMA JitterStep ==
  ASSUME NEW n, ShortSession(n), JitterInv(n), [JitterNext]_jitterVars
  PROVE  JitterInv(n)'
<1>1. CASE UNCHANGED jitterVars
  BY <1>1 DEF jitterVars, network, numbering, depths, producer, consumer, JitterInv, JitterKinds,
     PassInv, ToldInv, AheadInv, SlotInv, Writing
<1>2. CASE RestartNumbering \/ ConfigureDepth
  BY <1>2, RestartNumberingKeeps, ConfigureDepthKeeps
<1>3. CASE Produce
  BY <1>3, SubmitKeeps, RebaseHighestKeeps, RebaseEpochKeeps, AdaptTargetKeeps,
     LookWhetherLateKeeps, ClaimSlotKeeps, CopyPayloadKeeps, PublishStampKeeps DEF Produce
<1>4. CASE Consume
  BY <1>4, BeginPacketKeeps, PrimeLookKeeps, PrimeSpanKeeps, PrimeDoneKeeps, CheckDepthKeeps,
     TrimPacketKeeps, DiscardDecodedKeeps, TrimDoneKeeps, TakePacketKeeps, DecodePacketKeeps,
     ReleaseSlotKeeps, ConcealPacketKeeps DEF Consume
<1> QED BY <1>1, <1>2, <1>3, <1>4 DEF JitterNext

\* What either thread may rely on of the other, in any session whose numbers do not
\* wrap around.
THEOREM JitterCorrect ==
  ASSUME NEW n, ShortSession(n)
  PROVE  JitterSpec => []JitterInv(n)
<1>1. JitterInit => JitterInv(n)
  BY Initially
<1>2. JitterInv(n) /\ [JitterNext]_jitterVars => JitterInv(n)'
  BY JitterStep
<1> QED BY <1>1, <1>2, PTL DEF JitterSpec

\* Every variable keeps to its values.
THEOREM JitterTypeCorrect ==
  ASSUME NEW n, ShortSession(n)
  PROVE  JitterSpec => []TypeOK
<1>1. JitterInv(n) => TypeOK
  <2> SUFFICES ASSUME JitterInv(n) PROVE TypeOK
    OBVIOUS
  <2>1. \A a \in 0..(Peak(n) + 1) : a \in Numbers
    BY Arithmetic DEF Numbers
  <2>2. next \in Numbers
    <3>1. (MaxPackets - packets) * (n + 1) \in Nat
      BY Arithmetic, Room DEF JitterInv, JitterKinds
    <3> QED BY <3>1, Arithmetic DEF JitterInv, JitterKinds, Numbers
  <2>3. Peak(n) \in Nat /\ 0..Peak(n) \subseteq 0..(Peak(n) + 1)
    BY Arithmetic
  <2>4. stamp \in [Slots -> Numbers \union {None}] /\ told \in Numbers \union {None}
    BY <2>1, <2>3 DEF JitterInv, JitterKinds
  <2>5. /\ first \in Numbers /\ highest \in Numbers /\ pNumber \in Numbers /\ cHighest \in Numbers
        /\ playout \in Numbers /\ pPlayout \in Numbers
    BY <2>1, <2>3 DEF JitterInv, JitterKinds
  <2>6. packets \in Nat /\ observed \in Nat
    BY DEF JitterInv, JitterKinds
  <2> QED BY <2>2, <2>4, <2>5, <2>6 DEF JitterInv, JitterKinds, TypeOK
<1> QED BY <1>1, JitterCorrect, PTL

\* While the numbering lasts, the decoder is given the whole packet that is due,
\* whatever the producer reclaims and writes meanwhile; and playout is never more than
\* one packet ahead of what has arrived.  (submit(), beginPacket())
THEOREM DueIsPlayed ==
  ASSUME NEW n, ShortSession(n)
  PROVE  JitterSpec => []PlaysWhatIsDue
<1>1. JitterInv(n) => DecodesWhatIsDueUntilResync
  <2> SUFFICES ASSUME JitterInv(n), epoch = 0, cAt \in {"decoding", "discarding"}
               PROVE  /\ data[SlotOf(playout)].number = playout
                      /\ ~(pAt = "copy" /\ SlotOf(pNumber) = SlotOf(playout))
    BY DEF DecodesWhatIsDueUntilResync, DecodesWhatIsDue
  <2>1. playout \in Nat /\ pPlayout \in Nat /\ SlotOf(playout) \in Slots
    BY Arithmetic DEF JitterInv, JitterKinds
  <2>2. stamp[SlotOf(playout)] = playout /\ pPlayout <= playout
    BY DEF JitterInv, SlotInv
  <2>3. ~Writing(SlotOf(playout))
    BY <2>1, <2>2 DEF JitterInv, SlotInv, None
  <2>4. data[SlotOf(playout)].number = playout
    BY <2>1, <2>2, <2>3 DEF JitterInv, SlotInv, None
  <2> QED BY <2>3, <2>4 DEF Writing
<1>2. JitterInv(n) => PlayoutNotAhead
  <2> SUFFICES ASSUME JitterInv(n), primed, observed = epoch, pAt \notin {"rebase", "epoch"}
               PROVE  Depth >= 0
    BY DEF PlayoutNotAhead
  <2>1. highest \in 0..(Peak(n) + 1) /\ playout \in 0..(Peak(n) + 1) /\ playout <= highest + 1
    BY Arithmetic DEF JitterInv, JitterKinds, AheadInv
  <2>2. Depth = highest - playout + 1
    BY <2>1, Arithmetic DEF Depth
  <2> QED BY <2>1, <2>2
<1> QED BY <1>1, <1>2, JitterCorrect, PTL DEF PlaysWhatIsDue

\* Between two primings the decoder is told of every number at most once and in order,
\* whatever arrives twice, late or while a slot is released.  (beginPacket())
THEOREM EachToldOnce ==
  ASSUME NEW n, ShortSession(n)
  PROVE  JitterSpec => ToldInOrder
<1>1. JitterInv(n) /\ cAt \in {"trim", "take"} /\ told # None => SequenceBefore(told, playout)
  <2> SUFFICES ASSUME JitterInv(n), cAt \in {"trim", "take"}, told # None
               PROVE  SequenceBefore(told, playout)
    OBVIOUS
  <2>1. told < playout
    BY DEF JitterInv, ToldInv, Held
  <2>2. told \in 0..(Peak(n) + 1) /\ playout \in 0..(Peak(n) + 1)
    BY DEF JitterInv, JitterKinds
  <2> QED BY <2>1, <2>2, Arithmetic
<1>2. JitterInv(n) /\ [JitterNext]_jitterVars
        => [/\ cAt \in {"trim", "take"} /\ told # None
            /\ cAt' \in {"discarding", "decoding", "conceal"}
            => SequenceBefore(told, playout)]_jitterVars
  BY <1>1
<1> QED BY <1>2, JitterCorrect, PTL DEF JitterSpec, ToldInOrder
==============================================================================
