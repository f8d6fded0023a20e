------------------------------ MODULE DesktopRoom ------------------------------
(***************************************************************************)
(* What the musician sees and sends (app_controller.cpp, Main.qml,         *)
(* RoomPage.qml): the pages, the tuner and what it silences, the mutes,    *)
(* the room that is entered and left, the friends in it, and the one line  *)
(* of guidance above it (session_conductor.cpp).                           *)
(*                                                                         *)
(* All of it runs on the application's thread.  The transport and the      *)
(* audio service change under it, and are only looked at thirty times a    *)
(* second (Poll); the devices themselves are the subject of DesktopAudio.  *)
(***************************************************************************)
EXTENDS Integers, Sequences, FiniteSets

CONSTANTS Friends,    \* the other musicians
          MaxCalls,   \* bound: what the musician does
          MaxEvents   \* bound: what happens to the transport, the devices and a request

VARIABLES page,       \* currentPage_
          returns,    \* tunerReturnPage_ and settingsReturnPage_
          tuner,      \* tunerActive_, and tunerMutesInstrument of the preferences
          drawer,     \* tunerOpen of the room page that is shown
          mutes,      \* instrumentSendMuted_, voiceSendMuted_, sendMuted_
          transport,  \* the transport of the room
          directory,  \* PrivateRoomDirectory: Idle, Hosting, Asked or Refused
          invite,     \* inviteCode_ is not empty
          known,      \* remoteParticipant_, remoteParticipants_, peerHasConnected_,
                      \* peerReconnecting_, buildIncompatible_
          seen,       \* peerTelemetry_, what of it matters
          audio,      \* the devices' state, readiness, and whether they are polled
          guidance,   \* the phase of guidance_
          bounds

desktopVars == <<page, returns, tuner, drawer, mutes, transport, directory, invite, known, seen,
          audio, guidance, bounds>>

Pages == {"home", "soundcheck", "settings", "room", "tuner", "profile"}
NoFriend == "Nobody"
Unmuted == [instrument |-> FALSE, voice |-> FALSE, all |-> FALSE]
NoTransport == [role |-> "None", state |-> "Idle", mutes |-> Unmuted, here |-> {}, met |-> {},
                stalled |-> FALSE, events |-> <<>>]
NobodyKnown == [last |-> NoFriend, people |-> {}, had |-> FALSE, reconnecting |-> FALSE,
                incompatible |-> FALSE]
Unseen == [state |-> "Idle", bound |-> FALSE, stalled |-> FALSE]

InRoom == transport.role # "None"

\* roomActive()
RoomActive == InRoom \/ directory # "Idle"

-------------------------------------------------------------------------------
(* Pages and mutes.                                                          *)

\* Mistake: closing the tuner lets the instrument be heard.
TunerWritesLast(t, flags, tun) ==
  IF t.role = "None" THEN t
  ELSE [t EXCEPT !.mutes.instrument = tun.active /\ tun.mutes, !.mutes.voice = flags.voice]

\* applyLocalSendMutes(): the single writer of the two streams' mutes.
Applied(t, flags, tun) ==
  IF t.role = "None" THEN t
  ELSE [t EXCEPT !.mutes.instrument = flags.instrument \/ (tun.active /\ tun.mutes),
                 !.mutes.voice = flags.voice]

\* setTunerActive()
TunerSet(active, t, flags) ==
  /\ tuner' = [tuner EXCEPT !.active = active]
  /\ transport' = IF tuner.active = active THEN t ELSE Applied(t, flags, tuner')

\* setCurrentPage(), with a transport t and mutes.  A page that is left is
\* unloaded, its drawer with it.
GoTo(p, t, flags) ==
  /\ page' = p
  /\ TunerSet(p = "tuner" \/ (tuner.active /\ page # "tuner"), t, flags)
  /\ returns' = IF p = "tuner" /\ page # "tuner"
                THEN [returns EXCEPT !.tuner = IF page = "room" THEN "room" ELSE "home"]
                ELSE returns
  /\ drawer' = (drawer /\ page = "room" /\ p = "room")

Calls == /\ bounds.calls < MaxCalls
         /\ bounds' = [bounds EXCEPT !.calls = @ + 1]

StaysInRoom == UNCHANGED <<mutes, directory, invite, known, seen, audio, guidance>>

\* navigate() from a page or by a shortcut: to any page but the room's.
Navigate(p) ==
  /\ Calls /\ p \in Pages \ {"room", page}
  /\ p \in {"settings", "profile", "soundcheck"} => page = "home"
  /\ GoTo(p, transport, mutes)
  /\ StaysInRoom

\* openSettings()
OpenSettings ==
  /\ Calls /\ page # "settings"
  /\ page' = "settings" /\ drawer' = FALSE
  /\ TunerSet(tuner.active /\ page # "tuner", transport, mutes)
  /\ returns' = [returns EXCEPT !.settings = page]
  /\ StaysInRoom

\* Where closeSettings() goes.
SettingsReturn == IF returns.settings = "room" /\ RoomActive THEN "room" ELSE "home"

\* closeSettings()
CloseSettings ==
  /\ Calls /\ page = "settings"
  /\ GoTo(SettingsReturn, transport, mutes)
  /\ StaysInRoom

\* closeTuner()
CloseTuner ==
  /\ Calls /\ page = "tuner"
  /\ GoTo(returns.tuner, transport, mutes)
  /\ StaysInRoom

\* The drawer of the room page: setTunerActive() follows it.
ToggleDrawer ==
  /\ Calls /\ page = "room"
  /\ drawer' = ~drawer
  /\ TunerSet(drawer', transport, mutes)
  /\ UNCHANGED <<page, returns>> /\ StaysInRoom

\* setTunerMutesInstrument(), in Settings.
SetTunerMutes ==
  /\ Calls /\ page \in {"settings", "tuner"}
  /\ tuner' = [tuner EXCEPT !.mutes = ~@]
  /\ transport' = Applied(transport, mutes, tuner')
  /\ UNCHANGED <<page, returns, drawer>> /\ StaysInRoom

\* setInstrumentSendMuted() and setVoiceSendMuted(), on the room page.
Mute(stream) ==
  /\ Calls /\ page = "room"
  /\ mutes' = [mutes EXCEPT ![stream] = ~@]
  /\ transport' = Applied(transport, mutes', tuner)
  /\ UNCHANGED <<page, returns, tuner, drawer, directory, invite, known, seen, audio, guidance>>

\* setSendMuted(), by the room page or, while there is a room, by a key.
MuteAll ==
  /\ Calls /\ RoomActive
  /\ mutes' = [mutes EXCEPT !.all = ~@]
  /\ transport' = IF InRoom THEN [transport EXCEPT !.mutes.all = mutes'.all] ELSE transport
  /\ UNCHANGED <<page, returns, tuner, drawer, directory, invite, known, seen, audio, guidance>>

-------------------------------------------------------------------------------
(* Rooms.                                                                    *)

NewTransport(role) ==
  [role |-> role, state |-> IF role = "Host" THEN "WaitingForPeer" ELSE "Connecting",
   mutes |-> Unmuted, here |-> {}, met |-> {}, stalled |-> FALSE, events |-> <<>>]

MayBegin == audio.state = "Running" /\ audio.verified

\* A refusal sends the musician to the sound check.
SendToSoundcheck ==
  /\ Calls /\ page = "home" /\ ~MayBegin
  /\ GoTo("soundcheck", transport, mutes)
  /\ StaysInRoom

\* Mistake: who was met in the last room is remembered in the next.
StillKnown == known

\* What is known of the friends when a room is left, or another begins.
Forgotten == NobodyKnown

\* restartAudio(): the devices open, or do not.
AudioOpened ==
  audio' \in {[audio EXCEPT !.state = s, !.polled = @ \/ s = "Running"] :
                s \in {"Running", "Stopped"}}

\* leaveSession(), when there is something to leave.
LeaveSession ==
  /\ RoomActive
  /\ directory' = "Idle" /\ invite' = FALSE
  /\ mutes' = Unmuted /\ known' = Forgotten /\ seen' = Unseen
  /\ AudioOpened
  /\ GoTo("home", NoTransport, mutes')
  /\ UNCHANGED guidance

Leave == Calls /\ page = "room" /\ LeaveSession

\* The last lines of hostSession() and joinDirectSession(), after what there
\* was has been left: the new transport is told the mutes, and they are reset.
Enter(role) ==
  LET flags == IF RoomActive THEN Unmuted ELSE mutes
      t     == Applied(NewTransport(role), flags,
                       [tuner EXCEPT !.active = @ /\ ~(RoomActive /\ page = "tuner")])
  IN /\ GoTo("room", t, Unmuted)
     /\ drawer' = FALSE
     /\ mutes' = Unmuted
     /\ invite' = (role = "Host")
     /\ known' = Forgotten
     /\ seen' = [Unseen EXCEPT !.state = IF role = "Host" THEN "WaitingForPeer" ELSE "Idle",
                                !.bound = role = "Host"]
     /\ AudioOpened
     /\ UNCHANGED guidance

\* host() or join() cannot open its socket: there was something to leave, or
\* nothing changes, but for the telemetry that says why.
NoSocket ==
  /\ IF RoomActive
     THEN /\ directory' = "Idle" /\ invite' = FALSE /\ mutes' = Unmuted /\ known' = Forgotten
          /\ AudioOpened
          /\ GoTo("home", NoTransport, Unmuted)
     ELSE UNCHANGED <<page, returns, tuner, drawer, mutes, transport, directory, invite, known,
                      audio>>
  /\ seen' = [Unseen EXCEPT !.state = "SocketFailed"]
  /\ UNCHANGED guidance

SocketFails == Calls /\ page = "home" /\ MayBegin /\ NoSocket

\* hostSession(), and hostInviteCodeSession() when a code is published with it.
HostRoom(coded) ==
  /\ Calls /\ page = "home" /\ MayBegin
  /\ Enter("Host")
  /\ directory' = IF coded THEN "Hosting" ELSE "Idle"

\* joinSession() with a whole invite: joinDirectSession().
JoinDirect ==
  /\ Calls /\ page = "home" /\ MayBegin
  /\ Enter("Guest")
  /\ directory' = "Idle"

\* joinSession() with a code: requestJoin().
Ask ==
  /\ Calls /\ page = "home" /\ MayBegin
  /\ IF RoomActive THEN /\ known' = Forgotten /\ seen' = Unseen /\ mutes' = Unmuted
                        /\ invite' = FALSE /\ AudioOpened
                   ELSE UNCHANGED <<known, seen, mutes, invite, audio>>
  /\ directory' = "Asked"
  /\ GoTo("room", NoTransport, mutes')
  /\ UNCHANGED guidance

Happens == /\ bounds.events < MaxEvents
           /\ bounds' = [bounds EXCEPT !.events = @ + 1]

\* The host's answer.  inviteResolved() joins, wherever the musician is, or the
\* invite is of no use and nothing is left of the room.
Answered ==
  /\ Happens /\ directory = "Asked"
  /\ \/ Enter("Guest") /\ directory' = "Idle"
     \/ NoSocket
     \/ /\ directory' = "Refused"
        /\ UNCHANGED <<page, returns, tuner, drawer, mutes, transport, invite, known, seen,
                       audio, guidance>>

-------------------------------------------------------------------------------
(* Guidance.                                                                 *)

\* refreshSessionGuidance() takes who publishes an invite for the one who joins.
JoiningRatherThanHosting == invite /\ directory # "Asked"

\* SessionConductor::evaluate(), with reach for what the router and the firewall
\* allow.
Phase(had, reach) ==
  CASE ~RoomActive -> "Idle"
    [] known.incompatible -> "FailedFinal"
    [] audio.state = "Lost" -> "FailedRecoverable"
    [] audio.state # "Running" \/ ~audio.verified -> "CheckingAudio"
    [] ~seen.bound -> "CheckingNetwork"
    [] seen.state = "Connected" ->
         IF seen.stalled THEN (IF had THEN "Reconnecting" ELSE "Connecting")
         ELSE "ReadyToPlay"
    [] seen.state = "SocketFailed" -> "FailedRecoverable"
    [] had -> "Reconnecting"
    [] JoiningRatherThanHosting -> "Joining"
    [] reach = "Blocked" -> "CheckingNetwork"
    [] OTHER -> IF reach = "Open" THEN "WaitingForPeer" ELSE "ReadyToInvite"

\* takeSessionAction(): what its button does to the pages.  LeaveRoom is the action
\* of FailedFinal alone, and nothing sets buildIncompatible_.
TakeAction ==
  /\ page = "room"
  /\ \/ /\ guidance = "CheckingAudio" /\ ~audio.verified /\ Calls
        /\ GoTo("soundcheck", transport, mutes) /\ StaysInRoom
     \/ /\ guidance = "ReadyToPlay" /\ OpenSettings

\* processRoomControlEvents(): one event.
Told(k, event) ==
  CASE event.type = "Joined"   -> [k EXCEPT !.last = event.who, !.people = @ \cup {event.who},
                                            !.reconnecting = FALSE]
    [] event.type = "Left"     -> [k EXCEPT !.reconnecting = TRUE]
    [] event.type = "Said"     -> [k EXCEPT !.last = event.who, !.people = @ \cup {event.who}]
    [] event.type = "Mismatch" -> [k EXCEPT !.last = event.who]

ToldAll(k, events) ==
  LET told[i \in 0 .. Len(events)] == IF i = 0 THEN k ELSE Told(told[i - 1], events[i])
  IN told[Len(events)]

\* pollAudioTelemetry(): the guidance of what was seen last, and then what there
\* is to see now.
Poll ==
  /\ audio.polled
  /\ audio' = [audio EXCEPT !.polled = audio.state = "Running"]
  /\ LET had == known.had \/ seen.state = "Connected"
     IN /\ \E reach \in {"Blocked", "Open", "Unknown"} : guidance' = Phase(had, reach)
        /\ known' = IF InRoom
                    THEN ToldAll([known EXCEPT !.had = had], transport.events)
                    ELSE [known EXCEPT !.had = had]
  /\ IF InRoom THEN /\ seen' = [state |-> transport.state, bound |-> TRUE,
                                   stalled |-> transport.stalled]
                    /\ transport' = [transport EXCEPT !.events = <<>>]
               ELSE UNCHANGED <<seen, transport>>
  /\ UNCHANGED <<page, returns, tuner, drawer, mutes, directory, invite, bounds>>

-------------------------------------------------------------------------------
(* What happens meanwhile.                                                   *)

Elsewhere == UNCHANGED <<page, returns, tuner, drawer, mutes, directory, invite, known, seen,
                         guidance>>

\* The transport's worker: a friend comes, goes silent, writes, has another build.
FriendJoins(f) ==
  /\ Happens /\ InRoom /\ f \notin transport.here
  /\ transport' = [transport EXCEPT !.here = @ \cup {f}, !.met = @ \cup {f},
                     !.state = "Connected", !.events = Append(@, [type |-> "Joined", who |-> f])]
  /\ Elsewhere /\ UNCHANGED audio

FriendLeaves(f) ==
  /\ Happens /\ InRoom /\ f \in transport.here
  /\ transport' = [transport EXCEPT !.here = @ \ {f},
                     !.state = IF transport.here = {f} THEN "ConnectionLost" ELSE @,
                     !.events = Append(@, [type |-> "Left", who |-> f])]
  /\ Elsewhere /\ UNCHANGED audio

FriendWrites(f) ==
  /\ Happens /\ InRoom /\ f \in transport.here
  /\ transport' = [transport EXCEPT !.events = Append(@, [type |-> "Said", who |-> f])]
  /\ Elsewhere /\ UNCHANGED audio

OtherBuild(f) ==
  /\ Happens /\ InRoom /\ transport.here = {}
  /\ transport' = [transport EXCEPT !.state = "VersionMismatch", !.met = @ \cup {f},
                     !.events = Append(@, [type |-> "Mismatch", who |-> f])]
  /\ Elsewhere /\ UNCHANGED audio

MediaStalls ==
  /\ Happens /\ InRoom /\ transport.here # {}
  /\ transport' = [transport EXCEPT !.stalled = ~@]
  /\ Elsewhere /\ UNCHANGED audio

\* DesktopAudio: a device is lost, opened again, verified.
AudioChanges ==
  /\ Happens
  /\ \/ audio.state = "Running" /\ audio' = [audio EXCEPT !.state = "Lost"]
     \/ /\ audio.state # "Running"
        /\ audio' = [audio EXCEPT !.state = "Running", !.polled = TRUE]
     \/ audio.state = "Running" /\ audio' = [audio EXCEPT !.verified = ~@]
  /\ Elsewhere /\ UNCHANGED transport

-------------------------------------------------------------------------------

\* The constructor, once the devices run.
DesktopInit ==
  /\ page = "home"
  /\ returns = [tuner |-> "home", settings |-> "home"]
  /\ tuner = [active |-> FALSE, mutes |-> TRUE]
  /\ drawer = FALSE
  /\ mutes = Unmuted
  /\ transport = NoTransport
  /\ directory = "Idle"
  /\ invite = FALSE
  /\ known = NobodyKnown
  /\ seen = Unseen
  /\ audio = [state |-> "Running", verified |-> TRUE, polled |-> TRUE]
  /\ guidance = "Idle"
  /\ bounds = [calls |-> 0, events |-> 0]

DesktopNext == \/ \E p \in Pages : Navigate(p)
               \/ OpenSettings \/ CloseSettings \/ CloseTuner \/ ToggleDrawer \/ SetTunerMutes
               \/ \E stream \in {"instrument", "voice"} : Mute(stream)
               \/ MuteAll \/ SendToSoundcheck \/ SocketFails \/ Leave \/ JoinDirect \/ Ask
               \/ \E coded \in BOOLEAN : HostRoom(coded)
               \/ Answered \/ TakeAction \/ Poll
               \/ \E f \in Friends : FriendJoins(f) \/ FriendLeaves(f) \/ FriendWrites(f) \/ OtherBuild(f)
               \/ MediaStalls \/ AudioChanges

\* The telemetry timer.
DesktopSpec == DesktopInit /\ [][DesktopNext]_desktopVars /\ WF_desktopVars(Poll)

-------------------------------------------------------------------------------
(* Properties.                                                               *)

\* What is kept from the friends is what the musician was shown to be muted, or
\* what the tuner holds back: whatever was muted, tuned, left and entered in
\* between, and whichever wrote last.  (applyLocalSendMutes())
MutedAsShown ==
  InRoom => /\ transport.mutes.instrument <=> mutes.instrument \/ (tuner.active /\ tuner.mutes)
            /\ transport.mutes.voice <=> mutes.voice
            /\ transport.mutes.all <=> mutes.all

\* The application knows only who was in this room: no friend, no lost connection
\* and no name of an earlier room is taken into the next.  (leaveSession())
KnowsOnlyThisRoom ==
  LET met == IF InRoom THEN transport.met ELSE {}
  IN /\ known.people \subseteq met /\ known.last \in met \cup {NoFriend}
     /\ known.had => met # {}

\* What is claimed: who opened the room is told to invite, and never that a
\* friend's room is being reached.  (refreshSessionGuidance(), evaluate())
HostIsNotJoining == InRoom /\ transport.role = "Host" => guidance # "Joining"

\* What is claimed: a build mismatch "is the one failure that is final".  Once the
\* application was told of one, the guidance says so.  (evaluate())
MismatchIsFinal == [][seen.state = "VersionMismatch" /\ guidance' # guidance
                      => guidance' = "FailedFinal"]_desktopVars

\* What is claimed: nobody leaves the tuner silently muted.
TunerReleased == tuner.active /\ tuner.mutes => page = "tuner" \/ drawer
=============================================================================
