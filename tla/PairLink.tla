------------------------------ MODULE PairLink ------------------------------
(***************************************************************************)
(* The two ends of a pair of src/platform/windows/windows_peer_audio_      *)
(* transport.cpp over time: who believes to be in session with whom while  *)
(* each direction of the path comes and goes.  The keys, the replay window *)
(* and restarts are in PairSession; here every packet that arrives opens.  *)
(*                                                                         *)
(* Time is cut into periods of the five seconds after which an end gives   *)
(* up on silence.  The worker makes hundreds of passes in one, and a path  *)
(* that carries packets carries them in far less: in every period both     *)
(* ends take their turn and all that is sent arrives, or is lost.          *)
(***************************************************************************)
EXTENDS Naturals

CONSTANT MaxOutages     \* bound: times a direction stops carrying packets

\* What a configuration has to respect; MCMachine assumes it.
OutageAssumption == MaxOutages \in Nat

Host == "host"
Guest == "guest"
Ends == {Host, Guest}
Other(e) == IF e = Host THEN Guest ELSE Host

VARIABLES connected,    \* slot.connected at each end
          known,        \* slot.remoteEndpointKnown at the host
          heard,        \* lastReceive was set in this period
          turned,       \* the worker of an end sent what it sends every period
          flying,       \* packets on their way to an end
          carries,      \* whether the path to an end carries packets
          outages

vars == <<connected, known, heard, turned, flying, carries, outages>>

Types == {"Hello", "HelloAck", "Punch", "Ping", "Pong"}

Init == /\ connected = [e \in Ends |-> FALSE] /\ known = FALSE
        /\ heard = [e \in Ends |-> FALSE]
        /\ turned = [e \in Ends |-> FALSE]
        /\ flying = [e \in Ends |-> {}]
        /\ carries = [e \in Ends |-> TRUE] /\ outages = 0

-----------------------------------------------------------------------------
(* What becomes of packets that e sends: they fly, or are lost at once. *)
Sent(e, types) == IF carries[Other(e)] THEN types ELSE {}

(* Mistake: the role of an end in the pair is not looked at. *)
DueByEither(e) == IF connected[e] THEN {"Ping"} ELSE {"Hello"}

(* run(): a guest out of session reaches out, a host out of session        *)
(* punches, and an end in session sends control packets (and audio, which  *)
(* does no more for the other end than they do).                           *)
Due(e) == IF connected[e] THEN {"Ping"}
          ELSE IF e = Guest THEN {"Hello"}
          ELSE IF known THEN {"Punch"} ELSE {}

Turn(e) ==
    /\ ~turned[e]
    /\ turned' = [turned EXCEPT ![e] = TRUE]
    /\ flying' = [flying EXCEPT ![Other(e)] = @ \union Sent(e, Due(e))]
    /\ UNCHANGED <<connected, known, heard, carries, outages>>

(* Mistake: only a musician who just joined is answered. *)
AnswersToNewcomer(e, m) == CASE m = "Hello" -> IF connected[e] THEN {} ELSE {"HelloAck"}
                             [] m = "Ping" -> {"Pong"}
                             [] OTHER -> {}

(* handlePacketForSlot(): a Ping is answered in session or out of it. *)
Answers(e, m) == CASE m = "Hello" -> {"HelloAck"}
                   [] m = "Ping" -> {"Pong"}
                   [] OTHER -> {}

Joins(e, m) == m \in {"Hello", "HelloAck"}

(* Whatever opens and is not a replay sets lastReceive, a Punch too. *)
Receive(e, m) ==
    /\ m \in flying[e]
    /\ flying' = [flying EXCEPT ![e] = @ \ {m},
                                ![Other(e)] = @ \union Sent(e, Answers(e, m))]
    /\ heard' = [heard EXCEPT ![e] = TRUE]
    /\ connected' = [connected EXCEPT ![e] = @ \/ Joins(e, m)]
    /\ known' = (known \/ e = Host)
    /\ UNCHANGED <<turned, carries, outages>>

(* Mistake: an end that hears nothing stays in session. *)
StaysInSession(e) == connected[e]

StillInSession(e) == connected[e] /\ heard[e]

(* expireSilentPeers(), at both ends, when the period is over. *)
PeriodOver ==
    /\ \A e \in Ends : turned[e] /\ flying[e] = {}
    /\ connected' = [e \in Ends |-> StillInSession(e)]
    /\ heard' = [e \in Ends |-> FALSE]
    /\ turned' = [e \in Ends |-> FALSE]
    /\ UNCHANGED <<known, flying, carries, outages>>

(* The network: one direction goes, with what is on its way, and returns. *)
Outage(e) ==
    /\ carries[e] /\ outages < MaxOutages
    /\ outages' = outages + 1
    /\ carries' = [carries EXCEPT ![e] = FALSE]
    /\ flying' = [flying EXCEPT ![e] = {}]
    /\ UNCHANGED <<connected, known, heard, turned>>

Repair(e) ==
    /\ ~carries[e]
    /\ carries' = [carries EXCEPT ![e] = TRUE]
    /\ UNCHANGED <<connected, known, heard, turned, flying, outages>>

Next == \/ \E e \in Ends : Turn(e) \/ Outage(e) \/ Repair(e)
        \/ \E e \in Ends, m \in Types : Receive(e, m)
        \/ PeriodOver

(* The worker of each end keeps running, and what the path carries arrives. *)
Fairness == /\ \A e \in Ends : WF_vars(Turn(e))
            /\ \A e \in Ends, m \in Types : WF_vars(Receive(e, m))
            /\ WF_vars(PeriodOver)

Spec == Init /\ [][Next]_vars /\ Fairness

-----------------------------------------------------------------------------
TypeOK == /\ connected \in [Ends -> BOOLEAN] /\ known \in BOOLEAN
          /\ heard \in [Ends -> BOOLEAN] /\ turned \in [Ends -> BOOLEAN]
          /\ flying \in [Ends -> SUBSET Types]
          /\ flying[Host] \subseteq {"Hello", "Ping", "Pong"}
          /\ flying[Guest] \subseteq Types \ {"Hello"}
          /\ carries \in [Ends -> BOOLEAN] /\ outages \in 0..MaxOutages

Both == connected[Host] /\ connected[Guest]

PathRepaired == <>[](\A e \in Ends : carries[e])

(* Once the path carries packets for good, a guest left without a session  *)
(* gets back into one, whatever its host believed, and its host knows.     *)
GuestGetsIn == PathRepaired => (~connected[Guest] ~> Both)

(* An end that is not reached any more comes to show that nobody is there, *)
(* whatever it last heard and whatever it goes on sending.                 *)
SilenceIsNoticed == \A e \in Ends : <>[]~carries[e] => <>[]~connected[e]

(* docs/multi-participant-architecture.md:295 of a peer that times out:    *)
(* its slot and addresses are kept "because they are what let a dropped    *)
(* session re-form without a fresh invite".                                *)
DroppedReforms == PathRepaired => \A e \in Ends : ~connected[e] ~> Both
=============================================================================
