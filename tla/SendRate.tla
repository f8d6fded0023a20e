-------------------------------- MODULE SendRate --------------------------------
(***************************************************************************)
(* How fast one end of a room sends, and whether it lets in another        *)
(* musician (windows_peer_audio_transport.cpp, bitrate_controller.cpp,     *)
(* room_capacity.cpp).                                                     *)
(*                                                                         *)
(* Every other musician reports, twice a second, what share of the audio   *)
(* it had to make up.  A controller for each of them turns the reports     *)
(* into a rate; there is one encoder, and it takes the lowest.  All of it  *)
(* runs on the worker: no step is interrupted.                             *)
(***************************************************************************)
EXTENDS Integers, FiniteSets, FiniteSetsExt

CONSTANTS Slots,         \* places for the other musicians: 1..n
          Floor,         \* the last step of the ladder; the first is 0
          BadToStepDown, \* badObservationsToStepDown
          CleanToStepUp  \* cleanObservationsToStepUp

ASSUME RateAssumption == {Floor, BadToStepDown, CleanToStepUp} \subseteq Nat

VARIABLES slots,    \* peers_
          encoder,  \* the step the encoder is set to: encoderBitrates
          calm      \* from now on every link carries what is sent

rateVars == <<slots, encoder, calm>>

NoRequest == -1

\* A fresh BitrateController; "reduced" is whether reductions() is above zero.
Controller == [step |-> 0, bad |-> 0, clean |-> 0, reduced |-> FALSE]

\* A session of its own: prepareSlotSession().
Prepared == [used |-> TRUE, connected |-> FALSE, controller |-> Controller,
             pending |-> NoRequest, requested |-> NoRequest]

Unused == [Prepared EXCEPT !.used = FALSE]

Connected == {s \in Slots : slots[s].connected}

-------------------------------------------------------------------------------
(* One report: observe().  Both counters stop counting where more makes no   *)
(* difference.                                                               *)

Reports == {"Lost", "Some", "Clean"}

Until(n, limit) == IF n < limit THEN n + 1 ELSE n

Worse(c) == [c EXCEPT !.clean = 0, !.bad = Until(@, BadToStepDown)]
Better(c) == [c EXCEPT !.bad = 0, !.clean = Until(@, CleanToStepUp)]

SteppedDown(c) == IF c.bad = BadToStepDown /\ c.step < Floor
                    THEN [c EXCEPT !.step = @ + 1, !.reduced = TRUE] ELSE c
SteppedUp(c) == IF c.clean = CleanToStepUp /\ c.step > 0
                  THEN [c EXCEPT !.step = @ - 1, !.clean = 0] ELSE c

Observed(c, report) == CASE report = "Lost"  -> SteppedDown(Worse(c))
                         [] report = "Clean" -> SteppedUp(Better(c))
                         [] report = "Some"  -> c

\* A ping: whoever is in a place may send one, a musician who has just been
\* given up among them.
Ping(s, report) ==
  /\ slots[s].used /\ (calm => report = "Clean")
  /\ LET heard == Observed(slots[s].controller, report)
     IN slots' = [slots EXCEPT ![s].controller = heard,
                               ![s].pending = IF heard.step # slots[s].controller.step
                                                THEN heard.step ELSE @]
  /\ UNCHANGED <<encoder, calm>>

-------------------------------------------------------------------------------
(* Sending: drainOutgoingAudio().                                            *)

\* Mistake: a request is heard once, and not remembered for the next pass.
HeardOnce(slot) == [slot EXCEPT !.requested = slot.pending, !.pending = NoRequest]

\* The latest rate that was asked for stands until there is another.
Taken(slot) == [slot EXCEPT !.requested = IF slot.pending # NoRequest THEN slot.pending ELSE @,
                            !.pending = NoRequest]

\* The lowest rate is the greatest step; without a request the encoder is left.
Slowest(asked) == Max({slots'[s].requested : s \in asked})

Drain ==
  /\ Connected # {}
  /\ slots' = [s \in Slots |-> IF slots[s].connected THEN Taken(slots[s]) ELSE slots[s]]
  /\ encoder' = IF Slowest(Connected) = NoRequest THEN encoder ELSE Slowest(Connected)
  /\ UNCHANGED calm

-------------------------------------------------------------------------------
(* Coming and going.                                                         *)

\* canAdmitAnotherMusician(), evaluateRoomCapacity(): how fast the uplink is,
\* nobody has said.
Strained == \E s \in Slots : slots[s].used /\ slots[s].controller.reduced
CanAdmit == Cardinality(Connected) < Cardinality(Slots) /\ ~Strained

\* allocateSlot()
Free == LET unused == {s \in Slots : ~slots[s].used}
        IN IF unused # {} THEN {Min(unused)} ELSE Slots \ Connected

\* admitStranger(), or a musician the room introduced who has yet to answer.
Admit(s, answers) ==
  /\ CanAdmit /\ s \in Free
  /\ slots' = [slots EXCEPT ![s] = [Prepared EXCEPT !.connected = answers]]
  /\ UNCHANGED <<encoder, calm>>

\* A musician in a place of that name asks again, or answers.
Joins(s) ==
  /\ slots[s].used /\ ~slots[s].connected
  /\ slots' = [slots EXCEPT ![s].connected = TRUE]
  /\ UNCHANGED <<encoder, calm>>

\* expireSilentPeers()
Expire(s) ==
  /\ slots[s].connected
  /\ slots' = [slots EXCEPT ![s].connected = FALSE]
  /\ UNCHANGED <<encoder, calm>>

Settle == ~calm /\ calm' = TRUE /\ UNCHANGED <<slots, encoder>>

RateInit == /\ slots = [s \in Slots |-> Unused]
            /\ encoder = 0
            /\ calm = FALSE

RateNext == \/ \E s \in Slots : \/ \E report \in Reports : Ping(s, report)
                                \/ \E answers \in BOOLEAN : Admit(s, answers)
                                \/ Joins(s) \/ Expire(s)
            \/ Drain \/ Settle

\* Whoever is in session keeps pinging, and the worker keeps sending.
Pings(s) == \E report \in Reports : slots[s].connected /\ Ping(s, report)
RateFairness == (\A s \in Slots : WF_rateVars(Pings(s))) /\ WF_rateVars(Drain)

RateSpec == RateInit /\ [][RateNext]_rateVars /\ RateFairness

-------------------------------------------------------------------------------

(***************************************************************************)
(* Nobody in session is sent more than what its link was found to carry,   *)
(* whatever the others report, whoever leaves and whoever returns.         *)
(* (drainOutgoingAudio())                                                  *)
(***************************************************************************)
SlowestIsHeard ==
  [][Drain => \A s \in Connected : encoder' >= slots[s].controller.step]_rateVars

(***************************************************************************)
(* Once the links have settled, a room that is not full lets somebody in.  *)
(* It does not: reductions() never goes back to zero.                      *)
(* (evaluateRoomCapacity())                                                *)
(***************************************************************************)
AdmitsAgain == calm ~> (CanAdmit \/ Connected = Slots)
===============================================================================
