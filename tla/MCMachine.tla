------------------------------- MODULE MCMachine -------------------------------
(***************************************************************************)
(* Four smaller models on one run: the preferences of one machine          *)
(* (Preferences), how it is updated (Updater), how fast it sends           *)
(* (SendRate), and how two of them notice that nobody is there (PairLink). *)
(* They share nothing: which of them a behaviour is about is chosen at its *)
(* start, and the others rest in their initial states.                     *)
(***************************************************************************)
EXTENDS Preferences, Updater, SendRate

CONSTANT MaxOutages

VARIABLES about,
          connected, known, heard, turned, flying, carries, outages

Link == INSTANCE PairLink

ASSUME Link!OutageAssumption

LinkVars == <<connected, known, heard, turned, flying, carries, outages>>
AllVars == <<about, vars, updateVars, rateVars, LinkVars>>

OfPreferences == about = "Preferences"
                 /\ UNCHANGED <<about, updateVars, rateVars, LinkVars>>
OfUpdate == about = "Update"
            /\ UNCHANGED <<about, vars, rateVars, LinkVars>>
OfRate == about = "Rate"
          /\ UNCHANGED <<about, vars, updateVars, LinkVars>>
OfLink == about = "Link"
          /\ UNCHANGED <<about, vars, updateVars, rateVars>>

AllInit == /\ about \in {"Preferences", "Update", "Rate", "Link"}
           /\ Init /\ UpdateInit /\ RateInit /\ Link!Init

AllNext == \/ OfPreferences /\ Next
           \/ OfUpdate /\ UpdateNext
           \/ OfRate /\ RateNext
           \/ OfLink /\ Link!Next

\* The fairness of each, of the behaviours that are about it.
AllFairness ==
  /\ WF_AllVars(OfPreferences /\ SaveNow)
  /\ WF_AllVars(OfPreferences /\ Written)
  /\ WF_AllVars(OfPreferences /\ Replaced)
  /\ \A e \in Link!Ends :
       /\ WF_AllVars(OfLink /\ Link!Turn(e))
       /\ \A type \in Link!Types : WF_AllVars(OfLink /\ Link!Receive(e, type))
  /\ WF_AllVars(OfLink /\ Link!PeriodOver)

AllSpec == AllInit /\ [][AllNext]_AllVars /\ AllFairness

-------------------------------------------------------------------------------
(* The properties of PairLink.                                               *)

\* GuestGetsIn: once the path carries packets for good, a guest gets in.
GuestGetsIn == about = "Link" => Link!GuestGetsIn

\* SilenceIsNoticed: an end that is not reached any more comes to show it.
SilenceIsNoticed == about = "Link" => Link!SilenceIsNoticed
===============================================================================
