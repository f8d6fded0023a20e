------------------------------- MODULE MCSession -------------------------------
(***************************************************************************)
(* Two models on one run: the sealed datagrams of a session (PairSession)  *)
(* and the journal of the takes that are recorded in it (TakeJournal).     *)
(* They share nothing: which of them a behaviour is about is chosen at its *)
(* start, and the other one rests in its initial state.                    *)
(***************************************************************************)
EXTENDS PairSession, TakeJournal

VARIABLES about

BothVars == <<about, vars, journalVars>>

OfSession == about = "Session" /\ UNCHANGED <<about, journalVars>>
OfJournal == about = "Journal" /\ UNCHANGED <<about, vars>>

BothInit == about \in {"Session", "Journal"} /\ Init /\ JournalInit
BothNext == \/ OfSession /\ Next
            \/ OfJournal /\ JournalNext

BothSpec == BothInit /\ [][BothNext]_BothVars
===============================================================================
