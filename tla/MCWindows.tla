------------------------------ MODULE MCWindows ------------------------------
(***************************************************************************)
(* Windows for TLC: one with tabs of two sessions, and one split over a    *)
(* single session.  A behaviour is one of one of them.                     *)
(***************************************************************************)
EXTENDS MCWindow

VARIABLE holds

One == INSTANCE Window WITH
    InitTabs <- OneQuery, Gestures <- {"split", "new_query"}, MaxSent <- 4, MaxTabs <- 2

all == <<holds, vars>>

WindowsInit == (holds = "two" /\ Init) \/ (holds = "one" /\ One!Init)

WindowsNext ==
    /\ UNCHANGED holds
    /\ \/ holds = "two" /\ Next
       \/ holds = "one" /\ One!Next

WindowsSpec ==
    /\ WindowsInit /\ [][WindowsNext]_all
    /\ WF_all(UNCHANGED holds /\ holds = "one" /\ One!Answer(app))
    /\ WF_all(UNCHANGED holds /\ holds = "one" /\ One!Land(app))
-----------------------------------------------------------------------------
\* In the split window an outcome is on the history row of its statement, rows
\* are drawn in the pane and under the tab that asked for them, and a script
\* stops at the first failure.
SplitHolds ==
    [][holds = "one" => HistoryIsItsOwn' /\ RowsInTheirPane' /\ OneAtATime' /\ One!ReachesItsTab]_all

\* A script of the split window comes to its end.
SplitScriptEnds == holds = "one" => One!ScriptEnds
=============================================================================
