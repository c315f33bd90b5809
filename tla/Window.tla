------------------------------- MODULE Window -------------------------------
(***************************************************************************)
(* How a window sends statements and where it puts the answers:            *)
(* src/crates/tupli/src/workspace.rs.                                      *)
(*                                                                         *)
(* A window is a tree of panes, each a strip of tabs over one grid.  Every *)
(* tab names its own session; the window's `session' is the one a          *)
(* statement is sent on.  A script waits in its pane's `queue' and goes    *)
(* one statement at a time: the next is sent when an answer lands.  The    *)
(* window keeps ONE `running_pane' and ONE `pending_history' for all the   *)
(* sessions it holds.                                                      *)
(*                                                                         *)
(* A statement is its place in `sent', the order run_at saw them.  The     *)
(* sessions here stay connected and refuse nothing (module Session has     *)
(* those paths), and only statements take their slot.                      *)
(***************************************************************************)
EXTENDS Naturals, Sequences, FiniteSets, SequencesExt

CONSTANTS
    Sessions,   \* the sessions the window holds
    InitTabs,   \* the first pane's tabs: what each is, and its session
    Gestures,   \* what the user does, besides running and crossing a split
    MaxScript,  \* bound: statements in one script
    MaxSent,    \* bound: statements sent
    MaxPanes,   \* bound: panes ever made
    MaxTabs     \* bound: tabs ever made

Kinds == {"Query", "Table"}

ASSUME WindowAssumption ==
    /\ InitTabs \in Seq([kind : Kinds, session : Sessions]) /\ InitTabs # <<>>
    /\ Gestures \subseteq {"show", "new_query", "open_table", "close_tabs", "split",
                    "close_pane", "cancel"}
    /\ MaxScript \in Nat \ {0} /\ MaxSent \in Nat /\ MaxPanes \in Nat \ {0}
    /\ MaxTabs \in Nat /\ MaxTabs >= Len(InitTabs)

VARIABLES
    panes,            \* the panes that are open: tabs, queue, answers, grid
    layout,           \* their ids, left to right and top to bottom
    active_pane,
    next_pane,
    next_tab,         \* the next tab's name here; the code knows tabs by place
    session,          \* the session the window is describing
    running_pane,     \* 0 when nothing is
    pending_history,  \* the history row an outcome will be put on; 0 for none
    slot,             \* per session: the statement in flight and the one held
    sent,             \* every statement sent, in order
    outcome,          \* history: per statement, what its row says became of it
    batch             \* presses of Run so far

places == <<panes, layout, active_pane, next_pane, next_tab, session>>
server == <<slot, sent>>
vars   == <<places, running_pane, pending_history, server, outcome, batch>>

Ids == 1..MaxSent
Answers == {"rows", "done", "error"}
NoOutcome == [stmt |-> 0, answer |-> "none"]
Idle == [stmt |-> 0, superseding |-> 0]

\* What a grid or a cache holds: the statement whose rows they are, 0 if none.
NewTab(id, kind, s) == [id |-> id, kind |-> kind, session |-> s, cached |-> 0]
NewPane(tabs) ==
    [tabs |-> tabs, active_tab |-> 1, queue |-> <<>>, results |-> <<>>, grid |-> 0]

HasTab(pane) == pane.active_tab \in DOMAIN pane.tabs
Active(pane) == pane.tabs[pane.active_tab]
Shown == panes[active_pane]

Init ==
    /\ panes = [p \in {1} |-> NewPane([i \in DOMAIN InitTabs |->
                    NewTab(i, InitTabs[i].kind, InitTabs[i].session)])]
    /\ layout = <<1>> /\ active_pane = 1 /\ next_pane = 2
    /\ next_tab = Len(InitTabs) + 1
    /\ session = InitTabs[1].session
    /\ running_pane = 0 /\ pending_history = 0
    /\ slot = [s \in Sessions |-> Idle]
    /\ sent = <<>> /\ outcome = <<>> /\ batch = 0

(***************************************************************************)
(* Sending.                                                                *)
(***************************************************************************)
Sent(what, s) ==
    [batch |-> what.batch, pos |-> what.pos, pane |-> what.pane, tab |-> what.tab, on |-> s,
     answer |-> "none"]

StartBatch(pane) == [pane EXCEPT !.queue = <<>>, !.results = <<>>]

\* Slip: what finds the slot taken is dropped.
Handed_dropping(slots, s, id) ==
    IF slots[s].stmt = 0 THEN [slots EXCEPT ![s].stmt = id] ELSE slots

\* Session::run: sent if the slot is free, otherwise held in place of
\* whatever was held before.
Handed(slots, s, id) ==
    IF slots[s].stmt = 0 THEN [slots EXCEPT ![s].stmt = id]
                         ELSE [slots EXCEPT ![s].superseding = id]

\* The rest of a script counts too, so a script that was begun can be ended.
Planned == Len(sent) + SumFunction([p \in DOMAIN panes |-> Len(panes[p].queue)])
Room(n) == Planned + n <= MaxSent

\* The statements of a script of n, from the tab in front of pane p.
Script(n, p, pane) ==
    [i \in 1..n |-> [batch |-> batch + 1, pos |-> i, pane |-> p, tab |-> Active(pane).id]]

\* run_at: the window's one memory of who asked, a new history row, and the
\* statement handed to session s.
RunAt(target, what, s, slots, outcomes) ==
    /\ running_pane' = target
    /\ sent' = Append(sent, Sent(what, s))
    /\ pending_history' = Len(sent) + 1
    /\ outcome' = Append(outcomes, NoOutcome)
    /\ slot' = Handed(slots, s, Len(sent) + 1)

\* A press of Run on a pane that then looks like `pane': what the last press
\* left is forgotten, and the first of n statements goes to session s.
Press(n, pane, s) ==
    LET script == Script(n, active_pane, pane)
    IN /\ Room(n)
       /\ batch' = batch + 1
       /\ panes' = [panes EXCEPT ![active_pane] =
                       [StartBatch(pane) EXCEPT !.queue = IF n = 1 THEN @ ELSE Tail(script)]]
       /\ RunAt(active_pane, script[1], s, slot, outcome)

\* The Run button and its keys: a whole script in a query tab, the rows again
\* in a table tab.
Run(n) ==
    /\ HasTab(Shown)
    /\ Active(Shown).kind = "Table" => n = 1
    /\ Press(n, Shown, session)
    /\ UNCHANGED <<layout, active_pane, next_pane, next_tab, session>>

Cancel ==
    /\ "cancel" \in Gestures
    /\ slot' = [slot EXCEPT ![session].superseding = 0]
    /\ UNCHANGED <<places, running_pane, pending_history, sent, outcome, batch>>

(***************************************************************************)
(* Moving about.                                                           *)
(***************************************************************************)
ClearResults(pane) == [StartBatch(pane) EXCEPT !.grid = 0]

\* What a tab takes with it when it stops showing.  A script's several
\* answers are not one tab's rows.
CacheShown(pane) == IF Len(pane.results) > 1 THEN 0 ELSE pane.grid

\* The tab in front takes the rows with it, and tab i comes to the front.
Stashed(pane) ==
    [k \in DOMAIN pane.tabs |->
        IF k = pane.active_tab THEN [pane.tabs[k] EXCEPT !.cached = CacheShown(pane)]
                               ELSE pane.tabs[k]]
Fronted(pane, i) == [pane EXCEPT !.tabs = Stashed(pane), !.active_tab = i]

\* show_tab, on the active pane as it is in `pane': tab i and its session come
\* to the front, and a table tab puts its rows back or, if it has none, asks
\* for them.
ShowTab(pane, i) ==
    LET left == Fronted(pane, i)
        tab == left.tabs[i]
        Becomes(p) == /\ panes' = [panes EXCEPT ![active_pane] = p]
                      /\ UNCHANGED <<running_pane, pending_history, server, outcome, batch>>
    IN /\ session' = tab.session
       /\ \/ tab.kind = "Query" /\ Becomes(ClearResults(left))
          \/ tab.kind = "Table" /\ tab.cached # 0 /\ Becomes([left EXCEPT !.grid = tab.cached])
          \/ tab.kind = "Table" /\ tab.cached = 0 /\ Press(1, left, tab.session)

ClickTab(i) ==
    /\ "show" \in Gestures
    /\ i \in DOMAIN Shown.tabs
    /\ ShowTab(Shown, i)
    /\ UNCHANGED <<layout, active_pane, next_pane, next_tab>>

\* A new query tab, or a table opened from the tree, on the window's session.
OpenTab(kind) ==
    /\ (IF kind = "Query" THEN "new_query" ELSE "open_table") \in Gestures
    /\ next_tab <= MaxTabs
    /\ next_tab' = next_tab + 1
    /\ LET tabs == Append(Shown.tabs, NewTab(next_tab, kind, session))
       IN ShowTab([Shown EXCEPT !.tabs = tabs], Len(tabs))
    /\ UNCHANGED <<layout, active_pane, next_pane>>

\* The tab left showing: the active one, else its nearest neighbour to the
\* right, else to the left.
Survivor(active, staying) ==
    IF \E i \in staying : i >= active
      THEN CHOOSE i \in staying : i >= active /\ \A j \in staying : j >= active => i <= j
      ELSE CHOOSE i \in staying : \A j \in staying : j <= i

\* The k-th of what stays, and which one i is.
Rank(i, staying) == Cardinality({j \in staying : j <= i})
Nth(k, staying) == CHOOSE i \in staying : Rank(i, staying) = k

\* close_tabs, where some tab stays.  A tab that comes to the front is shown
\* from a strip whose active_tab already names it.
Kept(pane, staying, survivor) ==
    [pane EXCEPT !.tabs = [k \in 1..Cardinality(staying) |-> pane.tabs[Nth(k, staying)]],
                 !.active_tab = Rank(survivor, staying)]

CloseTabs(doomed) ==
    LET staying == DOMAIN Shown.tabs \ doomed
        survivor == Survivor(Shown.active_tab, staying)
        kept == Kept(Shown, staying, survivor)
    IN /\ "close_tabs" \in Gestures
       /\ doomed # {} /\ staying # {}
       /\ IF survivor = Shown.active_tab
            THEN /\ panes' = [panes EXCEPT ![active_pane] = kept]
                 /\ UNCHANGED <<session, running_pane, pending_history, server, outcome, batch>>
            ELSE ShowTab(kept, Rank(survivor, staying))
       /\ UNCHANGED <<layout, active_pane, next_pane, next_tab>>

\* Closing every tab of the only pane leaves it empty.
CloseLastTabs ==
    /\ "close_tabs" \in Gestures
    /\ HasTab(Shown) /\ Len(layout) = 1
    /\ panes' = [panes EXCEPT ![active_pane] =
                    [ClearResults(@) EXCEPT !.tabs = <<>>, !.active_tab = 1]]
    /\ UNCHANGED <<layout, active_pane, next_pane, next_tab, session, running_pane,
                   pending_history, server, outcome, batch>>

PlaceOf(p) == CHOOSE i \in DOMAIN layout : layout[i] = p

SplitPane ==
    /\ "split" \in Gestures /\ next_pane <= MaxPanes /\ next_tab <= MaxTabs
    /\ layout' = InsertAt(layout, PlaceOf(active_pane) + 1, next_pane)
    /\ panes' = [p \in DOMAIN panes \cup {next_pane} |->
                    IF p = next_pane THEN NewPane(<<NewTab(next_tab, "Query", session)>>)
                                     ELSE panes[p]]
    /\ active_pane' = next_pane
    /\ next_pane' = next_pane + 1 /\ next_tab' = next_tab + 1
    /\ UNCHANGED <<session, running_pane, pending_history, server, outcome, batch>>

ActivatePane(p) ==
    /\ p \in DOMAIN panes \ {active_pane}
    /\ active_pane' = p
    /\ session' = IF HasTab(panes[p]) THEN Active(panes[p]).session ELSE session
    /\ UNCHANGED <<panes, layout, next_pane, next_tab, running_pane, pending_history, server,
                   outcome, batch>>

\* close_pane, and closing every tab of a split.  The neighbour to the right
\* is made active, or the one to the left; the window's session stays.
ClosePane(p) ==
    /\ "close_pane" \in Gestures
    /\ p \in DOMAIN panes /\ Len(layout) > 1
    /\ LET i == PlaceOf(p)
           next == IF i < Len(layout) THEN layout[i + 1] ELSE layout[i - 1]
       IN /\ layout' = RemoveAt(layout, i)
          /\ active_pane' = IF active_pane = p THEN next ELSE active_pane
    /\ panes' = [q \in DOMAIN panes \ {p} |-> panes[q]]
    /\ running_pane' = IF running_pane = p THEN 0 ELSE running_pane
    /\ UNCHANGED <<next_pane, next_tab, session, pending_history, server, outcome, batch>>

(***************************************************************************)
(* Answers.                                                                *)
(***************************************************************************)
Answer(s) ==
    /\ slot[s].stmt # 0 /\ sent[slot[s].stmt].answer = "none"
    /\ \E a \in Answers : sent' = [sent EXCEPT ![slot[s].stmt].answer = a]
    /\ UNCHANGED <<places, running_pane, pending_history, slot, outcome, batch>>

Lands(s) == slot[s].stmt # 0 /\ sent[slot[s].stmt].answer # "none"

\* Session::run's completion: what was held goes next, and nothing is said of
\* the statement it superseded.
LandSuperseded(s) ==
    /\ Lands(s) /\ slot[s].superseding # 0
    /\ slot' = [slot EXCEPT ![s] = [stmt |-> @.superseding, superseding |-> 0]]
    /\ UNCHANGED <<places, running_pane, pending_history, sent, outcome, batch>>

Freed(s) == [slot EXCEPT ![s] = Idle]

Target == IF running_pane = 0 THEN active_pane ELSE running_pane
\* Slip: any tab will do.
NowhereToLand_untold(p, s) == ~HasTab(panes[p])

NowhereToLand(p, s) == HasTab(panes[p]) => Active(panes[p]).session # s

\* record_run: the outcome goes on whatever history row is pending.
Recorded(i) ==
    IF pending_history = 0 THEN outcome
    ELSE [outcome EXCEPT ![pending_history] = [stmt |-> i, answer |-> sent[i].answer]]

LandNowhere(s) ==
    /\ Lands(s) /\ slot[s].superseding = 0 /\ NowhereToLand(Target, s)
    /\ slot' = Freed(s)
    /\ outcome' = Recorded(slot[s].stmt)
    /\ running_pane' = 0 /\ pending_history' = 0
    /\ UNCHANGED <<places, sent, batch>>

\* absorb_run's pane: rows are kept beside the script's earlier ones and
\* shown, and a failure ends the script.
Absorbed(pane, i) ==
    CASE sent[i].answer = "rows" -> [pane EXCEPT !.results = Append(@, i), !.grid = i]
      [] sent[i].answer = "error" -> [pane EXCEPT !.queue = <<>>]
      [] sent[i].answer = "done" -> pane

\* Slip: only rows carry a script on.
LandHere_rows(s) ==
    LET i == slot[s].stmt
        pane == Absorbed(panes[Target], i)
        goes == pane.queue # <<>> /\ sent[i].answer = "rows"
    IN /\ Lands(s) /\ slot[s].superseding = 0 /\ ~NowhereToLand(Target, s)
       /\ \/ /\ ~goes
             /\ panes' = [panes EXCEPT ![Target] = pane]
             /\ running_pane' = 0 /\ pending_history' = 0
             /\ slot' = Freed(s) /\ outcome' = Recorded(i)
             /\ UNCHANGED sent
          \/ /\ goes
             /\ panes' = [panes EXCEPT ![Target] = [pane EXCEPT !.queue = Tail(@)]]
             /\ RunAt(Target, Head(pane.queue), session, Freed(s), Recorded(i))
       /\ UNCHANGED <<layout, active_pane, next_pane, next_tab, session, batch>>

\* The script goes on, on the window's session.
LandHere(s) ==
    LET i == slot[s].stmt
        pane == Absorbed(panes[Target], i)
    IN /\ Lands(s) /\ slot[s].superseding = 0 /\ ~NowhereToLand(Target, s)
       /\ \/ /\ pane.queue = <<>>
             /\ panes' = [panes EXCEPT ![Target] = pane]
             /\ running_pane' = 0 /\ pending_history' = 0
             /\ slot' = Freed(s) /\ outcome' = Recorded(i)
             /\ UNCHANGED sent
          \/ /\ pane.queue # <<>>
             /\ panes' = [panes EXCEPT ![Target] = [pane EXCEPT !.queue = Tail(@)]]
             /\ RunAt(Target, Head(pane.queue), session, Freed(s), Recorded(i))
       /\ UNCHANGED <<layout, active_pane, next_pane, next_tab, session, batch>>

Land(s) == LandSuperseded(s) \/ LandNowhere(s) \/ LandHere(s)

Next ==
    \/ \E n \in 1..MaxScript : Run(n)
    \/ \E i \in 1..MaxTabs : ClickTab(i)
    \/ \E kind \in Kinds : OpenTab(kind)
    \/ \E doomed \in SUBSET (1..MaxTabs) : doomed \subseteq DOMAIN Shown.tabs /\ CloseTabs(doomed)
    \/ Cancel \/ CloseLastTabs \/ SplitPane
    \/ \E p \in 1..MaxPanes : ActivatePane(p) \/ ClosePane(p)
    \/ \E s \in Sessions : Answer(s) \/ Land(s)

Spec == Init /\ [][Next]_vars

\* Every session's server answers, and the UI thread runs what landed.
Fairness == \A s \in Sessions : WF_vars(Answer(s)) /\ WF_vars(Land(s))
FairSpec == Spec /\ Fairness

(***************************************************************************)
(* Properties.                                                             *)
(***************************************************************************)
Tab == [id : Nat, kind : Kinds, session : Sessions, cached : 0..Len(sent)]
Planning == [batch : Nat, pos : Nat, pane : Nat, tab : Nat]

TypeOK ==
    /\ DOMAIN panes = ToSet(layout) /\ IsInjective(layout)
    /\ \A p \in DOMAIN panes :
          panes[p] \in [tabs : Seq(Tab), active_tab : Nat, queue : Seq(Planning),
                        results : Seq(1..Len(sent)), grid : 0..Len(sent)]
    /\ active_pane \in DOMAIN panes /\ running_pane \in {0} \cup DOMAIN panes
    /\ pending_history \in 0..Len(sent) /\ session \in Sessions
    /\ slot \in [Sessions -> [stmt : 0..Len(sent), superseding : 0..Len(sent)]]
    /\ sent \in Seq([batch : Nat, pos : Nat, pane : Nat, tab : Nat, on : Sessions,
                     answer : Answers \cup {"none"}])
    /\ outcome \in Seq([stmt : 0..Len(sent), answer : Answers \cup {"none"}])
    /\ Len(outcome) = Len(sent)

\* Rows are never drawn under a query tab of another session than the one they
\* came from, nor under no tab (workspace.rs, nowhere_to_land), however panes
\* and tabs moved while they were on their way.  A table tab draws what was
\* there until its own rows arrive.
RowsFromTheirSession ==
    \A p \in DOMAIN panes : panes[p].grid # 0 =>
        /\ HasTab(panes[p])
        /\ Active(panes[p]).kind = "Query" => sent[panes[p].grid].on = Active(panes[p]).session

\* The window is well formed and no rows are under a foreign query tab.
RowsInOrder == TypeOK /\ RowsFromTheirSession

\* Rows are drawn in the pane that asked for them (workspace.rs, absorb_run).
RowsInTheirPane ==
    \A p \in DOMAIN panes : panes[p].grid # 0 => sent[panes[p].grid].pane = p

\* An answer that nothing superseded is drawn where it was asked for, if the
\* tab that asked is still in front of its pane (workspace.rs, absorb_run:
\* "into the pane that asked").
InFront(i) ==
    /\ sent[i].pane \in DOMAIN panes /\ HasTab(panes[sent[i].pane])
    /\ Active(panes[sent[i].pane]).id = sent[i].tab
ReachesItsTab ==
    \A s \in Sessions : \A i \in {slot[s].stmt} \ {0} :
        /\ slot'[s].stmt # i /\ slot[s].superseding = 0
        /\ sent[i].answer = "rows" /\ InFront(i)
        => panes'[sent[i].pane].grid = i
AnswersReachTheirTab == [][ReachesItsTab]_vars

\* An outcome is on the history row of the statement it is of (workspace.rs,
\* record_run: "to the history row that was written when it was sent").
HistoryIsItsOwn ==
    \A i \in DOMAIN outcome : outcome[i] # NoOutcome => outcome[i].stmt = i

\* What a pane sends only moves forward: the next statement of the script, or
\* the first of a newer one (workspace.rs, run: "two scripts interleaving down
\* one connection would be nobody's idea of what those keys do").
ScriptsDoNotInterleave ==
    \A i, j \in DOMAIN sent : i < j /\ sent[i].pane = sent[j].pane =>
        \/ sent[i].batch < sent[j].batch
        \/ sent[i].batch = sent[j].batch /\ sent[i].pos < sent[j].pos

\* The window is well formed, no rows are under a foreign query tab, and no
\* script runs between the statements of another.
WindowHolds == RowsInOrder /\ ScriptsDoNotInterleave

\* A statement of a script is sent only once the one before it has gone
\* through ("in order, stopping at the first failure", run_console_all).
OneAtATime ==
    \A i, j \in DOMAIN sent : i < j /\ sent[i].batch = sent[j].batch =>
        sent[i].answer \in {"rows", "done"}

\* A script that is waiting comes to its end, unless the statement it waits
\* for was overtaken on its session by another pane's: that one's answer, if
\* any, is told to nobody (session.rs, `run').
Waiting(p) == p \in DOMAIN panes /\ panes[p].queue # <<>>
Overtaken(p) ==
    LET last == CHOOSE i \in DOMAIN sent :
                    sent[i].pane = p /\ \A j \in DOMAIN sent : sent[j].pane = p => j <= i
    IN /\ \E i \in DOMAIN sent : sent[i].pane = p
       /\ \A s \in Sessions : last \notin {slot[s].stmt, slot[s].superseding}
       /\ \A i \in DOMAIN outcome : outcome[i].stmt # last
ScriptEnds ==
    \A p \in 1..MaxPanes : Waiting(p) ~> ~Waiting(p) \/ Overtaken(p)

\* A script is sent down one connection.
ScriptKeepsItsSession ==
    \A i, j \in DOMAIN sent : sent[i].batch = sent[j].batch => sent[i].on = sent[j].on
=============================================================================
