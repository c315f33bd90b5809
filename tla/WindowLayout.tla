----------------------------- MODULE WindowLayout -----------------------------
(***************************************************************************)
(* What the window is made of: the tree of panes and its seams, the tabs   *)
(* of every pane and the console each shares, and what is written down so  *)
(* that the next launch can put it back.                                   *)
(*                                                                         *)
(* A tree is a group; a member of a group is a pane, [pane |-> id], or     *)
(* another group.  A fraction is a pair <<n, d>> in lowest terms.  A tab   *)
(* has a name the code has not: it stands for who the tab is, and a text   *)
(* typed into it is that name, 0 when there is none.                       *)
(***************************************************************************)
EXTENDS Integers, Sequences, FiniteSets, SequencesExt, FiniteSetsExt

CONSTANTS MaxPanes, MaxTabs, MaxSteps   \* bounds: panes, tabs ever opened, gestures

VARIABLES
    layout, panes, activePane, nextPane,
    file,       \* the saved session
    named,      \* tabs opened so far
    lost,       \* history: a launch found a saved pane with no tab to put back
    steps

vars == <<layout, panes, activePane, nextPane, file, named, lost, steps>>
-----------------------------------------------------------------------------
(* Fractions.                                                               *)

Lowest(n, d) ==
    IF n = 0 THEN <<0, 1>>
    ELSE LET g == Max({k \in 1..(IF n < d THEN n ELSE d) : n % k = 0 /\ d % k = 0})
         IN <<n \div g, d \div g>>
Plus(a, b) == Lowest(a[1] * b[2] + b[1] * a[2], a[2] * b[2])
Minus(a, b) == Lowest(a[1] * b[2] - b[1] * a[2], a[2] * b[2])
Times(a, b) == Lowest(a[1] * b[1], a[2] * b[2])
Over(a, b) == Lowest(a[1] * b[2], a[2] * b[1])
Less(a, b) == a[1] * b[2] < b[1] * a[2]
Total(flexes) == FoldLeft(Plus, <<0, 1>>, flexes)

One == <<1, 1>>
Half == <<1, 2>>
MinFlex == <<1, 10>>
-----------------------------------------------------------------------------
(* The tree.                                                                *)

IsPane(m) == "pane" \in DOMAIN m
Leaf(id) == [pane |-> id]
NewTree(id) == [layout |-> "columns", members |-> <<Leaf(id)>>, flexes |-> <<One>>]

RECURSIVE PanesOf(_)
PanesOf(m) ==
    IF IsPane(m) THEN <<m.pane>>
    ELSE FlattenSeq([i \in DOMAIN m.members |-> PanesOf(m.members[i])])

Holds(m, id) == id \in ToSet(PanesOf(m))
IndexOf(g, id) == CHOOSE i \in DOMAIN g.members : Holds(g.members[i], id)

\* Put a pane beside another: into the group when it runs that way already,
\* else into a group of two in its place.
RECURSIVE SplitTree(_, _, _, _)
SplitTree(g, target, new, way) ==
    LET i == IndexOf(g, target)
        half == Times(g.flexes[i], Half)
    IN IF ~IsPane(g.members[i])
       THEN [g EXCEPT !.members[i] = SplitTree(@, target, new, way)]
       ELSE IF g.layout = way \/ Len(g.members) = 1
       THEN [layout |-> way,
             members |-> InsertAt(g.members, i + 1, Leaf(new)),
             flexes |-> InsertAt([g.flexes EXCEPT ![i] = half], i + 1, half)]
       ELSE [g EXCEPT !.members[i] =
                [layout |-> way, members |-> <<Leaf(target), Leaf(new)>>, flexes |-> <<Half, Half>>]]

\* Hand freed room to what is left, in proportion.
Spread(flexes, freed) ==
    [i \in DOMAIN flexes |-> Plus(flexes[i], Times(freed, Over(flexes[i], Total(flexes))))]

\* Slip: a group left with one member stays.
RECURSIVE RemoveTree_kept(_, _)
RemoveTree_kept(g, target) ==
    LET i == IndexOf(g, target)
    IN IF IsPane(g.members[i])
       THEN [g EXCEPT !.members = RemoveAt(@, i),
                      !.flexes = Spread(RemoveAt(@, i), g.flexes[i])]
       ELSE [g EXCEPT !.members[i] = RemoveTree_kept(@, target)]

\* Take a pane out; a group inside another left with one member dissolves.
RECURSIVE RemoveTree(_, _)
RemoveTree(g, target) ==
    LET i == IndexOf(g, target)
    IN IF IsPane(g.members[i])
       THEN [g EXCEPT !.members = RemoveAt(@, i),
                      !.flexes = Spread(RemoveAt(@, i), g.flexes[i])]
       ELSE LET left == RemoveTree(g.members[i], target)
            IN [g EXCEPT !.members[i] = IF Len(left.members) = 1 THEN left.members[1] ELSE left]

\* The groups of a tree, each with the path to it.
RECURSIVE Groups(_, _)
Groups(m, path) ==
    IF IsPane(m) THEN {}
    ELSE {[path |-> path, group |-> m]}
         \cup UNION {Groups(m.members[i], Append(path, i)) : i \in DOMAIN m.members}

RECURSIVE WithFlexes(_, _, _)
WithFlexes(g, path, flexes) ==
    IF path = <<>> THEN [g EXCEPT !.flexes = flexes]
    ELSE [g EXCEPT !.members[path[1]] = WithFlexes(@, Tail(path), flexes)]

\* The room on both sides of a seam, and the room split at a place that leaves
\* each at least the least there may be.
Room(flexes, i) == Plus(flexes[i], flexes[i + 1])
Tight(flexes, i) == Less(Room(flexes, i), Plus(MinFlex, MinFlex))
Clamped(flexes, i, at) ==
    LET most == Minus(Room(flexes, i), MinFlex)
        next == IF Less(at, MinFlex) THEN MinFlex ELSE IF Less(most, at) THEN most ELSE at
    IN [flexes EXCEPT ![i] = next, ![i + 1] = Minus(Room(flexes, i), next)]
-----------------------------------------------------------------------------
(* The tabs of a pane; `active` counts from zero.                           *)

Tab(kind, name) == [kind |-> kind, name |-> name, sql |-> 0, pinned |-> FALSE, typed |-> FALSE]
Pane(id, tabs, active) ==
    [id |-> id, tabs |-> tabs, active |-> active,
     console |-> IF active < Len(tabs) THEN tabs[active + 1].sql ELSE 0]

PaneAt(id) == CHOOSE i \in DOMAIN panes : panes[i].id = id
Here == PaneAt(activePane)
This == panes[Here]

\* The console's text goes back to the tab that is showing.
Stashed(p) ==
    IF p.active < Len(p.tabs) THEN [p EXCEPT !.tabs[p.active + 1].sql = p.console] ELSE p

Showing(p, index) == [p EXCEPT !.active = index, !.console = p.tabs[index + 1].sql]
Show(p, index) == Showing(Stashed(p), index)

\* The tab to show once some are gone: the one showing, else the nearest to
\* its right, else to its left; -1 when none is left.
AfterClosing(active, doomed, len) ==
    LET left == (0..(len - 1)) \ doomed
        right == {i \in left : i >= active}
    IN IF left = {} THEN -1 ELSE IF right # {} THEN Min(right) ELSE Max(left)

Closed(p, doomed) ==
    LET q == Stashed(p)
        survivor == AfterClosing(p.active, doomed, Len(p.tabs))
        kept == SetToSortSeq((0..(Len(p.tabs) - 1)) \ doomed, LAMBDA a, b : a < b)
        active == IF survivor = -1 THEN 0
                  ELSE survivor - Cardinality({i \in doomed : i < survivor})
        r == [q EXCEPT !.tabs = [i \in DOMAIN kept |-> q.tabs[kept[i] + 1]], !.active = active]
    IN IF survivor = p.active THEN r
       ELSE IF survivor # -1 THEN Showing(r, active)
       ELSE [r EXCEPT !.console = 0]

IndexAfterMove(active, from, to) ==
    IF active = from THEN to
    ELSE IF from < to /\ active \in (from + 1)..to THEN active - 1
    ELSE IF from >= to /\ active \in to..(from - 1) THEN active + 1
    ELSE active

MoveTab(p, from, to) ==
    IF from = to \/ to >= Len(p.tabs) THEN p
    ELSE LET q == Stashed(p)
         IN [q EXCEPT !.tabs = InsertAt(RemoveAt(@, from + 1), to + 1, q.tabs[from + 1]),
                      !.active = IndexAfterMove(p.active, from, to)]

TogglePinned(p, index) ==
    LET q == [p EXCEPT !.tabs[index + 1].pinned = ~@]
        pinned == Cardinality({i \in 0..(Len(p.tabs) - 1) : q.tabs[i + 1].pinned /\ i # index})
    IN MoveTab(q, index, pinned)
-----------------------------------------------------------------------------
(* What is written down, and what a launch makes of it.                     *)

NoSplit == [layout |-> "none", members |-> <<>>, flexes |-> <<>>]

RECURSIVE Renamed(_, _)
Renamed(m, name) ==
    IF IsPane(m) THEN Leaf(name[m.pane])
    ELSE [m EXCEPT !.members = [i \in DOMAIN @ |-> Renamed(@[i], name)]]

RECURSIVE Normalised(_)
Normalised(m) ==
    IF IsPane(m) THEN m
    ELSE [m EXCEPT !.flexes = [i \in DOMAIN @ |-> Over(@[i], Total(@))],
                   !.members = [i \in DOMAIN @ |-> Normalised(@[i])]]

\* A key's tab is not put back, and `active` is not counted again.
TabsToSave(p) == SelectSeq(p.tabs, LAMBDA t : t.kind # "key")
PaneState(p) == [tabs |-> TabsToSave(p), active |-> p.active]

IndexIn(ps, id) == (CHOOSE i \in DOMAIN ps : ps[i].id = id) - 1

Saved(tree, ps, active) ==
    [panes |-> [i \in DOMAIN ps |-> PaneState(ps[i])],
     split |-> IF Len(ps) > 1 THEN Renamed(tree, [id \in {ps[i].id : i \in DOMAIN ps} |-> IndexIn(ps, id)]) ELSE NoSplit,
     activePane |-> IndexIn(ps, active)]

\* The panes that have a tab to put back; the tree, if it names each of those
\* exactly once, and otherwise a tree of the first alone.
Restorable(state) == SelectSeq(state.panes, LAMBDA p : p.tabs # <<>>)
Restored(state) ==
    LET kept == Restorable(state)
    IN IF kept = <<>> THEN <<Pane(0, <<>>, 0)>>
       ELSE [i \in DOMAIN kept |->
                Pane(i - 1, kept[i].tabs, Min({kept[i].active, Len(kept[i].tabs) - 1}))]
TreeOf(state, count) ==
    LET ids == PanesOf(state.split)
    IN IF state.split # NoSplit /\ Len(ids) = count /\ ToSet(ids) = 0..(count - 1)
       THEN Normalised(state.split) ELSE NewTree(0)

Launch(state) ==
    LET back == Restored(state)
    IN /\ panes' = back
       /\ layout' = TreeOf(state, Len(back))
       /\ activePane' = Min({state.activePane, Len(back) - 1})
       /\ nextPane' = Len(back)
       /\ lost' = (lost \/ \E i \in DOMAIN state.panes :
                                state.panes[i].tabs = <<>> /\ Len(state.panes) > 1)

\* The texts of every console are put back before anything is written.
AllStashed(ps) == [i \in DOMAIN ps |-> Stashed(ps[i])]
Save == file' = Saved(layout', AllStashed(panes'), activePane')
-----------------------------------------------------------------------------
(* Gestures.                                                                *)

Opens == named < MaxTabs /\ named' = named + 1
Becomes(p) == panes' = [panes EXCEPT ![Here] = p]
Still == UNCHANGED lost
SameTree == UNCHANGED <<layout, activePane, nextPane>>

SplitPane(way) ==
    /\ Len(panes) < MaxPanes /\ Opens
    /\ Holds(layout, activePane)
    /\ layout' = SplitTree(layout, activePane, nextPane, way)
    /\ panes' = Append([panes EXCEPT ![Here] = Stashed(@)],
                       Pane(nextPane, <<Tab("query", named')>>, 0))
    /\ activePane' = nextPane /\ nextPane' = nextPane + 1
    /\ Save /\ Still

\* The keyboard goes to the neighbour on the right, or on the left of the last.
Closes(id) ==
    LET order == PanesOf(layout)
        at == CHOOSE i \in DOMAIN order : order[i] = id
        next == IF at < Len(order) THEN order[at + 1] ELSE order[at - 1]
    IN /\ Len(panes) > 1 /\ Holds(layout, id) /\ Len(order) > 1
       /\ layout' = RemoveTree(layout, id)
       /\ panes' = SelectSeq(panes, LAMBDA p : p.id # id)
       /\ activePane' = IF activePane = id THEN next ELSE activePane
       /\ UNCHANGED <<nextPane, named>>
       /\ Save /\ Still

ClosePane == \E id \in ToSet(PanesOf(layout)) : Closes(id)

\* Only a pane of the tree is drawn, and can be clicked.
ActivatePane ==
    /\ \E id \in ToSet(PanesOf(layout)) \ {activePane} : activePane' = id
    /\ Becomes(Stashed(This))
    /\ UNCHANGED <<layout, nextPane, file, named>> /\ Still

Pushed(p, tab) == Show([p EXCEPT !.tabs = Append(@, tab)], Len(p.tabs))

NewQueryTab ==
    /\ Opens /\ Becomes(Pushed(This, Tab("query", named')))
    /\ SameTree /\ Save /\ Still

\* A key that has a tab in this pane is shown there.
OpenKey ==
    LET open == {i \in DOMAIN This.tabs : This.tabs[i].kind = "key"}
    IN /\ IF open # {} THEN Becomes(Show(This, Min(open) - 1)) /\ UNCHANGED named
          ELSE Opens /\ Becomes(Pushed(This, Tab("key", named')))
       /\ SameTree /\ Save /\ Still

ActivateTab(index) ==
    /\ index < Len(This.tabs) /\ index # This.active
    /\ Becomes(Show(This, index))
    /\ SameTree /\ UNCHANGED named /\ Save /\ Still

\* The next tab along, or the one before, in a circle; nothing is written.
CycleTab(step) ==
    /\ Len(This.tabs) > 1
    /\ Becomes(Show(This, (This.active + Len(This.tabs) + step) % Len(This.tabs)))
    /\ SameTree /\ UNCHANGED <<file, named>> /\ Still

\* One tab, or several that are not pinned; the last of a split takes the pane.
CloseTabs(doomed) ==
    /\ doomed # {} /\ doomed \subseteq 0..(Len(This.tabs) - 1)
    /\ Cardinality(doomed) = 1 \/ \A i \in doomed : ~This.tabs[i + 1].pinned
    /\ IF Cardinality(doomed) = Len(This.tabs) /\ Len(panes) > 1
       THEN Closes(activePane)
       ELSE Becomes(Closed(This, doomed)) /\ SameTree /\ UNCHANGED named /\ Save /\ Still

TogglePin(index) ==
    /\ index < Len(This.tabs)
    /\ Becomes(TogglePinned(This, index))
    /\ SameTree /\ UNCHANGED named /\ Save /\ Still

Types ==
    /\ This.active < Len(This.tabs)
    /\ Becomes([This EXCEPT !.console = This.tabs[This.active + 1].name,
                            !.tabs[This.active + 1].typed = TRUE])
    /\ SameTree /\ UNCHANGED <<file, named>> /\ Still

\* A seam is dragged to a fraction of its group.  Between two panes with less
\* room than twice the least there is no place for it, and the clamp panics:
\* the next launch reads what was written last.
DragSeam ==
    \E g \in Groups(layout, <<>>) : \E i \in 1..(Len(g.group.flexes) - 1) :
        IF Tight(g.group.flexes, i)
        THEN Launch(file) /\ UNCHANGED <<file, named>>
        ELSE /\ \E at \in {<<0, 1>>, Half} :
                  layout' = WithFlexes(layout, g.path, Clamped(g.group.flexes, i, at))
             /\ UNCHANGED <<panes, activePane, nextPane, file, named>> /\ Still

\* Quitting writes everything down and the next launch reads it; a crash leaves
\* what was written last.
Quit ==
    LET now == Saved(layout, AllStashed(panes), activePane)
    IN file' = now /\ Launch(now) /\ UNCHANGED named
Crash == Launch(file) /\ UNCHANGED <<file, named>>
-----------------------------------------------------------------------------
Init ==
    /\ panes = <<Pane(0, <<Tab("query", 1)>>, 0)>>
    /\ layout = NewTree(0) /\ activePane = 0 /\ nextPane = 1
    /\ file = Saved(layout, panes, activePane)
    /\ named = 1 /\ lost = FALSE /\ steps = 0

Next ==
    /\ steps < MaxSteps /\ steps' = steps + 1
    /\ \/ \E way \in {"rows", "columns"} : SplitPane(way)
       \/ ClosePane \/ ActivatePane
       \/ NewQueryTab \/ OpenKey
       \/ \E index \in 0..(MaxTabs - 1) : ActivateTab(index) \/ TogglePin(index)
       \/ \E step \in {-1, 1} : CycleTab(step)
       \/ \E doomed \in SUBSET (0..(MaxTabs - 1)) : CloseTabs(doomed)
       \/ Types \/ DragSeam \/ Quit \/ Crash

Spec == Init /\ [][Next]_vars
-----------------------------------------------------------------------------
\* The tree names the panes there are, each exactly once, and the keyboard is
\* in one of them: no pane is in the window without being on screen.  Excepted
\* is a window put back from a session in which a pane had no tab to save.
EveryPaneIsShown ==
    /\ Len(PanesOf(layout)) = Len(panes)
    /\ ToSet(PanesOf(layout)) = {panes[i].id : i \in DOMAIN panes}
    /\ Holds(layout, activePane)

ShownUnlessLost == lost \/ EveryPaneIsShown

\* However panes were split, closed, dragged and put back, every group's
\* fractions are positive and make one, one for each member, and no group
\* inside another holds a single member.
TreeIsWhole ==
    \A g \in Groups(layout, <<>>) :
        /\ Len(g.group.flexes) = Len(g.group.members) /\ Total(g.group.flexes) = One
        /\ \A i \in DOMAIN g.group.flexes : Less(<<0, 1>>, g.group.flexes[i])
        /\ g.path # <<>> => Len(g.group.members) > 1

\* What was typed into a tab is that tab's for good, in the console while it is
\* in front and with the tab when it is not, whatever was moved, closed,
\* pinned, split or shown meanwhile.
Text(p, i) == IF i = p.active + 1 THEN p.console ELSE p.tabs[i].sql
TextStaysWithItsTab ==
    \A k \in DOMAIN panes : LET p == panes[k] IN
        \A i \in DOMAIN p.tabs :
            Text(p, i) = IF p.tabs[i].typed THEN p.tabs[i].name ELSE 0

\* Pinned tabs stand in front of the others, after any close, move or launch.
PinnedInFront ==
    \A k \in DOMAIN panes : LET tabs == panes[k].tabs IN
        \A i, j \in DOMAIN tabs : i < j /\ tabs[j].pinned => tabs[i].pinned

\* A quit and the next launch show the same tab of the same pane, when no pane
\* holds a key.
InFront(ps, active) ==
    LET p == ps[CHOOSE i \in DOMAIN ps : ps[i].id = active]
    IN IF p.tabs = <<>> THEN 0 ELSE p.tabs[p.active + 1].name
NoKeys == \A k \in DOMAIN panes : \A i \in DOMAIN panes[k].tabs : panes[k].tabs[i].kind # "key"
ComesBackAsItWas ==
    Quit => \/ ~NoKeys \/ panes = <<Pane(0, <<>>, 0)>> \/ lost'
            \/ /\ InFront(panes', activePane') = InFront(panes, activePane)
               /\ Len(PanesOf(layout')) = Len(PanesOf(layout))
==============================================================================
