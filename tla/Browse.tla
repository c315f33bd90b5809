-------------------------------- MODULE Browse --------------------------------
(***************************************************************************)
(* Browsing tables: the conditions stacked above the rows, the page, the   *)
(* sorted header, and the statement they come to (tupli/src/filter.rs and  *)
(* workspace.rs).                                                          *)
(*                                                                         *)
(* One pane of table tabs on one session.  Tables do not change here, and  *)
(* each has one column to sort by, of a name of its own.  A statement that *)
(* is sent while another runs takes its place (module Session); a cancel   *)
(* is one way for it to fail.  A row about any column is a row about a     *)
(* column with a meaning of its own.                                       *)
(***************************************************************************)
EXTENDS Naturals, Sequences, FiniteSets, SequencesExt

CONSTANTS
    Nothing,    \* Option::None
    TableRows,  \* every table's rows, by their primary key
    Rank,       \* a row's place in the column that can be sorted by
    Values,     \* what can be typed as a condition
    Pointers,   \* the conditions a foreign key is followed with
    Meaning,    \* the rows each of them, or being null, is true of
    Keyed,      \* the tables with a primary key
    PointsAt,   \* per table, the one its foreign key points at
    KeptTabs,   \* the tabs the window may come back with
    PageSize,
    Gestures,   \* what the user does
    MaxChips,   \* bound: rows of the filter
    MaxBrowsed  \* bound: things the user does

NoText == ""
Null == "null"

Tables == DOMAIN PointsAt
Chip == [enabled : BOOLEAN, subject : {"Column", "Raw"}, op : {"=", "is null"},
         value : DOMAIN Meaning \union {NoText}, join : {"and", "or"}]
Ways == {"up", "down"}
Statements ==
    [relation : Tables, where : SUBSET TableRows, page : Nat,
     order : [column_of : Tables, way : Ways] \union {Nothing}, keyed : BOOLEAN]

\* A window has a tab; a key is a number, a condition is true of rows there are.
ASSUME BrowseAssumption ==
    /\ IsFiniteSet(TableRows) /\ TableRows \subseteq Nat /\ Rank \in [TableRows -> Nat]
    /\ PageSize \in Nat \ {0}
    /\ Values \union Pointers \union {Null} \subseteq DOMAIN Meaning
    /\ \A value \in DOMAIN Meaning : Meaning[value] \subseteq TableRows
    /\ PointsAt \in [Tables -> Tables \union {Nothing}]
    /\ KeptTabs \subseteq Seq([relation : Tables, chips : Seq(Chip)]) \ {<<>>}
    /\ Nothing \notin Statements \union {"and", "or"}

VARIABLES
    tabs,           \* per tab: its table, its filter, its page, the rows it left with
    active_tab,
    composer,       \* the row of the filter that is being written
    filter_open,
    grid,           \* the rows shown, the statement they are of, the header's arrow
    pending_sort,
    running,        \* the statement in flight
    error,          \* the last one failed
    asked_here,     \* it was the tab in front that asked (ghost)
    doings

browseVars == <<tabs, active_tab, composer, filter_open, grid, pending_sort, running, error,
                asked_here, doings>>
band == <<composer, filter_open>>
statement == <<running, error, asked_here, pending_sort>>

(***************************************************************************)
(* The filter.                                                             *)
(***************************************************************************)
NewChip(join) ==
    [enabled |-> TRUE, subject |-> "Column", op |-> "=", value |-> NoText, join |-> join]
Raw(value) == [NewChip("and") EXCEPT !.subject = "Raw", !.value = value]

\* takes_value, and to_sql of an enabled row: whether it is finished.
TakesValue(chip) == chip.subject = "Raw" \/ chip.op # "is null"
Complete(chip) == TakesValue(chip) => chip.value # NoText
ToSql(chip) == IF TakesValue(chip) THEN Meaning[chip.value] ELSE Meaning[Null]

\* What SQL makes of a clause without brackets: `and' before `or'.
Meant(out) ==
    {row \in TableRows : \E i \in DOMAIN out :
        /\ i = 1 \/ out[i].join = "or"
        /\ \A j \in i..Len(out) :
              (\A k \in (i + 1)..j : out[k].join = "and") => row \in out[j].rows}

Bracketed(out) == <<[join |-> "and", rows |-> Meant(out)]>>

\* chips_sql: a bracket wherever the join changes.
Joined(sofar, chip) ==
    LET piece == [join |-> chip.join, rows |-> ToSql(chip)]
    IN IF sofar.out = <<>> THEN [sofar EXCEPT !.out = <<piece>>]
       ELSE [out |-> Append(IF sofar.joined \in {Nothing, chip.join} THEN sofar.out
                                                                     ELSE Bracketed(sofar.out),
                            piece),
             joined |-> chip.join]

InForce(chip) == chip.enabled /\ Complete(chip)

\* The clause the first n rows of the filter come to.
Clauses(chips) ==
    LET clause[n \in 0..Len(chips)] ==
            IF n = 0 THEN [out |-> <<>>, joined |-> Nothing]
            ELSE IF InForce(chips[n]) THEN Joined(clause[n - 1], chips[n]) ELSE clause[n - 1]
    IN clause

Predicate(chips) ==
    LET clause == Clauses(chips)[Len(chips)].out
    IN IF clause = <<>> THEN TableRows ELSE Meant(clause)

(***************************************************************************)
(* The statement.                                                          *)
(***************************************************************************)
NothingShown == [of |-> Nothing, rows |-> <<>>, sort |-> Nothing]

PageOf(tab) == IF tab.page = Nothing THEN 0 ELSE tab.page
Shown == tabs[active_tab]

\* order_by_clause names a column of the rows that are shown.
OrderBy(shown) ==
    IF shown.sort = Nothing \/ shown.of = Nothing THEN Nothing
    ELSE [column_of |-> shown.of.relation, way |-> shown.sort]

\* Slip: a sort of the user's is thought to be order enough.
Tiebreak_sorted(tab, shown) ==
    /\ tab.page # Nothing \/ Len(shown.rows) >= PageSize
    /\ tab.relation \in Keyed /\ OrderBy(shown) = Nothing

\* The key is ordered by from the first full page onwards.
Tiebreak(tab, shown) ==
    /\ tab.page # Nothing \/ Len(shown.rows) >= PageSize
    /\ tab.relation \in Keyed

\* reload_relation.
Statement(tab, shown) ==
    [relation |-> tab.relation, where |-> Predicate(tab.chips), page |-> PageOf(tab),
     order |-> OrderBy(shown), keyed |-> Tiebreak(tab, shown)]

Reloads(tab, shown) ==
    running' = Statement(tab, shown) /\ asked_here' = TRUE /\ UNCHANGED error

\* apply_filter: with these rows in the stack, the first page.
Apply(chips) ==
    LET tab == [Shown EXCEPT !.chips = chips, !.page = 0]
    IN /\ tabs' = [tabs EXCEPT ![active_tab] = tab]
       /\ Reloads(tab, grid)
       /\ UNCHANGED <<active_tab, grid, pending_sort>>

Keep(chips) ==
    /\ tabs' = [tabs EXCEPT ![active_tab].chips = chips]
    /\ UNCHANGED <<active_tab, grid, statement>>

Does(gesture) ==
    gesture \in Gestures /\ doings < MaxBrowsed /\ doings' = doings + 1

(***************************************************************************)
(* The band.                                                               *)
(***************************************************************************)
Chips == Shown.chips
Composing(i) == composer # Nothing /\ composer.editing = i

\* A row in the composer, 0 for a new one: with `was' as it was opened, and
\* whether a row above it went since (ghosts).
ComposerOn(chips, i) ==
    LET chip == IF i # 0 THEN chips[i]
                ELSE NewChip(IF chips = <<>> THEN "and" ELSE Last(chips).join)
    IN [editing |-> i, chip |-> chip, was |-> chip, slid |-> FALSE]

\* commit_chip, with this in the composer: an unfinished row is dropped.
Committed(chip) ==
    LET at == composer.editing IN
    CASE at \in DOMAIN Chips /\ Complete(chip) -> [Chips EXCEPT ![at] = chip]
      [] at \in DOMAIN Chips /\ ~Complete(chip) -> RemoveAt(Chips, at)
      [] at = 0 /\ Complete(chip) -> Append(Chips, chip)
      [] OTHER -> Chips

\* The stack once nothing is being written.
Settled == IF composer = Nothing THEN Chips ELSE Committed(composer.chip)

\* open_chip: what was being written is committed on the way, and may take its
\* row with it.
Opens(i) ==
    IF composer = Nothing
      THEN composer' = ComposerOn(Chips, i) /\ Keep(Chips)
      ELSE /\ Apply(Settled)
           /\ composer' = IF i \in DOMAIN Settled \union {0} THEN ComposerOn(Settled, i) ELSE Nothing

OpenChip(i) ==
    /\ filter_open /\ ~Composing(i)
    /\ i = 0 => Chips = <<>> /\ composer = Nothing
    /\ i \in DOMAIN Chips \union {0}
    /\ Opens(i) /\ UNCHANGED filter_open /\ Does("filter")

ToggleFilterBand ==
    /\ filter_open' = ~filter_open
    /\ CASE ~filter_open /\ Chips = <<>> /\ composer = Nothing -> Opens(0)
         [] filter_open /\ composer # Nothing -> composer' = Nothing /\ Apply(Settled)
         [] OTHER -> UNCHANGED composer /\ Keep(Chips)
    /\ Does("filter")

EscapeFilter ==
    /\ filter_open
    /\ composer' = Nothing /\ filter_open' = (composer # Nothing)
    /\ Keep(Chips) /\ Does("filter")

\* Typing, and the menus of the row that is being written.
Compose(chip) ==
    /\ filter_open /\ composer # Nothing
    /\ composer' = [composer EXCEPT !.chip = chip]
    /\ Keep(Chips) /\ UNCHANGED filter_open /\ Does("filter")

TypeValue(value) == composer # Nothing /\ TakesValue(composer.chip)
                    /\ Compose([composer.chip EXCEPT !.value = value])
SetChipSubject(subject) == composer # Nothing /\ Compose([composer.chip EXCEPT !.subject = subject])
FlipComposerJoin ==
    /\ composer # Nothing /\ composer.editing # 1 /\ Chips # <<>>
    /\ Compose([composer.chip EXCEPT !.join = IF @ = "and" THEN "or" ELSE "and"])
SetChipOp == composer # Nothing /\ composer.chip.op # "=" /\ composer.chip.subject = "Column"
             /\ Compose([composer.chip EXCEPT !.op = "="])

\* An operator that takes no value ends the gesture.
SetChipNull ==
    /\ filter_open /\ composer # Nothing /\ composer.chip.subject = "Column"
    /\ Apply(Committed([composer.chip EXCEPT !.op = "is null"]))
    /\ composer' = Nothing /\ UNCHANGED filter_open /\ Does("filter")

\* Enter, and the band's Apply.
CommitChip ==
    /\ filter_open
    /\ Apply(Settled)
    /\ composer' = Nothing /\ UNCHANGED filter_open /\ Does("filter")

ToggleChip(i) ==
    /\ filter_open /\ i \in DOMAIN Chips /\ ~Composing(i)
    /\ Apply([Chips EXCEPT ![i].enabled = ~@])
    /\ UNCHANGED band /\ Does("filter")

FlipJoin(i) ==
    /\ filter_open /\ i \in DOMAIN Chips \ {1} /\ ~Composing(i)
    /\ Apply([Chips EXCEPT ![i].join = IF @ = "and" THEN "or" ELSE "and"])
    /\ UNCHANGED band /\ Does("filter")

\* Slip: the row that went is written back by whoever finishes it.
RemoveChip_open(i) ==
    /\ filter_open /\ i \in DOMAIN Chips
    /\ Apply(RemoveAt(Chips, i))
    /\ composer' = IF composer # Nothing /\ composer.editing > i
                     THEN [composer EXCEPT !.slid = TRUE] ELSE composer
    /\ UNCHANGED filter_open /\ Does("filter")

\* A row above the one being written may go: its place is not followed.
RemoveChip(i) ==
    /\ filter_open /\ i \in DOMAIN Chips
    /\ Apply(RemoveAt(Chips, i))
    /\ composer' = IF Composing(i) THEN Nothing
                   ELSE IF composer # Nothing /\ composer.editing > i
                     THEN [composer EXCEPT !.slid = TRUE] ELSE composer
    /\ UNCHANGED filter_open /\ Does("filter")

\* The + on row i: what was being written is committed, and a new row goes
\* under what is then the i-th.
AddChipAfter(i) ==
    LET chips == Settled
        at == IF i < Len(chips) THEN i ELSE Len(chips)
        new == IF at = Len(chips) THEN chips
               ELSE InsertAt(chips, at + 1, NewChip(chips[at].join))
    IN /\ filter_open
       /\ i \in DOMAIN Chips \/ (i = Len(Chips) + 1 /\ Composing(0))
       /\ IF composer = Nothing THEN Keep(new) ELSE Apply(new)
       /\ composer' = ComposerOn(new, IF at = Len(chips) THEN 0 ELSE at + 1)
       /\ UNCHANGED filter_open /\ Does("filter")

ClearFilter ==
    /\ filter_open
    /\ Apply(<<>>) /\ composer' = Nothing /\ filter_open' = FALSE /\ Does("filter")

(***************************************************************************)
(* Pages, sorting and tabs.                                                *)
(***************************************************************************)
RefreshRows ==
    /\ Reloads(Shown, grid)
    /\ UNCHANGED <<tabs, active_tab, band, grid, pending_sort>> /\ Does("refresh")

\* The footer's arrows: a full page is the evidence of a next one.
ShowPage(page) ==
    /\ running = Nothing
    /\ \/ page + 1 = PageOf(Shown)
       \/ page = PageOf(Shown) + 1 /\ Len(grid.rows) >= PageSize
    /\ LET tab == [Shown EXCEPT !.page = page]
       IN tabs' = [tabs EXCEPT ![active_tab] = tab] /\ Reloads(tab, grid)
    /\ UNCHANGED <<active_tab, band, grid, pending_sort>> /\ Does("page")

\* A click on the header: up, down, none.
Cycled(sort) == CASE sort = Nothing -> "up" [] sort = "up" -> "down" [] sort = "down" -> Nothing
ApplySort ==
    /\ grid.of # Nothing
    /\ LET tab == [Shown EXCEPT !.page = 0]
           sorted == [grid EXCEPT !.sort = Cycled(@)]
       IN /\ tabs' = [tabs EXCEPT ![active_tab] = tab]
          /\ grid' = sorted /\ pending_sort' = sorted.sort
          /\ Reloads(tab, sorted)
    /\ UNCHANGED <<active_tab, band>> /\ Does("sort")

\* show_tab: the tab in front leaves with the rows that are shown; a tab that
\* has rows puts them back, another asks, with the grid as it is.
Shows(strip, i) ==
    LET left == [strip EXCEPT ![active_tab].cached = IF grid.rows = <<>> THEN Nothing ELSE grid]
    IN /\ tabs' = left /\ active_tab' = i
       /\ composer' = Nothing /\ UNCHANGED <<filter_open, pending_sort>>
       /\ error' = FALSE
       /\ IF left[i].cached # Nothing
            THEN grid' = left[i].cached /\ asked_here' = FALSE /\ UNCHANGED running
            ELSE /\ running' = Statement(left[i], grid) /\ asked_here' = TRUE
                 /\ UNCHANGED grid

ActivateTab(i) == i \in DOMAIN tabs /\ Shows(tabs, i) /\ Does("tab")

\* A tab that has not asked for its rows yet.
Unasked(relation, chips) ==
    [relation |-> relation, chips |-> chips, page |-> Nothing, cached |-> Nothing]

\* open_relation_filtered: from the tree, or from a foreign key with the row
\* it points at as the filter.
OpenRelation(relation, chips) ==
    LET open == {i \in DOMAIN tabs : tabs[i].relation = relation}
        new == Unasked(relation, IF chips = Nothing THEN <<>> ELSE chips)
        i == CHOOSE k \in open : \A j \in open : k <= j
    IN CASE open = {} -> Shows(Append(tabs, new), Len(tabs) + 1)
         [] open # {} /\ chips = Nothing -> Shows(tabs, i)
         [] open # {} /\ chips # Nothing ->
              Shows([tabs EXCEPT ![i].chips = chips, ![i].page = Nothing], i)

FollowReference(pointer) ==
    /\ grid.rows # <<>> /\ grid.of.relation = Shown.relation
    /\ PointsAt[Shown.relation] # Nothing
    /\ OpenRelation(PointsAt[Shown.relation], <<Raw(pointer)>>) /\ Does("follow")

BrowseTable(relation) == OpenRelation(relation, Nothing) /\ Does("tab")
-----------------------------------------------------------------------------
(***************************************************************************)
(* The server.                                                             *)
(***************************************************************************)
\* An order the rows may come in: what the statement leaves open is the
\* server's choice, each time.
Follows(stmt, a, b) ==
    LET by(r) == CASE stmt.order = Nothing -> 0 [] stmt.order # Nothing -> Rank[r]
        down == stmt.order # Nothing /\ stmt.order.way = "down"
    IN /\ IF down THEN by(a) >= by(b) ELSE by(a) <= by(b)
       /\ stmt.keyed /\ by(a) = by(b) => a < b

Page(order, page) ==
    SubSeq(order, page * PageSize + 1,
           IF (page + 1) * PageSize < Len(order) THEN (page + 1) * PageSize ELSE Len(order))

Answers(stmt) ==
    {Page(order, stmt.page) : order \in
        {o \in SetToSeqs(stmt.where) : \A i, j \in DOMAIN o : i < j => Follows(stmt, o[i], o[j])}}

\* A column of another table is an error.
Answerable == running.order # Nothing => running.order.column_of = running.relation

\* absorb_run: the arrow goes with the old rows, unless a sort asked for these.
AbsorbRun ==
    /\ running # Nothing /\ Answerable
    /\ \E rows \in Answers(running) :
          grid' = [of |-> running, rows |-> rows, sort |-> pending_sort]
    /\ pending_sort' = Nothing /\ running' = Nothing /\ error' = FALSE
    /\ UNCHANGED <<tabs, active_tab, band, asked_here, doings>>

Fail ==
    /\ running # Nothing
    /\ running' = Nothing /\ error' = TRUE
    /\ UNCHANGED <<tabs, active_tab, band, grid, pending_sort, asked_here, doings>>

\* The window comes back with its tabs and their filters, and asks for the
\* first one's rows.
BrowseInit ==
    /\ \E strip \in KeptTabs :
          tabs = [i \in DOMAIN strip |-> Unasked(strip[i].relation, strip[i].chips)]
    /\ active_tab = 1 /\ composer = Nothing /\ filter_open = FALSE
    /\ grid = NothingShown /\ pending_sort = Nothing
    /\ running = Statement(tabs[1], NothingShown) /\ error = FALSE /\ asked_here = TRUE
    /\ doings = 0

BrowseNext ==
    \/ \E i \in 0..MaxChips : OpenChip(i)
    \/ ToggleFilterBand \/ EscapeFilter \/ CommitChip \/ SetChipNull \/ SetChipOp
    \/ \E value \in Values \union {NoText} : TypeValue(value)
    \/ \E subject \in {"Column", "Raw"} : SetChipSubject(subject)
    \/ FlipComposerJoin \/ ClearFilter
    \/ \E i \in 1..MaxChips : ToggleChip(i) \/ FlipJoin(i) \/ RemoveChip(i)
    \/ \E i \in 1..(MaxChips + 1) : Len(Chips) < MaxChips /\ AddChipAfter(i)
    \/ RefreshRows \/ ApplySort
    \/ \E page \in 0..Cardinality(TableRows) : ShowPage(page)
    \/ \E i \in DOMAIN tabs : ActivateTab(i)
    \/ \E relation \in DOMAIN PointsAt : BrowseTable(relation)
    \/ \E pointer \in Pointers : FollowReference(pointer)
    \/ AbsorbRun \/ Fail

BrowseSpec == BrowseInit /\ [][BrowseNext]_browseVars
-----------------------------------------------------------------------------
\* The stack as it is read, from the top: a row is let in by the first condition
\* or by an `or', and taken out by any `and' further down that it does not meet.
ReadTo(chips, n) ==
    LET said == {i \in 1..n : InForce(chips[i])}
    IN IF said = {} THEN TableRows
       ELSE {row \in TableRows : \E i \in said :
                /\ chips[i].join = "or" \/ \A j \in said : i <= j
                /\ row \in ToSql(chips[i])
                /\ \A k \in said : k > i /\ chips[k].join = "and" => row \in ToSql(chips[k])}

ReadDown(chips) == ReadTo(chips, Len(chips))

\* What is asked is what the stack says, read from the top (filter.rs: "The row
\* reads strictly left to right").
FilterReadsDown == \A i \in DOMAIN tabs : Predicate(tabs[i].chips) = ReadDown(tabs[i].chips)

\* Rows that came for the tab in front are of its table, its filter and its
\* page, whatever was ticked, flipped, written and dropped on the way (an
\* `error' says of others that they are old, and rows that were put back are as
\* the tab left them).
RowsAnswerTheFilter ==
    running = Nothing /\ ~error /\ asked_here =>
        /\ grid.of.relation = Shown.relation /\ grid.of.page = PageOf(Shown)
        /\ grid.of.where = ReadDown(Chips)

\* A row that is being written is over the row it was opened on, which nothing
\* changed underneath it, unless one above it went (workspace.rs, remove_chip:
\* "Editing the chip that just went away would put it back").
ComposedRowIsItsOwn ==
    composer # Nothing /\ composer.editing # 0 /\ ~composer.slid =>
        composer.editing \in DOMAIN Chips /\ Chips[composer.editing] = composer.was

\* From one page to another of a table with a key no row is shown twice, when
\* both were asked for in one order (workspace.rs, reload_relation: "`offset`
\* over an unordered set can hand out the same row twice").  The first page is
\* asked for in no order until it was full once, and the order of the arrow is
\* lost with it when a page is turned.
NoRowTwice ==
    LET was == grid.of
        is == grid'.of
    IN running # Nothing /\ running' = Nothing /\ is = running /\ was # Nothing
       /\ is.relation \in Keyed
       /\ [was EXCEPT !.page = is.page] = is /\ was.page # is.page
         => Range(grid.rows) \intersect Range(grid'.rows) = {}

PagesRepeatNothing == [][NoRowTwice]_browseVars

\* The filter is asked as it is read, the rows are of it, and what is written goes
\* to its own row.
BrowseHolds == FilterReadsDown /\ RowsAnswerTheFilter /\ ComposedRowIsItsOwn

\* A tab that a foreign key opened shows the row it points at (workspace.rs,
\* follow_reference: "showing the one row it points at").
FollowShowsItsRow ==
    \A pointer \in Pointers :
        running = Nothing /\ ~error /\ Chips = <<Raw(pointer)>> => grid.of.where = Meaning[pointer]
===============================================================================
