------------------------------ MODULE SavedQueries ------------------------------
(***************************************************************************)
(* The queries someone keeps: the rows of the local store, the list the    *)
(* window read from it last, and the tabs that edit them.                  *)
(*                                                                         *)
(* Every tab has its own connection and showing one makes that connection  *)
(* the window's, but the list is read again only by a save, a deletion, a  *)
(* connection that opens, a statement that ends and a look at the sidebar. *)
(***************************************************************************)
EXTENDS Integers, Sequences, FiniteSets

CONSTANTS
    Origins,          \* the connections
    Panes,            \* the panes of the window, 1 the first
    Scripts, Names,   \* what is typed, and the names given
    Suggested,        \* the name a text suggests, by its first words
    MaxSaved, MaxQueryTabs, MaxSteps   \* bounds

\* A window begins with a pane, and a tab in it.
ASSUME QueriesAssumption ==
    1 \in Panes /\ MaxSaved \in Nat /\ MaxQueryTabs \in Nat \ {0} /\ MaxSteps \in Nat

VARIABLES
    rows,           \* the store's: from ids to [connection, name, sql]
    sidebar,        \* the ones the window lists
    panes, active,  \* a pane's tabs and the one in front
    activePane,
    current,        \* the connection the window is on
    open,           \* the connections that are open
    sheet,          \* is the sheet that asks for a name up
    nextId, steps,
    blind,          \* was a row written by a list that was another connection's
    orphans         \* the deleted rows a tab of another pane still edits

savedVars ==
    <<rows, sidebar, panes, active, activePane, current, open, sheet, nextId, steps, blind, orphans>>

NoConnection == "no connection"
Fresh == 0    \* the id of a tab that edits no row
Ids == 1..MaxSaved

Listed(of, connection) ==
    [id \in {i \in DOMAIN of :
                \/ connection = NoConnection
                \/ of[i].connection \in {connection, NoConnection}} |-> of[id]]

QueryTab(text, id, connection) ==
    [kind |-> "Query", sql |-> text, saved_query |-> id, session |-> connection]

QueriesInit ==
    /\ rows = << >> /\ sidebar = << >>
    /\ panes = [p \in Panes |-> <<QueryTab("", Fresh, NoConnection)>>]
    /\ active = [p \in Panes |-> 1] /\ activePane = 1
    /\ current = NoConnection /\ open = {}
    /\ sheet = FALSE /\ nextId = 1 /\ steps = 0 /\ blind = FALSE /\ orphans = {}

FrontTab == panes[activePane][active[activePane]]
Step == steps < MaxSteps /\ steps' = steps + 1

\* Showing a tab makes its connection the window's; one that has none takes
\* the window's.
Adopting(p, given, index) ==
    LET tab == given[index]
        connection == IF tab.session = NoConnection THEN current ELSE tab.session
    IN /\ current' = connection
       /\ panes' = [panes EXCEPT ![p] = [given EXCEPT ![index].session = connection]]
       /\ active' = [active EXCEPT ![p] = index]

Pushing(tab) ==
    /\ Len(panes[activePane]) < MaxQueryTabs
    /\ Adopting(activePane, Append(panes[activePane], tab), Len(panes[activePane]) + 1)

-----------------------------------------------------------------------------
Type ==
    /\ Step /\ ~sheet /\ FrontTab.kind = "Query"
    /\ \E text \in Scripts : panes' = [panes EXCEPT ![activePane][active[activePane]].sql = text]
    /\ UNCHANGED <<rows, sidebar, active, activePane, current, open, sheet, nextId, blind, orphans>>

\* The row a save lands on: the one the list has under that name and this
\* connection, or the one it would have been.
IdForSave_own(name, fallback) == {fallback}    \* Slip: a name that is taken is not looked for.

IdForSave(name, fallback) ==
    LET taken == {id \in DOMAIN sidebar : sidebar[id].name = name /\ sidebar[id].connection = current}
    IN IF taken = {} THEN {fallback} ELSE taken

\* The row is written, the tab edits it from now on, and the list is read.
Write(own, name) ==
    \E id \in IdForSave(name, IF own = Fresh THEN nextId ELSE own) :
        /\ id \in Ids
        /\ nextId' = IF id = nextId THEN nextId + 1 ELSE nextId
        /\ rows' = [i \in DOMAIN rows \cup {id} |->
                      IF i = id THEN [connection |-> current, name |-> name, sql |-> FrontTab.sql]
                      ELSE rows[i]]
        /\ sidebar' = Listed(rows', current)
        /\ panes' = [panes EXCEPT ![activePane][active[activePane]].saved_query = id]
        /\ blind' = (blind \/ sidebar # Listed(rows, current))
        /\ UNCHANGED <<active, activePane, current, open, orphans>>

PromptForName ==
    /\ sheet' = TRUE
    /\ UNCHANGED <<rows, sidebar, panes, active, activePane, current, open, nextId, blind, orphans>>

\* A tab that came from a saved query goes back to it under the name the list
\* has for it; one that did not is named first.
SaveQuery ==
    /\ Step /\ ~sheet /\ FrontTab.sql # ""
    /\ LET own == FrontTab.saved_query
       IN IF own = Fresh THEN PromptForName
          ELSE /\ Write(own, IF own \in DOMAIN sidebar THEN sidebar[own].name ELSE Suggested[FrontTab.sql])
               /\ UNCHANGED sheet

SaveQueryAs == Step /\ ~sheet /\ FrontTab.sql # "" /\ PromptForName

OnNamed ==
    /\ Step /\ sheet /\ sheet' = FALSE
    /\ \E name \in Names : Write(FrontTab.saved_query, name)

OnDismissed ==
    /\ Step /\ sheet /\ sheet' = FALSE
    /\ UNCHANGED <<rows, sidebar, panes, active, activePane, current, open, nextId, blind, orphans>>

\* A row of the list goes into the tab in front when that is a script, and
\* into a new one when it is a table's.
LoadSavedQuery ==
    /\ Step /\ ~sheet
    /\ \E id \in DOMAIN sidebar :
          IF FrontTab.kind = "Query"
          THEN /\ panes' = [panes EXCEPT ![activePane][active[activePane]] =
                              [@ EXCEPT !.sql = sidebar[id].sql, !.saved_query = id]]
               /\ UNCHANGED <<active, current>>
          ELSE Pushing(QueryTab(sidebar[id].sql, id, current))
    /\ UNCHANGED <<rows, sidebar, activePane, open, sheet, nextId, blind, orphans>>

DeleteSavedQuery ==
    /\ Step /\ ~sheet
    /\ \E id \in DOMAIN sidebar :
          /\ rows' = [i \in DOMAIN rows \ {id} |-> rows[i]]
          /\ sidebar' = Listed(rows', current)
          /\ panes' = [panes EXCEPT ![activePane] =
                        [k \in DOMAIN @ |-> IF @[k].saved_query = id
                                            THEN [@[k] EXCEPT !.saved_query = Fresh] ELSE @[k]]]
          /\ orphans' = orphans \cup
                (IF \E p \in Panes \ {activePane}, k \in 1..MaxQueryTabs :
                        k \in DOMAIN panes[p] /\ panes[p][k].saved_query = id
                 THEN {id} ELSE {})
    /\ UNCHANGED <<active, activePane, current, open, sheet, nextId, blind>>

\* A statement ended and is in the history, or the sidebar shows its lists.
ReloadLists ==
    /\ Step /\ sidebar' = Listed(rows, current) /\ sidebar' # sidebar
    /\ UNCHANGED <<rows, panes, active, activePane, current, open, sheet, nextId, blind, orphans>>

NewScript ==
    /\ Step /\ ~sheet /\ Pushing(QueryTab("", Fresh, current))
    /\ UNCHANGED <<rows, sidebar, activePane, open, sheet, nextId, blind, orphans>>

\* A table of a connection that is open, clicked in the tree: the window goes
\* to that connection, and the table's tab is in front.
OpenTable ==
    /\ Step /\ ~sheet
    /\ \E connection \in open :
          LET table == [QueryTab("", Fresh, connection) EXCEPT !.kind = "Table"]
              here == {k \in DOMAIN panes[activePane] : panes[activePane][k] = table}
          IN IF here = {} THEN Pushing(table)
             ELSE \E k \in here : Adopting(activePane, panes[activePane], k)
    /\ UNCHANGED <<rows, sidebar, activePane, open, sheet, nextId, blind, orphans>>

\* Another row of the tree, which has no tab.
FocusOrigin ==
    /\ Step /\ ~sheet
    /\ \E connection \in open : current' = connection
    /\ UNCHANGED <<rows, sidebar, panes, active, activePane, open, sheet, nextId, blind, orphans>>

ActivateTab ==
    /\ Step /\ ~sheet
    /\ \E k \in DOMAIN panes[activePane] :
          k # active[activePane] /\ Adopting(activePane, panes[activePane], k)
    /\ UNCHANGED <<rows, sidebar, activePane, open, sheet, nextId, blind, orphans>>

ActivatePane ==
    /\ Step /\ ~sheet
    /\ \E p \in Panes \ {activePane} : activePane' = p /\ Adopting(p, panes[p], active[p])
    /\ UNCHANGED <<rows, sidebar, open, sheet, nextId, blind, orphans>>

\* A connection opens in the tab in front, or in one of its own when that is
\* on another connection.
OpenAndBind ==
    /\ Step /\ ~sheet
    /\ \E connection \in Origins :
          /\ open' = open \cup {connection}
          /\ current' = connection /\ sidebar' = Listed(rows, connection)
          /\ IF FrontTab.session \in {NoConnection, connection}
             THEN /\ panes' = [panes EXCEPT ![activePane][active[activePane]].session = connection]
                  /\ UNCHANGED active
             ELSE /\ Len(panes[activePane]) < MaxQueryTabs
                  /\ panes' = [panes EXCEPT ![activePane] = Append(@, QueryTab("", Fresh, connection))]
                  /\ active' = [active EXCEPT ![activePane] = Len(panes'[activePane])]
    /\ UNCHANGED <<rows, activePane, sheet, nextId, blind, orphans>>

QueriesNext ==
    \/ Type \/ SaveQuery \/ SaveQueryAs \/ OnNamed \/ OnDismissed
    \/ LoadSavedQuery \/ DeleteSavedQuery \/ ReloadLists
    \/ NewScript \/ OpenTable \/ FocusOrigin \/ ActivateTab \/ ActivatePane \/ OpenAndBind

QueriesSpec == QueriesInit /\ [][QueriesNext]_savedVars
-----------------------------------------------------------------------------
\* No two rows of one connection have one name, unless one was written while
\* the window's list was another connection's.
NamesAreOne ==
    ~blind =>
        \A i, j \in DOMAIN rows :
            rows[i].name = rows[j].name /\ rows[i].connection = rows[j].connection => i = j

\* A row that was deleted comes back only by the tab of another pane.
DeletedStaysDeleted ==
    \A id \in DOMAIN rows' \ DOMAIN rows : id = nextId \/ id \in orphans

\* A save over a list that is the window's own takes no other row's place but
\* that of its name, keeps the name a row has unless one was given, and leaves
\* every other row as it was; no other step changes what a row says.
SavesOneRow ==
    LET written == {i \in DOMAIN rows' : i \notin DOMAIN rows \/ rows'[i] # rows[i]}
    IN written # {} =>
         \E id \in written :
             /\ written = {id} /\ DOMAIN rows' = DOMAIN rows \cup {id}
             /\ rows'[id].sql = FrontTab.sql
             /\ panes'[activePane][active[activePane]].saved_query = id
             /\ sidebar = Listed(rows, current) /\ id \in DOMAIN rows =>
                     \/ FrontTab.saved_query = id
                        /\ (~sheet /\ id \in DOMAIN sidebar => rows'[id].name = rows[id].name)
                     \/ rows'[id].name = rows[id].name /\ rows[id].connection = current

\* One row of a name, a save writes one row, and a deletion is for good, outside
\* of what a stale list or another pane's tab can do.
QueriesHold == [][NamesAreOne' /\ DeletedStaysDeleted /\ SavesOneRow]_savedVars
===============================================================================
