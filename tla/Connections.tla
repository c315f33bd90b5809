----------------------------- MODULE Connections -----------------------------
(***************************************************************************)
(* The sessions a window holds (tupli/src/workspace.rs): the saved         *)
(* connections, one session for each database that is open, the tabs that  *)
(* point at them, the session the window is describing, and what a restart *)
(* reads back.  One pane; the statements tabs send are left to Browse and  *)
(* Window.  Every database holds one table, of the same name everywhere.   *)
(***************************************************************************)
EXTENDS Naturals, Sequences

CONSTANTS
    Servers,     \* the connections that may be saved
    Databases,   \* the databases each of them has
    Written,     \* what an earlier run may have left to be read back
    MaxTabs,     \* bound: tabs open at once
    MaxGestures  \* bound: gestures that open, close or move something

Nowhere == <<>>
Places == Servers \X Databases

\* What may be written down: tabs of a kind, each with where it is, the one in
\* front, and where the window was.
States ==
    {st \in [tabs : Seq({"Query", "Table"} \X (Places \cup {Nowhere})), active : Nat,
             place : Places \cup {Nowhere}] :
        /\ Len(st.tabs) <= MaxTabs
        /\ st.active \in DOMAIN st.tabs \cup {0} /\ (st.active = 0) = (st.tabs = <<>>)}

ASSUME ConnectionsAssumption ==
    Databases # {} /\ Written \subseteq States /\ MaxTabs \in Nat \ {0, 1} /\ MaxGestures \in Nat

VARIABLES
    connections,   \* the saved connections, each with the database it opens by default
    sessions,      \* Workspace::sessions, by the order they were made in
    made,          \* how many were made since the launch
    tabs,          \* the strip: kind, session (0 for none), reconnect
    active_tab,    \* its tab in front, 0 for none
    session,       \* the session the window is describing, 0 for none
    catalog,       \* what the consoles complete against
    saved,         \* what the next launch would read
    elsewhere,     \* the window was moved and the tab in front was not
    gestures

vars == <<connections, sessions, made, tabs, active_tab, session, catalog, saved, elsewhere,
          gestures>>

Tab(kind, n, place) == [kind |-> kind, session |-> n, reconnect |-> place]

PlaceIn(held, tab) == IF tab.session # 0 THEN held[tab.session].place ELSE tab.reconnect
PlaceOf(tab) == PlaceIn(sessions, tab)

With(f, x, y) == [k \in DOMAIN f \cup {x} |-> IF k = x THEN y ELSE f[k]]

Smallest(S) == CHOOSE n \in S : \A m \in S : n <= m

\* The front tab's session.
Here == IF active_tab = 0 THEN 0 ELSE tabs[active_tab].session

On(server) == {n \in DOMAIN sessions : sessions[n].place[1] = server}
Failed(server) == \E n \in On(server) : sessions[n].state = "failed"
-----------------------------------------------------------------------------
\* Slip: a tab that was not looked at since the launch forgets where it was.
WrittenDown_live(strip, front, held, n) ==
    [tabs |-> [i \in DOMAIN strip |-> <<strip[i].kind, IF strip[i].session = 0 THEN Nowhere
                                                    ELSE held[strip[i].session].place>>],
     active |-> front,
     place |-> IF n = 0 THEN Nowhere ELSE held[n].place]

\* What a tab list is written as, each tab with where it is connected or where
\* it was restored to.
WrittenDown(strip, front, held, n) ==
    [tabs |-> [i \in DOMAIN strip |-> <<strip[i].kind, PlaceIn(held, strip[i])>>],
     active |-> front,
     place |-> IF n = 0 THEN Nowhere ELSE held[n].place]

Now == WrittenDown(tabs, active_tab, sessions, session)
Save == saved' = WrittenDown(tabs', active_tab', sessions', session')

\* The window describes session n of `held', having described `before'.
Shown(held, before, shown, n) ==
    IF n = before THEN shown ELSE IF n = 0 THEN Nowhere ELSE held[n].snapshot

Adopt(before, shown, n) ==
    /\ session' = n
    /\ catalog' = Shown(sessions', before, shown, n)

\* The window's session for a place, connecting it if there is none and again
\* if the last attempt failed.
\* Slip: one that failed is not looked for again.
OpenOn_working(place) ==
    {n \in DOMAIN sessions : sessions[n].place = place /\ sessions[n].state # "failed"}

OpenOn(place) == {n \in DOMAIN sessions : sessions[n].place = place}
Handed(place) == IF OpenOn(place) = {} THEN made + 1 ELSE Smallest(OpenOn(place))

SessionFor(place) ==
    IF OpenOn(place) = {}
    THEN /\ made' = made + 1
         /\ sessions' = With(sessions, made', [place |-> place, state |-> "connecting",
                                               snapshot |-> Nowhere])
    ELSE /\ UNCHANGED made
         /\ sessions' = [sessions EXCEPT ![Handed(place)].state =
                            IF @ = "failed" THEN "connecting" ELSE @]

Pointed(strip, i, n) == [strip EXCEPT ![i] = Tab(@.kind, n, @.reconnect)]

\* The tab in front of `strip' is pointed at a place, and the window with it.
Bind(strip, front, place) ==
    /\ SessionFor(place)
    /\ active_tab' = front
    /\ tabs' = IF front = 0 THEN strip ELSE Pointed(strip, front, Handed(place))
    /\ Adopt(session, catalog, Handed(place))
    /\ elsewhere' = FALSE

\* The tab at i of `strip' is shown in a window that describes `at'.
AdoptTab(strip, i, at, shown) ==
    LET tab == strip[i]
        known == tab.reconnect # Nowhere /\ tab.reconnect[1] \in DOMAIN connections
    IN  /\ active_tab' = i /\ elsewhere' = FALSE
        /\ \/ /\ tab.session # 0
              /\ tabs' = strip /\ UNCHANGED <<sessions, made>>
              /\ Adopt(at, shown, tab.session)
           \/ /\ tab.session = 0 /\ known
              /\ SessionFor(tab.reconnect)
              /\ tabs' = [strip EXCEPT ![i] = Tab(tab.kind, Handed(tab.reconnect), Nowhere)]
              /\ Adopt(at, shown, Handed(tab.reconnect))
           \/ /\ tab.session = 0 /\ ~known
              /\ tabs' = [strip EXCEPT ![i] = Tab(tab.kind, at, Nowhere)]
              /\ UNCHANGED <<sessions, made>>
              /\ Adopt(at, shown, at)

Gesture == gestures < MaxGestures /\ gestures' = gestures + 1
-----------------------------------------------------------------------------
\* Point the window at a connection: in a tab of its own if the one in front is
\* on another, in the one in front otherwise.
OpenConnectionWith(place) ==
    LET foreign == Here # 0 /\ sessions[Here].place[1] # place[1]
    IN  /\ foreign => Len(tabs) < MaxTabs
        /\ IF foreign
           THEN Bind(Append(tabs, Tab("Query", session, Nowhere)), Len(tabs) + 1, place)
           ELSE Bind(tabs, active_tab, place)
        /\ Save

\* A connection's row, or Connect in its menu.
OpenConnection(server) ==
    /\ Gesture
    /\ server \in DOMAIN connections
    /\ On(server) = {} \/ Failed(server)
    /\ OpenConnectionWith(<<server, connections[server]>>)
    /\ UNCHANGED connections

\* The palette's row of a connection: a move to it if it is open.
PaletteConnection(server) ==
    /\ Gesture
    /\ server \in DOMAIN connections
    /\ \/ /\ On(server) # {}
          /\ UNCHANGED <<sessions, made, tabs, active_tab, saved>>
          /\ Adopt(session, catalog, Smallest(On(server)))
          /\ elsewhere' = TRUE
       \/ /\ On(server) = {}
          /\ OpenConnectionWith(<<server, connections[server]>>)
    /\ UNCHANGED connections

\* The connection sheet: new, or edited to open another database.
SaveConnection(server, database) ==
    /\ Gesture
    /\ connections' = With(connections, server, database)
    /\ OpenConnectionWith(<<server, database>>)

\* Every session of a connection is closed, and what pointed at one of them
\* points at none.
CloseSessionsOn(server) ==
    LET closed == On(server)
        left == DOMAIN sessions \ closed
    IN  /\ sessions' = [n \in left |-> sessions[n]]
        /\ tabs' = [i \in DOMAIN tabs |->
                      Tab(tabs[i].kind, IF tabs[i].session \in closed THEN 0 ELSE tabs[i].session,
                          tabs[i].reconnect)]
        /\ session' = IF session \in closed THEN 0 ELSE session
        /\ catalog' = IF session \in closed THEN Nowhere ELSE catalog
        /\ UNCHANGED <<made, active_tab, saved, elsewhere>>

DisconnectFrom(server) ==
    /\ Gesture
    /\ On(server) # {}
    /\ CloseSessionsOn(server)
    /\ UNCHANGED connections

DeleteConnection(server) ==
    /\ Gesture
    /\ server \in DOMAIN connections
    /\ connections' = [s \in DOMAIN connections \ {server} |-> connections[s]]
    /\ CloseSessionsOn(server)

\* The session a row of the tree belongs to, or another of its connection.
Origin(place) ==
    IF OpenOn(place) # {} THEN Smallest(OpenOn(place)) ELSE Smallest(On(place[1]))

\* A database's row: the window moves to it, in a tab of its own if it is new.
OpenDatabase(place) ==
    /\ Gesture
    /\ On(place[1]) # {}
    /\ OpenOn(place) # {} \/ \E n \in On(place[1]) : sessions[n].snapshot # Nowhere
    /\ \/ /\ OpenOn(place) # {}
          /\ UNCHANGED <<sessions, made, tabs, active_tab, saved>>
          /\ Adopt(session, catalog, Origin(place))
          /\ elsewhere' = TRUE
       \/ /\ OpenOn(place) = {}
          /\ Len(tabs) < MaxTabs
          /\ Bind(Append(tabs, Tab("Query", Origin(place), Nowhere)), Len(tabs) + 1, place)
          /\ Save
    /\ UNCHANGED connections

\* The titlebar's menu: the tab in front moves to another database.
SwitchDatabase(database) ==
    /\ Gesture
    /\ session # 0 /\ sessions[session].snapshot # Nowhere
    /\ database # sessions[session].place[2]
    /\ Bind(tabs, active_tab, <<sessions[session].place[1], database>>)
    /\ Save
    /\ UNCHANGED connections

\* The table's row under one database: the tab it is open in is shown, or one
\* that no session has been given yet, or else a new one.
Reusable(at) == {i \in DOMAIN tabs : tabs[i].kind = "Table" /\ tabs[i].session \in {0, at}}

OpenRelation(place) ==
    LET at == Origin(place)
        shown == Shown(sessions, session, catalog, at)
    IN  /\ Gesture
        /\ OpenOn(place) # {} /\ sessions[at].snapshot # Nowhere
        /\ \/ /\ Reusable(at) # {}
              /\ AdoptTab(tabs, Smallest(Reusable(at)), at, shown)
           \/ /\ Reusable(at) = {} /\ Len(tabs) < MaxTabs
              /\ AdoptTab(Append(tabs, Tab("Table", at, Nowhere)), Len(tabs) + 1, at, shown)
        /\ Save
        /\ UNCHANGED connections

NewQueryTab ==
    /\ Gesture
    /\ Len(tabs) < MaxTabs
    /\ AdoptTab(Append(tabs, Tab("Query", session, Nowhere)), Len(tabs) + 1, session, catalog)
    /\ Save
    /\ UNCHANGED connections

\* A click on a tab writes the strip down; the key that goes to the next does not.
ShowTab(i, writes) ==
    /\ Gesture
    /\ i # active_tab
    /\ AdoptTab(tabs, i, session, catalog)
    /\ IF writes THEN Save ELSE UNCHANGED saved
    /\ UNCHANGED connections

CloseTab(i) ==
    LET left == SubSeq(tabs, 1, i - 1) \o SubSeq(tabs, i + 1, Len(tabs))
    IN  /\ Gesture
        /\ \/ /\ i # active_tab
              /\ tabs' = left
              /\ active_tab' = IF i < active_tab THEN active_tab - 1 ELSE active_tab
              /\ UNCHANGED <<sessions, made, session, catalog, elsewhere>>
           \/ /\ i = active_tab /\ left # <<>>
              /\ AdoptTab(left, IF i > Len(left) THEN Len(left) ELSE i, session, catalog)
           \/ /\ left = <<>>
              /\ tabs' = left /\ active_tab' = 0
              /\ UNCHANGED <<sessions, made, session, catalog, elsewhere>>
        /\ Save
        /\ UNCHANGED connections
-----------------------------------------------------------------------------
\* A catalog arrives, the first of a session or one that was asked for again.
CatalogLands(n) ==
    /\ \/ sessions[n].state = "connecting" /\ UNCHANGED gestures
       \/ sessions[n].state = "connected" /\ Gesture
    /\ sessions' = [sessions EXCEPT ![n].state = "connected",
                                    ![n].snapshot = IF @ = <<n, 1>> THEN <<n, 2>> ELSE <<n, 1>>]
    /\ catalog' = IF n = session THEN sessions'[n].snapshot ELSE catalog
    /\ UNCHANGED <<connections, made, tabs, active_tab, session, saved, elsewhere>>

ConnectFails(n) ==
    /\ sessions[n].state = "connecting"
    /\ sessions' = [sessions EXCEPT ![n].state = "failed"]
    /\ UNCHANGED <<connections, made, tabs, active_tab, session, catalog, saved, elsewhere, gestures>>
-----------------------------------------------------------------------------
\* The strip a launch puts back: every tab knows where it was and is connected
\* to nothing.  A first launch has two samples.
Restored(state) == [i \in DOMAIN state.tabs |-> Tab(state.tabs[i][1], 0, state.tabs[i][2])]
Samples == <<Tab("Query", 0, Nowhere), Tab("Table", 0, Nowhere)>>

\* What a launch does with what it read: the connection the window was on is
\* opened again, unless that is turned off or it is gone, and the tab in front
\* is pointed at it.
Launched(state, reopen) ==
    LET connecting == reopen /\ state.place # Nowhere
        strip == IF state.tabs = <<>> /\ ~connecting THEN Samples ELSE Restored(state)
        front == IF state.tabs = <<>> THEN (IF connecting THEN 0 ELSE 1) ELSE state.active
        back == connecting /\ state.place[1] \in DOMAIN connections
    IN  [sessions |-> IF back THEN <<[place |-> state.place, state |-> "connecting",
                                      snapshot |-> Nowhere]>>
                      ELSE <<>>,
         tabs |-> IF back /\ front # 0 THEN Pointed(strip, front, 1) ELSE strip,
         active |-> front,
         session |-> IF back THEN 1 ELSE 0]

Launch(state) ==
    \E reopen \in BOOLEAN :
        LET w == Launched(state, reopen)
        IN  /\ sessions' = w.sessions /\ made' = Len(w.sessions)
            /\ tabs' = w.tabs /\ active_tab' = w.active
            /\ session' = w.session /\ catalog' = Nowhere
            /\ elsewhere' = FALSE
            /\ IF w.session = 0 THEN saved' = state ELSE Save
            /\ UNCHANGED connections

\* Quitting writes the session down first.
Quit == Gesture /\ Launch(Now)
Crash == Gesture /\ Launch(saved)

Init ==
    /\ connections \in [Servers -> {CHOOSE d \in Databases : TRUE}]
    /\ \E state \in Written, reopen \in BOOLEAN :
          LET w == Launched(state, reopen)
          IN  /\ sessions = w.sessions /\ made = Len(w.sessions) /\ tabs = w.tabs
              /\ active_tab = w.active /\ session = w.session
              /\ saved = IF w.session = 0 THEN state
                         ELSE WrittenDown(w.tabs, w.active, w.sessions, w.session)
    /\ catalog = Nowhere /\ elsewhere = FALSE /\ gestures = 0

Next ==
    \/ \E s \in Servers : \/ OpenConnection(s) \/ PaletteConnection(s)
                          \/ DisconnectFrom(s) \/ DeleteConnection(s)
                          \/ \E d \in Databases : SaveConnection(s, d)
    \/ \E p \in Places : OpenDatabase(p) \/ OpenRelation(p)
    \/ \E d \in Databases : SwitchDatabase(d)
    \/ NewQueryTab
    \/ \E i \in DOMAIN tabs : CloseTab(i) \/ \E writes \in BOOLEAN : ShowTab(i, writes)
    \/ \E n \in DOMAIN sessions : CatalogLands(n) \/ ConnectFails(n)
    \/ Quit \/ Crash

Spec == Init /\ [][Next]_vars
-----------------------------------------------------------------------------
\* The window is well formed: what is open is of places there are, and some tab
\* is in front whenever there is one.
TypeOK ==
    /\ DOMAIN connections \subseteq Servers
    /\ DOMAIN sessions \subseteq 1..made
    /\ \A n \in DOMAIN sessions : sessions[n].place \in Places
    /\ active_tab \in DOMAIN tabs \cup {0} /\ Len(tabs) <= MaxTabs
    /\ (active_tab = 0) = (tabs = <<>>)

\* Two tabs on one database share one connection (session_for): the window
\* never holds two sessions of a place, however one failed, was closed or was
\* opened again.
OneSessionPerPlace ==
    \A m, n \in DOMAIN sessions : sessions[m].place = sessions[n].place => m = n

\* Nothing points at a session that was closed, in the window or in any tab
\* (close_sessions_on), and a session that is open is of a saved connection.
NothingDangles ==
    /\ session \in DOMAIN sessions \cup {0}
    /\ \A i \in DOMAIN tabs : tabs[i].session \in DOMAIN sessions \cup {0}
    /\ \A n \in DOMAIN sessions : sessions[n].place[1] \in DOMAIN connections

\* The consoles complete against the catalog of the session the window is on,
\* in the version that session holds (adopt_session, on_session_event).
CompletesAgainstItsOwn ==
    catalog = IF session = 0 THEN Nowhere ELSE sessions[session].snapshot

\* The window describes the tab in front, and what is run there goes to that
\* tab's session, except after a click that moves the window alone.
FrontTabIsTheWindows == ~elsewhere /\ active_tab # 0 => Here = session

\* A crash loses no tab: every change of the strip was written down.
CrashLosesNoTab ==
    tabs # Samples =>
        /\ Len(saved.tabs) = Len(tabs)
        /\ \A i \in DOMAIN tabs : saved.tabs[i][1] = tabs[i].kind

\* What a window holds of its connections, all of the above together.
ConnectionsHold ==
    /\ TypeOK /\ OneSessionPerPlace /\ NothingDangles /\ CompletesAgainstItsOwn
    /\ FrontTabIsTheWindows /\ CrashLosesNoTab

\* A tab stays where it is connected, or where it was when the window was quit,
\* however the others move: only the one in front is pointed elsewhere, until
\* its connection is closed or deleted.  (A crash after a step that writes
\* nothing may bring one back to where it was.)
Closing == \E s \in Servers : DisconnectFrom(s) \/ DeleteConnection(s)
StaysPut(i) ==
    \/ i = active_tab /\ i = active_tab'
    \/ PlaceIn(sessions', tabs'[i]) = PlaceOf(tabs[i])
Stay ==
    Len(tabs') >= Len(tabs) /\ ~(Crash /\ saved # Now) /\ ~Closing =>
        \A i \in DOMAIN tabs :
            LET place == PlaceOf(tabs[i])
            IN  place # Nowhere /\ place[1] \in DOMAIN connections => StaysPut(i)
TabsKeepTheirPlace == [][Stay]_vars

\* The table opened from the tree is the one of the server its row is under
\* (workspace.rs, open_relation_filtered: "two connections both have a
\* `public.users' and they are not the same table"); not so.
Opened(place) == session' # 0 /\ sessions'[session'].place = place
OpensTheOneClicked == [][\A p \in Places : OpenRelation(p) => Opened(p)]_vars
=============================================================================
