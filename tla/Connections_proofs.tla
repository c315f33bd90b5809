--------------------------- MODULE Connections_proofs ---------------------------
(***************************************************************************)
(* Proofs about the sessions of a window, for any connections, databases,  *)
(* strips restored and number of gestures.  The invariant says of the      *)
(* sessions, of the strip and of what is written down, each by itself,     *)
(* what is needed of it; `Handed', `Bind' and `AdoptTab', of which the     *)
(* gestures are composed, have a lemma each.                               *)
(***************************************************************************)
EXTENDS Connections, TLAPS, WellFoundedInduction

Kinds == {"Query", "Table"}
SessionRecords ==
    [place : Places, state : {"connecting", "connected", "failed"},
     snapshot : {Nowhere} \cup Nat \X {1, 2}]
Tabs == [kind : Kinds, session : Nat, reconnect : Places \cup {Nowhere}]
Strips == Seq(Tabs)

\* The sessions: well typed, one to a place, each of a saved connection.
Held ==
    /\ made \in Nat
    /\ sessions \in [DOMAIN sessions -> SessionRecords]
    /\ DOMAIN sessions \subseteq 1..made
    /\ OneSessionPerPlace
    /\ \A n \in DOMAIN sessions : sessions[n].place[1] \in DOMAIN connections

Saved == connections \in [DOMAIN connections -> Databases] /\ DOMAIN connections \subseteq Servers

\* A strip whose tabs point at sessions of `held', or at none.
Sound(strip, held) ==
    strip \in Strips /\ \A i \in DOMAIN strip : strip[i].session \in DOMAIN held \cup {0}

\* The strip and the tab in front.
Stripped ==
    /\ Sound(tabs, sessions) /\ Len(tabs) <= MaxTabs
    /\ active_tab \in DOMAIN tabs \cup {0} /\ (active_tab = 0) = (tabs = <<>>)

\* What the window describes.
Described ==
    /\ session \in DOMAIN sessions \cup {0} /\ elsewhere \in BOOLEAN
    /\ CompletesAgainstItsOwn /\ FrontTabIsTheWindows

\* What is written down is the strip, or nothing was since the first launch.
SameKinds(state, strip) ==
    Len(state.tabs) = Len(strip) /\ \A i \in DOMAIN strip : state.tabs[i][1] = strip[i].kind
Recorded ==
    /\ saved \in States
    /\ SameKinds(saved, tabs) \/ (tabs = Samples /\ DOMAIN sessions = {})

IInv == Saved /\ Held /\ Stripped /\ Described /\ Recorded
-----------------------------------------------------------------------------
LEMMA Least == ASSUME NEW S \in SUBSET Nat, S # {} PROVE Smallest(S) \in S
<1>1. PICK n \in S : \A m \in S : <<m, n>> \notin OpToRel(<, Nat)
  BY WFMin, NatLessThanWellFounded
<1>2. \A m \in S : ~(m < n)
  BY <1>1, Zenon DEF OpToRel
<1>3. \A m \in S : n <= m
  BY <1>2
<1> QED BY <1>3 DEF Smallest

LEMMA PlaceIsSomewhere == \A place \in Places : place # Nowhere /\ place[1] \in Servers /\ place[2] \in Databases
BY DEF Places, Nowhere

\* The session for a place: at it, among the sessions, and all others as they were.
Keeps(held, later) ==
    \A n \in DOMAIN held : /\ n \in DOMAIN later
                           /\ later[n].place = held[n].place
                           /\ later[n].snapshot = held[n].snapshot

LEMMA SessionForHolds ==
    ASSUME Held, NEW place \in Places, place[1] \in DOMAIN connections',
           DOMAIN connections \subseteq DOMAIN connections', SessionFor(place)
    PROVE  /\ Held' /\ Keeps(sessions, sessions')
           /\ Handed(place) \in DOMAIN sessions' \ {0} /\ sessions'[Handed(place)].place = place
<1>1. CASE OpenOn(place) = {}
  <2> DEFINE new == [place |-> place, state |-> "connecting", snapshot |-> Nowhere]
  <2>1. made' = made + 1 /\ sessions' = With(sessions, made + 1, new) /\ Handed(place) = made + 1
    BY <1>1 DEF SessionFor, Handed
  <2>2. new \in SessionRecords
    BY DEF SessionRecords
  <2>3. made \in Nat /\ made + 1 \notin DOMAIN sessions
    BY DEF Held
  <2>4. /\ DOMAIN sessions' = DOMAIN sessions \cup {made + 1}
        /\ sessions'[made + 1] = new
        /\ \A n \in DOMAIN sessions : sessions'[n] = sessions[n]
        /\ sessions' \in [DOMAIN sessions' -> SessionRecords]
    BY <2>1, <2>2, <2>3 DEF With, Held
  <2>5. \A n \in DOMAIN sessions : sessions[n].place # place
    BY <1>1 DEF OpenOn
  <2>6. OneSessionPerPlace'
    BY <2>4, <2>5 DEF OneSessionPerPlace, Held
  <2>7. DOMAIN sessions' \subseteq 1..made' /\ made' \in Nat
    BY <2>1, <2>3, <2>4 DEF Held
  <2>8. \A n \in DOMAIN sessions' : sessions'[n].place[1] \in DOMAIN connections'
    BY <2>4 DEF Held
  <2> QED BY <2>1, <2>3, <2>4, <2>6, <2>7, <2>8 DEF Held, Keeps
<1>2. CASE OpenOn(place) # {}
  <2>1. PICK n \in DOMAIN sessions : sessions[n].place = place
    BY <1>2 DEF OpenOn
  <2>2. OpenOn(place) = {n} /\ n \in Nat \ {0}
    BY <2>1 DEF OpenOn, Held, OneSessionPerPlace
  <2>3. Handed(place) = n
    BY <2>2, Least, <1>2 DEF Handed
  <2>4. /\ made' = made
        /\ sessions' = [sessions EXCEPT ![n].state = IF @ = "failed" THEN "connecting" ELSE @]
    BY <1>2, <2>3 DEF SessionFor
  <2>5. /\ DOMAIN sessions' = DOMAIN sessions
        /\ \A m \in DOMAIN sessions : /\ sessions'[m].place = sessions[m].place
                                      /\ sessions'[m].snapshot = sessions[m].snapshot
        /\ sessions' \in [DOMAIN sessions -> SessionRecords]
    BY <2>1, <2>4 DEF Held, SessionRecords
  <2>6. OneSessionPerPlace'
    BY <2>5 DEF Held, OneSessionPerPlace
  <2>7. Held'
    BY <2>4, <2>5, <2>6 DEF Held
  <2> QED BY <2>1, <2>2, <2>3, <2>5, <2>7 DEF Keeps
<1> QED BY <1>1, <1>2

\* What is on show follows the session the window is given.
SnapOf(held, n) == IF n = 0 THEN Nowhere ELSE held[n].snapshot

LEMMA AdoptShows ==
    ASSUME Keeps(sessions, sessions'), NEW at \in DOMAIN sessions \cup {0},
           NEW n \in DOMAIN sessions' \cup {0}, 0 \notin DOMAIN sessions,
           Adopt(at, SnapOf(sessions, at), n)
    PROVE  session' = n /\ CompletesAgainstItsOwn'
BY DEF Keeps, Adopt, Shown, SnapOf, CompletesAgainstItsOwn

\* A strip with one tab put in place of another.
Put(strip, i, tab) == [strip EXCEPT ![i] = tab]

LEMMA PutIsSound ==
    ASSUME NEW strip, NEW held, NEW later, Sound(strip, held), NEW i \in DOMAIN strip,
           DOMAIN held \subseteq DOMAIN later, NEW tab \in Tabs, tab.session \in DOMAIN later \cup {0}
    PROVE  /\ Sound(Put(strip, i, tab), later)
           /\ DOMAIN Put(strip, i, tab) = DOMAIN strip /\ Len(Put(strip, i, tab)) = Len(strip)
<1> DEFINE put == [strip EXCEPT ![i] = tab]
<1>1. strip \in Seq(Tabs)
  BY DEF Sound, Strips
<1>2. put \in Seq(Tabs) /\ DOMAIN put = DOMAIN strip /\ Len(put) = Len(strip)
  BY <1>1
<1>3. put[i] = tab /\ \A j \in DOMAIN strip : j # i => put[j] = strip[j]
  BY <1>1
<1>4. \A j \in DOMAIN put : put[j].session \in DOMAIN later \cup {0}
  BY <1>2, <1>3 DEF Sound
<1> QED BY <1>2, <1>4 DEF Sound, Strips, Put

LEMMA TabIsTyped ==
    ASSUME NEW kind \in Kinds, NEW n \in Nat, NEW place \in Places \cup {Nowhere}
    PROVE  /\ Tab(kind, n, place) \in Tabs
           /\ Tab(kind, n, place).session = n /\ Tab(kind, n, place).kind = kind
BY DEF Tab, Tabs

LEMMA PointedIsSound ==
    ASSUME NEW strip, NEW held, NEW later, Sound(strip, held), NEW i \in DOMAIN strip,
           DOMAIN held \subseteq DOMAIN later, NEW n \in DOMAIN later \cup {0}, n \in Nat
    PROVE  /\ Sound(Pointed(strip, i, n), later)
           /\ DOMAIN Pointed(strip, i, n) = DOMAIN strip
           /\ Len(Pointed(strip, i, n)) = Len(strip)
<1>1. strip[i] \in Tabs
  BY DEF Sound, Strips
<1>2. strip[i].kind \in Kinds /\ strip[i].reconnect \in Places \cup {Nowhere}
  BY <1>1 DEF Tabs
<1>3. Pointed(strip, i, n) = Put(strip, i, Tab(strip[i].kind, n, strip[i].reconnect))
  BY DEF Pointed, Put
<1> QED BY <1>2, <1>3, PutIsSound, TabIsTyped

LEMMA MoreIsSound ==
    ASSUME NEW strip, NEW held, Sound(strip, held), NEW kind \in Kinds,
           NEW n \in DOMAIN held \cup {0}, n \in Nat
    PROVE  /\ Sound(Append(strip, Tab(kind, n, Nowhere)), held)
           /\ Len(Append(strip, Tab(kind, n, Nowhere))) = Len(strip) + 1
           /\ \A i \in DOMAIN strip : Append(strip, Tab(kind, n, Nowhere))[i] = strip[i]
           /\ Append(strip, Tab(kind, n, Nowhere))[Len(strip) + 1] = Tab(kind, n, Nowhere)
           /\ Append(strip, Tab(kind, n, Nowhere)) # <<>>
           /\ DOMAIN strip \cup {Len(strip) + 1} = DOMAIN Append(strip, Tab(kind, n, Nowhere))
<1>1. strip \in Seq(Tabs) /\ Tab(kind, n, Nowhere) \in Tabs /\ Tab(kind, n, Nowhere).session = n
  BY DEF Sound, Strips, Tab, Tabs
<1> DEFINE tab == Tab(kind, n, Nowhere)
<1>2. DOMAIN strip = 1..Len(strip) /\ Len(strip) \in Nat
  BY <1>1
<1> HIDE DEF tab
<1>3. strip \in Seq(Tabs) /\ tab \in Tabs
  BY <1>1 DEF tab
<1>4. /\ Append(strip, tab) \in Seq(Tabs)
      /\ Len(Append(strip, tab)) = Len(strip) + 1
      /\ \A i \in DOMAIN strip : Append(strip, tab)[i] = strip[i]
      /\ Append(strip, tab)[Len(strip) + 1] = tab
  BY <1>2, <1>3
<1>5. DOMAIN Append(strip, tab) = 1..(Len(strip) + 1)
  BY <1>2, <1>4
<1>6. Append(strip, tab) # <<>> /\ DOMAIN Append(strip, tab) = DOMAIN strip \cup {Len(strip) + 1}
  BY <1>2, <1>4, <1>5
<1>7. Sound(Append(strip, tab), held)
  BY <1>1, <1>2, <1>4, <1>6 DEF Sound, Strips, tab
<1> QED BY <1>4, <1>6, <1>7 DEF tab

\* What a strip is written as can be read back.
LEMMA PlaceIsTyped ==
    ASSUME NEW held, held \in [DOMAIN held -> SessionRecords], NEW strip, Sound(strip, held),
           NEW i \in DOMAIN strip
    PROVE  /\ PlaceIn(held, strip[i]) \in Places \cup {Nowhere}
           /\ strip[i].session = 0 => PlaceIn(held, strip[i]) = strip[i].reconnect
<1>1. strip[i] \in Tabs /\ strip[i].session \in DOMAIN held \cup {0}
  BY DEF Sound, Strips
<1>2. strip[i].reconnect \in Places \cup {Nowhere}
  BY <1>1 DEF Tabs
<1>3. CASE strip[i].session # 0
  <2>1. held[strip[i].session] \in SessionRecords
    BY <1>1, <1>3
  <2>2. held[strip[i].session].place \in Places
    BY <2>1 DEF SessionRecords
  <2> QED BY <1>3, <2>2 DEF PlaceIn
<1> QED BY <1>2, <1>3 DEF PlaceIn

LEMMA WrittenDownIsState ==
    ASSUME NEW strip, NEW held, NEW front \in DOMAIN strip \cup {0}, NEW n \in DOMAIN held \cup {0},
           held \in [DOMAIN held -> SessionRecords], 0 \notin DOMAIN held,
           Sound(strip, held), Len(strip) <= MaxTabs, (front = 0) = (strip = <<>>)
    PROVE  /\ WrittenDown(strip, front, held, n) \in States
           /\ SameKinds(WrittenDown(strip, front, held, n), strip)
<1> DEFINE w == WrittenDown(strip, front, held, n)
<1> DEFINE pair(i) == <<strip[i].kind, PlaceIn(held, strip[i])>>
<1> DEFINE Pairs == {"Query", "Table"} \X (Places \cup {Nowhere})
<1>1. strip \in Seq(Tabs) /\ Len(strip) \in Nat /\ DOMAIN strip = 1..Len(strip)
  BY DEF Sound, Strips
<1>2. \A i \in DOMAIN strip : pair(i) \in Pairs
  <2> SUFFICES ASSUME NEW i \in DOMAIN strip PROVE pair(i) \in Pairs
    OBVIOUS
  <2>1. strip[i] \in Tabs
    BY <1>1
  <2>2. strip[i].kind \in Kinds
    BY <2>1 DEF Tabs
  <2> QED BY <2>2, PlaceIsTyped DEF Kinds
<1>3. w.tabs = [i \in 1..Len(strip) |-> pair(i)]
  BY <1>1 DEF WrittenDown
<1>4. w.tabs \in Seq(Pairs) /\ Len(w.tabs) = Len(strip)
  <2> HIDE DEF Pairs, pair
  <2> QED BY <1>1, <1>2, <1>3
<1>5. \A i \in DOMAIN strip : w.tabs[i][1] = strip[i].kind
  BY <1>1, <1>3
<1>6. w.active = front /\ front \in Nat
  BY <1>1 DEF WrittenDown
<1>7. w.place \in Places \cup {Nowhere}
  <2>1. CASE n # 0
    <3>1. held[n] \in SessionRecords
      BY <2>1
    <3> QED BY <2>1, <3>1 DEF WrittenDown, SessionRecords
  <2> QED BY <2>1 DEF WrittenDown
<1>8. w = [tabs |-> w.tabs, active |-> w.active, place |-> w.place]
  BY DEF WrittenDown
<1>9. w \in [tabs : Seq(Pairs), active : Nat, place : Places \cup {Nowhere}]
  <2> HIDE DEF Pairs, w
  <2> QED BY <1>4, <1>6, <1>7, <1>8
<1>10. DOMAIN w.tabs = DOMAIN strip /\ (w.tabs = <<>>) = (strip = <<>>)
  <2> HIDE DEF Pairs, w
  <2> QED BY <1>1, <1>4
<1>11. w \in States
  <2> HIDE DEF w
  <2> QED BY <1>4, <1>6, <1>9, <1>10 DEF States
<1> QED BY <1>4, <1>5, <1>11 DEF SameKinds

LEMMA SaveRecords ==
    ASSUME Held', Stripped', Described', Save PROVE Recorded'
<1>1. 0 \notin DOMAIN sessions'
  BY DEF Held
<1>2. saved' \in States /\ SameKinds(saved', tabs')
  BY <1>1, WrittenDownIsState DEF Save, Held, Stripped, Described
<1> QED BY <1>2 DEF Recorded
-----------------------------------------------------------------------------
\* What a handler leaves behind: sessions, a strip and a window that are sound.
Intact ==
    /\ Held' /\ Stripped' /\ Described' /\ Keeps(sessions, sessions') /\ DOMAIN sessions \subseteq DOMAIN sessions'

\* A place stays the place of whatever tab has it.
SamePlace(before, after) ==
    PlaceIn(sessions, before) # Nowhere /\ PlaceIn(sessions, before)[1] \in DOMAIN connections
       => PlaceIn(sessions', after) = PlaceIn(sessions, before)

LEMMA KeptPlaces ==
    ASSUME Keeps(sessions, sessions'), NEW tab, tab.session \in DOMAIN sessions \cup {0}
    PROVE  PlaceIn(sessions', tab) = PlaceIn(sessions, tab)
BY DEF Keeps, PlaceIn

\* The lemma about a tab of `strip' being pointed at a place.
LEMMA BindHolds ==
    ASSUME Held, NEW place \in Places, place[1] \in DOMAIN connections',
           DOMAIN connections \subseteq DOMAIN connections',
           session \in DOMAIN sessions \cup {0}, CompletesAgainstItsOwn,
           NEW strip, Sound(strip, sessions), Len(strip) <= MaxTabs,
           NEW front \in DOMAIN strip \cup {0}, (front = 0) = (strip = <<>>),
           Bind(strip, front, place)
    PROVE  /\ Intact /\ active_tab' = front
           /\ DOMAIN tabs' = DOMAIN strip /\ Len(tabs') = Len(strip)
           /\ \A i \in DOMAIN strip : i # front => tabs'[i] = strip[i]
<1> DEFINE n == Handed(place)
<1>1. SessionFor(place) /\ active_tab' = front /\ elsewhere' = FALSE
  BY DEF Bind
<1>2. /\ Held' /\ Keeps(sessions, sessions')
      /\ n \in DOMAIN sessions' \ {0} /\ sessions'[n].place = place
  BY <1>1, SessionForHolds
<1>3. DOMAIN sessions \subseteq DOMAIN sessions'
  BY <1>2 DEF Keeps
<1>4. 0 \notin DOMAIN sessions /\ n \in Nat
  BY <1>2 DEF Held
<1>5. catalog = SnapOf(sessions, session)
  BY DEF CompletesAgainstItsOwn, SnapOf
<1>6. Adopt(session, SnapOf(sessions, session), n)
  BY <1>5 DEF Bind
<1>7. session' = n /\ CompletesAgainstItsOwn'
  BY <1>2, <1>4, <1>6, AdoptShows
<1>8. strip \in Seq(Tabs)
  BY DEF Sound, Strips
<1>9. CASE front = 0
  <2>1. tabs' = strip /\ strip = <<>>
    BY <1>9 DEF Bind
  <2>2. Sound(tabs', sessions') /\ active_tab' = 0
    BY <1>1, <1>8, <1>9, <2>1 DEF Sound, Strips
  <2>3. Stripped'
    BY <1>8, <2>1, <2>2 DEF Stripped
  <2>4. Described'
    BY <1>1, <1>2, <1>7, <2>2 DEF Described, FrontTabIsTheWindows
  <2> QED BY <1>1, <1>2, <1>3, <2>1, <2>3, <2>4 DEF Intact
<1>10. CASE front # 0
  <2>1. tabs' = Pointed(strip, front, n) /\ front \in DOMAIN strip
    BY <1>10 DEF Bind
  <2>2. Sound(tabs', sessions') /\ DOMAIN tabs' = DOMAIN strip /\ Len(tabs') = Len(strip)
    BY <1>2, <1>3, <1>4, <2>1, PointedIsSound
  <2>3. tabs'[front].session = n /\ \A i \in DOMAIN strip : i # front => tabs'[i] = strip[i]
    BY <1>8, <2>1 DEF Pointed, Tab
  <2>4. tabs' # <<>>
    BY <1>8, <2>1, <2>2
  <2>5. Stripped'
    BY <1>1, <1>10, <2>1, <2>2, <2>4 DEF Stripped
  <2>6. Described'
    BY <1>1, <1>2, <1>7, <2>3 DEF Described, FrontTabIsTheWindows, Here
  <2> QED BY <1>1, <1>2, <1>3, <2>2, <2>3, <2>5, <2>6 DEF Intact
<1> QED BY <1>9, <1>10

\* The lemma about a tab of `strip' being shown in a window that describes `at'.
LEMMA AdoptTabHolds ==
    ASSUME Held, UNCHANGED connections, NEW at \in DOMAIN sessions \cup {0},
           NEW strip, Sound(strip, sessions), Len(strip) <= MaxTabs, NEW i \in DOMAIN strip,
           AdoptTab(strip, i, at, SnapOf(sessions, at))
    PROVE  /\ Intact /\ active_tab' = i
           /\ DOMAIN tabs' = DOMAIN strip /\ Len(tabs') = Len(strip)
           /\ \A j \in DOMAIN strip :
                 /\ tabs'[j].kind = strip[j].kind
                 /\ SamePlace(strip[j], tabs'[j])
<1> DEFINE tab == strip[i]
<1> DEFINE known == tab.reconnect # Nowhere /\ tab.reconnect[1] \in DOMAIN connections
<1> DEFINE Given(n) == Put(strip, i, Tab(tab.kind, n, Nowhere))
<1>1. active_tab' = i /\ elsewhere' = FALSE
  BY DEF AdoptTab
<1>2. strip \in Seq(Tabs) /\ strip # <<>> /\ i # 0 /\ i \in Nat /\ DOMAIN strip = 1..Len(strip)
  BY DEF Sound, Strips
<1>3. tab \in Tabs /\ \A j \in DOMAIN strip : strip[j].session \in DOMAIN sessions \cup {0}
  BY <1>2 DEF Sound
<1>4. tab.kind \in Kinds /\ tab.reconnect \in Places \cup {Nowhere}
  BY <1>3 DEF Tabs
<1>5. 0 \notin DOMAIN sessions /\ DOMAIN sessions \subseteq Nat /\ at \in Nat
  BY DEF Held
<1>6. SUFFICES /\ Held' /\ Keeps(sessions, sessions') /\ Sound(tabs', sessions')
               /\ DOMAIN tabs' = DOMAIN strip /\ Len(tabs') = Len(strip)
               /\ session' \in DOMAIN sessions' \cup {0} /\ CompletesAgainstItsOwn'
               /\ tabs'[i].session = session'
               /\ \A j \in DOMAIN strip : /\ tabs'[j].kind = strip[j].kind
                                          /\ SamePlace(strip[j], tabs'[j])
  <2>1. DOMAIN sessions \subseteq DOMAIN sessions'
    BY <1>6 DEF Keeps
  <2>2. tabs' \in Seq(Tabs)
    BY <1>6 DEF Sound, Strips
  <2>3. tabs' # <<>>
    BY <1>2, <1>6, <2>2
  <2>4. Stripped'
    BY <1>1, <1>2, <1>6, <2>3 DEF Stripped
  <2>5. Described'
    BY <1>1, <1>2, <1>6 DEF Described, FrontTabIsTheWindows, Here
  <2> QED BY <1>1, <1>6, <2>1, <2>4, <2>5 DEF Intact
<1>7. CASE tab.session # 0
  <2>1. tabs' = strip /\ UNCHANGED <<sessions, made>> /\ Adopt(at, SnapOf(sessions, at), tab.session)
    BY <1>7 DEF AdoptTab
  <2>2. Held' /\ Keeps(sessions, sessions')
    BY <2>1 DEF Held, OneSessionPerPlace, Keeps
  <2>3. session' = tab.session /\ CompletesAgainstItsOwn'
    BY <1>3, <1>5, <2>1, <2>2, AdoptShows
  <2>4. \A j \in DOMAIN strip : PlaceIn(sessions', tabs'[j]) = PlaceIn(sessions, strip[j])
    BY <2>1
  <2> QED BY <1>3, <2>1, <2>2, <2>3, <2>4 DEF Sound, SamePlace
<1>8. ASSUME NEW n \in DOMAIN sessions' \cup {0}, n \in Nat, tabs' = Given(n),
             Keeps(sessions, sessions')
      PROVE  /\ Sound(tabs', sessions') /\ DOMAIN tabs' = DOMAIN strip /\ Len(tabs') = Len(strip)
             /\ tabs'[i].session = n /\ \A j \in DOMAIN strip : tabs'[j].kind = strip[j].kind
             /\ \A j \in DOMAIN strip \ {i} : SamePlace(strip[j], tabs'[j])
  <2>1. DOMAIN sessions \subseteq DOMAIN sessions'
    BY <1>8 DEF Keeps
  <2>2. Sound(Given(n), sessions') /\ DOMAIN Given(n) = DOMAIN strip /\ Len(Given(n)) = Len(strip)
    <3>1. tab.kind \in Kinds /\ Nowhere \in Places \cup {Nowhere} /\ n \in DOMAIN sessions' \cup {0} /\ n \in Nat
      BY <1>4, <1>8
    <3> QED BY <1>8, <2>1, <3>1, PutIsSound, TabIsTyped
  <2>3. tabs'[i] = Tab(tab.kind, n, Nowhere) /\ \A j \in DOMAIN strip \ {i} : tabs'[j] = strip[j]
    BY <1>2, <1>8 DEF Put
  <2>4. tabs'[i].session = n /\ tabs'[i].kind = tab.kind
    BY <2>3 DEF Tab
  <2>5. \A j \in DOMAIN strip \ {i} : PlaceIn(sessions', tabs'[j]) = PlaceIn(sessions, strip[j])
    BY <1>3, <1>8, <2>3, KeptPlaces
  <2> QED BY <1>8, <2>2, <2>3, <2>4, <2>5 DEF SamePlace
<1>9. CASE tab.session = 0 /\ known
  <2> DEFINE n == Handed(tab.reconnect)
  <2>1. /\ SessionFor(tab.reconnect) /\ tabs' = Given(n) /\ Adopt(at, SnapOf(sessions, at), n)
    BY <1>9 DEF AdoptTab, Put
  <2>2. tab.reconnect \in Places
    BY <1>4, <1>9
  <2>3. /\ Held' /\ Keeps(sessions, sessions') /\ n \in DOMAIN sessions' \ {0}
        /\ sessions'[n].place = tab.reconnect
    BY <1>9, <2>1, <2>2, SessionForHolds
  <2>4. session' = n /\ CompletesAgainstItsOwn'
    BY <1>5, <2>1, <2>3, AdoptShows
  <2>5. n \in Nat
    BY <2>3 DEF Held
  <2>6. tabs'[i].session = n /\ PlaceIn(sessions', tabs'[i]) = tab.reconnect
    BY <1>8, <2>1, <2>3, <2>5 DEF PlaceIn
  <2>7. SamePlace(strip[i], tabs'[i])
    BY <1>9, <2>6 DEF SamePlace, PlaceIn
  <2> QED BY <1>8, <2>1, <2>3, <2>4, <2>5, <2>7
<1>10. CASE tab.session = 0 /\ ~known
  <2>1. /\ UNCHANGED <<sessions, made>> /\ tabs' = Given(at) /\ Adopt(at, SnapOf(sessions, at), at)
    BY <1>10 DEF AdoptTab, Put
  <2>2. Held' /\ Keeps(sessions, sessions')
    BY <2>1 DEF Held, OneSessionPerPlace, Keeps
  <2>3. session' = at /\ CompletesAgainstItsOwn'
    BY <1>5, <2>1, <2>2, AdoptShows
  <2>4. SamePlace(strip[i], tabs'[i])
    BY <1>10 DEF SamePlace, PlaceIn
  <2> QED BY <1>5, <1>8, <2>1, <2>2, <2>3, <2>4
<1> QED BY <1>7, <1>9, <1>10
-----------------------------------------------------------------------------
\* No tab but the one in front is pointed elsewhere.
Kept ==
    \A i \in DOMAIN tabs :
        i \in DOMAIN tabs' /\ (SamePlace(tabs[i], tabs'[i]) \/ (i = active_tab /\ i = active_tab'))

LEMMA ServedPlaces == \A s \in Servers, d \in Databases : <<s, d>> \in Places /\ <<s, d>>[1] = s
BY DEF Places

\* What IInv says of the sessions before a step, for citing.
LEMMA Plain ==
    ASSUME IInv
    PROVE  /\ Held /\ session \in DOMAIN sessions \cup {0} /\ CompletesAgainstItsOwn
           /\ Sound(tabs, sessions) /\ Len(tabs) <= MaxTabs /\ Len(tabs) \in Nat
           /\ active_tab \in DOMAIN tabs \cup {0} /\ (active_tab = 0) = (tabs = <<>>)
           /\ session \in Nat /\ 0 \notin DOMAIN sessions
           /\ catalog = SnapOf(sessions, session)
           /\ \A i \in DOMAIN tabs : tabs[i].session \in DOMAIN sessions \cup {0}
<1>1. tabs \in Seq(Tabs)
  BY DEF IInv, Stripped, Sound, Strips
<1>2. Len(tabs) \in Nat
  BY <1>1
<1>3. session \in Nat /\ 0 \notin DOMAIN sessions
  BY DEF IInv, Held, Described
<1> QED BY <1>2, <1>3 DEF IInv, Stripped, Described, CompletesAgainstItsOwn, SnapOf, Sound

LEMMA OthersKept ==
    ASSUME IInv, Keeps(sessions, sessions'),
           \A i \in DOMAIN tabs : i \in DOMAIN tabs' /\ ((i = active_tab /\ i = active_tab') \/ tabs'[i] = tabs[i])
    PROVE  Kept
<1>1. \A i \in DOMAIN tabs : PlaceIn(sessions', tabs[i]) = PlaceIn(sessions, tabs[i])
  BY KeptPlaces, Plain
<1>2. \A i \in DOMAIN tabs : tabs'[i] = tabs[i] => SamePlace(tabs[i], tabs'[i])
  BY <1>1 DEF SamePlace
<1> QED BY <1>2 DEF Kept

LEMMA MovesHold ==
    ASSUME IInv, NEW place \in Places, place[1] \in DOMAIN connections',
           DOMAIN connections \subseteq DOMAIN connections', OpenConnectionWith(place)
    PROVE  Intact /\ Save /\ Kept
<1> DEFINE foreign == Here # 0 /\ sessions[Here].place[1] # place[1]
<1> DEFINE more == Append(tabs, Tab("Query", session, Nowhere))
<1>1. CASE foreign
  <2>1. Len(tabs) < MaxTabs /\ Bind(more, Len(tabs) + 1, place) /\ Save
    BY <1>1 DEF OpenConnectionWith
  <2>2. /\ Sound(more, sessions) /\ Len(more) = Len(tabs) + 1 /\ more # <<>>
        /\ \A i \in DOMAIN tabs : more[i] = tabs[i]
        /\ DOMAIN more = DOMAIN tabs \cup {Len(tabs) + 1}
    <3>1. "Query" \in Kinds
      BY DEF Kinds
    <3> QED BY <3>1, Plain, MoreIsSound
  <2>3. Len(more) <= MaxTabs /\ Len(tabs) + 1 # 0
    BY <2>1, <2>2, Plain, ConnectionsAssumption
  <2>4. /\ Intact /\ DOMAIN tabs' = DOMAIN more
        /\ \A i \in DOMAIN more : i # Len(tabs) + 1 => tabs'[i] = more[i]
    <3> HIDE DEF more
    <3> QED BY <2>1, <2>2, <2>3, Plain, BindHolds
  <2>5. Len(tabs) + 1 \notin DOMAIN tabs
    <3>1. tabs \in Seq(Tabs)
      BY DEF IInv, Stripped, Sound, Strips
    <3> QED BY <3>1
  <2>6. Kept
    BY <2>2, <2>4, <2>5, OthersKept DEF Intact
  <2> QED BY <2>1, <2>4, <2>6
<1>2. CASE ~foreign
  <2>1. Bind(tabs, active_tab, place) /\ Save
    BY <1>2 DEF OpenConnectionWith
  <2>2. /\ Intact /\ active_tab' = active_tab /\ DOMAIN tabs' = DOMAIN tabs
        /\ \A i \in DOMAIN tabs : i # active_tab => tabs'[i] = tabs[i]
    BY <2>1, Plain, BindHolds
  <2>3. Kept
    BY <2>2, OthersKept DEF Intact
  <2> QED BY <2>1, <2>2, <2>3
<1> QED BY <1>1, <1>2

\* A step that is written down keeps the invariant.
LEMMA WrittenIsKept ==
    ASSUME Intact, Save, Saved' PROVE IInv'
BY SaveRecords DEF Intact, IInv

LEMMA SavedStays == ASSUME IInv, UNCHANGED connections PROVE Saved'
BY DEF IInv, Saved

\* The window alone moves to a session.
LEMMA OnlyMoves ==
    ASSUME IInv, UNCHANGED <<connections, sessions, made, tabs, active_tab, saved>>,
           NEW n \in DOMAIN sessions, Adopt(session, catalog, n), elsewhere' = TRUE
    PROVE  IInv' /\ Kept
<1>1. Keeps(sessions, sessions') /\ Held' /\ Stripped' /\ Saved' /\ Recorded'
  <2>1. Held'
    BY DEF IInv, Held, OneSessionPerPlace
  <2>2. Keeps(sessions, sessions')
    BY DEF Keeps
  <2>3. Stripped'
    BY DEF IInv, Stripped, Sound
  <2>4. Saved' /\ Recorded'
    BY DEF IInv, Saved, Recorded
  <2> QED BY <2>1, <2>2, <2>3, <2>4
<1>2. session' = n /\ CompletesAgainstItsOwn'
  BY <1>1, Plain, AdoptShows
<1>3. Described'
  BY <1>2 DEF Described, FrontTabIsTheWindows
<1>4. Kept
  BY <1>1, OthersKept
<1> QED BY <1>1, <1>3, <1>4 DEF IInv

LEMMA OnIsOpen ==
    ASSUME IInv, NEW server, On(server) # {} PROVE Smallest(On(server)) \in On(server)
<1>1. On(server) \in SUBSET Nat
  BY DEF IInv, Held, On
<1> QED BY <1>1, Least

LEMMA OriginIsOpen ==
    ASSUME IInv, NEW place, OpenOn(place) # {} \/ On(place[1]) # {}
    PROVE  /\ Origin(place) \in DOMAIN sessions
           /\ OpenOn(place) # {} => sessions[Origin(place)].place = place
           /\ sessions[Origin(place)].place[1] = place[1]
<1>1. CASE OpenOn(place) # {}
  <2>1. Smallest(OpenOn(place)) \in OpenOn(place)
    BY <1>1, Least DEF IInv, Held, OpenOn
  <2> QED BY <1>1, <2>1 DEF Origin, OpenOn
<1>2. CASE OpenOn(place) = {}
  BY <1>2, OnIsOpen DEF Origin, On
<1> QED BY <1>1, <1>2
-----------------------------------------------------------------------------
LEMMA OpenConnectionHolds ==
    ASSUME IInv, NEW server \in Servers, OpenConnection(server)
    PROVE  IInv' /\ Kept
<1> DEFINE place == <<server, connections[server]>>
<1>1. /\ server \in DOMAIN connections /\ UNCHANGED connections
      /\ OpenConnectionWith(place)
  BY DEF OpenConnection
<1>2. place \in Places /\ place[1] \in DOMAIN connections'
  BY <1>1, ServedPlaces DEF IInv, Saved
<1>3. Intact /\ Save /\ Kept
  BY <1>1, <1>2, MovesHold
<1> QED BY <1>1, <1>3, SavedStays, WrittenIsKept

LEMMA PaletteConnectionHolds ==
    ASSUME IInv, NEW server \in Servers, PaletteConnection(server)
    PROVE  IInv' /\ Kept
<1> DEFINE place == <<server, connections[server]>>
<1>1. server \in DOMAIN connections /\ UNCHANGED connections
  BY DEF PaletteConnection
<1>2. CASE On(server) # {}
  <2>1. /\ UNCHANGED <<sessions, made, tabs, active_tab, saved>>
        /\ Adopt(session, catalog, Smallest(On(server))) /\ elsewhere' = TRUE
    BY <1>2 DEF PaletteConnection
  <2>2. Smallest(On(server)) \in DOMAIN sessions
    BY <1>2, OnIsOpen DEF On
  <2> QED BY <1>1, <2>1, <2>2, OnlyMoves
<1>3. CASE On(server) = {}
  <2>1. OpenConnectionWith(place)
    BY <1>3 DEF PaletteConnection
  <2>2. place \in Places /\ place[1] \in DOMAIN connections'
    BY <1>1, ServedPlaces DEF IInv, Saved
  <2>3. Intact /\ Save /\ Kept
    BY <1>1, <2>1, <2>2, MovesHold
  <2> QED BY <1>1, <2>3, SavedStays, WrittenIsKept
<1> QED BY <1>2, <1>3

LEMMA SaveConnectionHolds ==
    ASSUME IInv, NEW server \in Servers, NEW database \in Databases,
           SaveConnection(server, database)
    PROVE  IInv' /\ Kept
<1>1. /\ connections' = With(connections, server, database)
      /\ OpenConnectionWith(<<server, database>>)
  BY DEF SaveConnection
<1>2. /\ DOMAIN connections' = DOMAIN connections \cup {server} /\ Saved'
  BY <1>1 DEF With, Saved, IInv
<1>3. Intact /\ Save /\ Kept
  BY <1>1, <1>2, ServedPlaces, MovesHold
<1> QED BY <1>2, <1>3, WrittenIsKept

LEMMA OpenDatabaseHolds ==
    ASSUME IInv, NEW place \in Places, OpenDatabase(place)
    PROVE  IInv' /\ Kept
<1> DEFINE at == Origin(place)
<1> DEFINE more == Append(tabs, Tab("Query", at, Nowhere))
<1>1. UNCHANGED connections /\ On(place[1]) # {}
  BY DEF OpenDatabase
<1>2. at \in DOMAIN sessions /\ sessions[at].place[1] = place[1]
  BY <1>1, OriginIsOpen
<1>3. CASE OpenOn(place) # {}
  BY <1>1, <1>2, <1>3, OnlyMoves DEF OpenDatabase
<1>4. CASE OpenOn(place) = {}
  <2>1. Len(tabs) < MaxTabs /\ Bind(more, Len(tabs) + 1, place) /\ Save
    BY <1>4 DEF OpenDatabase
  <2>2. at \in Nat /\ place[1] \in DOMAIN connections
    BY <1>2 DEF IInv, Held
  <2>3. /\ Sound(more, sessions) /\ Len(more) = Len(tabs) + 1 /\ more # <<>>
        /\ \A i \in DOMAIN tabs : more[i] = tabs[i]
        /\ DOMAIN more = DOMAIN tabs \cup {Len(tabs) + 1}
    <3>1. "Query" \in Kinds
      BY DEF Kinds
    <3> QED BY <1>2, <2>2, <3>1, Plain, MoreIsSound
  <2>4. Len(more) <= MaxTabs /\ Len(tabs) + 1 # 0
    BY <2>1, <2>3, Plain, ConnectionsAssumption
  <2>5. /\ Intact /\ DOMAIN tabs' = DOMAIN more
        /\ \A i \in DOMAIN more : i # Len(tabs) + 1 => tabs'[i] = more[i]
    <3> HIDE DEF more
    <3> QED BY <1>1, <2>1, <2>2, <2>3, <2>4, Plain, BindHolds
  <2>6. Len(tabs) + 1 \notin DOMAIN tabs
    <3>1. tabs \in Seq(Tabs)
      BY DEF IInv, Stripped, Sound, Strips
    <3> QED BY <3>1
  <2>7. Kept
    BY <2>3, <2>5, <2>6, OthersKept DEF Intact
  <2> QED BY <1>1, <2>1, <2>5, <2>7, SavedStays, WrittenIsKept
<1> QED BY <1>3, <1>4

LEMMA SwitchDatabaseHolds ==
    ASSUME IInv, NEW database \in Databases, SwitchDatabase(database)
    PROVE  IInv' /\ Kept
<1> DEFINE place == <<sessions[session].place[1], database>>
<1>1. session # 0 /\ Bind(tabs, active_tab, place) /\ Save /\ UNCHANGED connections
  BY DEF SwitchDatabase
<1>2. session \in DOMAIN sessions /\ sessions[session].place[1] \in DOMAIN connections
  BY <1>1, Plain DEF Held
<1>3. place \in Places /\ place[1] \in DOMAIN connections'
  BY <1>1, <1>2, ServedPlaces DEF IInv, Saved
<1>4. /\ Intact /\ active_tab' = active_tab /\ DOMAIN tabs' = DOMAIN tabs
      /\ \A i \in DOMAIN tabs : i # active_tab => tabs'[i] = tabs[i]
  BY <1>1, <1>3, Plain, BindHolds
<1>5. Kept
  BY <1>4, OthersKept DEF Intact
<1> QED BY <1>1, <1>4, <1>5, SavedStays, WrittenIsKept
-----------------------------------------------------------------------------
LEMMA AdoptedIsKept ==
    ASSUME IInv, UNCHANGED connections, NEW at \in DOMAIN sessions \cup {0},
           NEW strip, Sound(strip, sessions), Len(strip) <= MaxTabs, NEW i \in DOMAIN strip,
           AdoptTab(strip, i, at, SnapOf(sessions, at)),
           \A j \in DOMAIN tabs : j \in DOMAIN strip /\ strip[j] = tabs[j]
    PROVE  Intact /\ Saved' /\ Kept
<1>1. Intact /\ DOMAIN tabs' = DOMAIN strip /\ \A j \in DOMAIN strip : SamePlace(strip[j], tabs'[j])
  BY Plain, AdoptTabHolds
<1>2. Kept
  BY <1>1 DEF Kept
<1> QED BY <1>1, <1>2, SavedStays

LEMMA NewQueryTabHolds ==
    ASSUME IInv, NewQueryTab PROVE IInv' /\ Kept
<1> DEFINE more == Append(tabs, Tab("Query", session, Nowhere))
<1>1. /\ UNCHANGED connections /\ Len(tabs) < MaxTabs /\ Save
      /\ AdoptTab(more, Len(tabs) + 1, session, catalog)
  BY DEF NewQueryTab
<1>2. /\ Sound(more, sessions) /\ Len(more) = Len(tabs) + 1
      /\ \A i \in DOMAIN tabs : more[i] = tabs[i]
      /\ DOMAIN more = DOMAIN tabs \cup {Len(tabs) + 1}
  <2>1. "Query" \in Kinds
    BY DEF Kinds
  <2> QED BY <2>1, Plain, MoreIsSound
<1>3. Len(more) <= MaxTabs /\ catalog = SnapOf(sessions, session)
  BY <1>1, <1>2, Plain, ConnectionsAssumption
<1>4. Intact /\ Saved' /\ Kept
  <2> HIDE DEF more
  <2> QED BY <1>1, <1>2, <1>3, Plain, AdoptedIsKept
<1> QED BY <1>1, <1>4, WrittenIsKept

LEMMA OpenRelationHolds ==
    ASSUME IInv, NEW place \in Places, OpenRelation(place)
    PROVE  IInv' /\ Kept
<1> DEFINE at == Origin(place)
<1> DEFINE more == Append(tabs, Tab("Table", at, Nowhere))
<1> DEFINE shown == Shown(sessions, session, catalog, at)
<1>1. UNCHANGED connections /\ OpenOn(place) # {} /\ Save
  BY DEF OpenRelation
<1>2. at \in DOMAIN sessions
  BY <1>1, OriginIsOpen
<1>3. at # 0 /\ at \in Nat
  BY <1>2, Plain DEF Held
<1>4. shown = SnapOf(sessions, at)
  BY <1>3, Plain DEF Shown, SnapOf
<1>5. CASE Reusable(at) # {}
  <2> DEFINE i == Smallest(Reusable(at))
  <2>1. AdoptTab(tabs, i, at, SnapOf(sessions, at))
    BY <1>4, <1>5 DEF OpenRelation
  <2>2. i \in DOMAIN tabs
    <3>1. DOMAIN tabs \subseteq Nat
      BY DEF IInv, Stripped, Sound, Strips
    <3>2. Reusable(at) \in SUBSET Nat /\ Reusable(at) \subseteq DOMAIN tabs
      BY <3>1 DEF Reusable
    <3> QED BY <1>5, <3>2, Least
  <2>3. Intact /\ Saved' /\ Kept
    BY <1>1, <1>2, <2>1, <2>2, Plain, AdoptedIsKept
  <2> QED BY <1>1, <2>3, WrittenIsKept
<1>6. CASE Reusable(at) = {}
  <2>1. Len(tabs) < MaxTabs /\ AdoptTab(more, Len(tabs) + 1, at, SnapOf(sessions, at))
    BY <1>4, <1>6 DEF OpenRelation
  <2>2. /\ Sound(more, sessions) /\ Len(more) = Len(tabs) + 1
        /\ \A i \in DOMAIN tabs : more[i] = tabs[i]
        /\ DOMAIN more = DOMAIN tabs \cup {Len(tabs) + 1}
    <3>1. "Table" \in Kinds
      BY DEF Kinds
    <3> QED BY <1>2, <1>3, <3>1, Plain, MoreIsSound
  <2>3. Len(more) <= MaxTabs
    BY <2>1, <2>2, Plain, ConnectionsAssumption
  <2>4. Intact /\ Saved' /\ Kept
    <3> HIDE DEF more, at
    <3> QED BY <1>1, <1>2, <2>1, <2>2, <2>3, Plain, AdoptedIsKept
  <2> QED BY <1>1, <2>4, WrittenIsKept
<1> QED BY <1>5, <1>6

\* The samples of a first launch are what they were until something is opened.
LEMMA SamplesStay ==
    ASSUME IInv, tabs = Samples, DOMAIN sessions = {}, NEW i \in DOMAIN tabs,
           AdoptTab(tabs, i, session, catalog)
    PROVE  tabs' = Samples /\ sessions' = sessions
<1>1. session = 0
  BY Plain
<1>2. tabs[i] = Tab(tabs[i].kind, 0, Nowhere) /\ tabs \in Seq(Tabs)
  BY DEF IInv, Stripped, Sound, Strips, Samples, Tab
<1>3. tabs[i].session = 0 /\ tabs[i].reconnect = Nowhere
  BY <1>2 DEF Tab
<1>4. tabs' = [tabs EXCEPT ![i] = Tab(tabs[i].kind, 0, Nowhere)] /\ sessions' = sessions
  BY <1>1, <1>3 DEF AdoptTab
<1>5. tabs' = tabs
  BY <1>2, <1>4
<1> QED BY <1>4, <1>5

LEMMA ShowTabHolds ==
    ASSUME IInv, NEW i \in DOMAIN tabs, NEW writes \in BOOLEAN,
           ShowTab(i, writes)
    PROVE  IInv' /\ Kept
<1>1. /\ AdoptTab(tabs, i, session, catalog) /\ UNCHANGED connections
      /\ IF writes THEN Save ELSE UNCHANGED saved
  BY DEF ShowTab
<1>2. AdoptTab(tabs, i, session, SnapOf(sessions, session))
  BY <1>1, Plain
<1>3. Intact /\ Saved' /\ Kept
  BY <1>1, <1>2, Plain, AdoptedIsKept
<1>4. Recorded'
  <2>1. CASE writes
    BY <1>1, <1>3, <2>1, SaveRecords DEF Intact
  <2>2. CASE ~writes
    <3>1. saved' = saved /\ saved \in States
      BY <1>1, <2>2 DEF IInv, Recorded
    <3>2. CASE SameKinds(saved, tabs)
      <4>1. /\ DOMAIN tabs' = DOMAIN tabs /\ Len(tabs') = Len(tabs)
            /\ \A j \in DOMAIN tabs : tabs'[j].kind = tabs[j].kind
        BY <1>1, <1>2, Plain, AdoptTabHolds
      <4>2. SameKinds(saved, tabs')
        BY <3>2, <4>1 DEF SameKinds
      <4> QED BY <3>1, <4>2 DEF Recorded
    <3>3. CASE tabs = Samples /\ DOMAIN sessions = {}
      <4>1. tabs' = Samples /\ sessions' = sessions
        BY <1>1, <3>3, SamplesStay
      <4> QED BY <3>1, <3>3, <4>1 DEF Recorded
    <3> QED BY <3>2, <3>3 DEF IInv, Recorded
  <2> QED BY <2>1, <2>2
<1> QED BY <1>3, <1>4 DEF Intact, IInv

\* A strip with one tab taken out.
LEMMA LeftIsSound ==
    ASSUME NEW strip, NEW held, Sound(strip, held), NEW i \in DOMAIN strip
    PROVE  LET left == SubSeq(strip, 1, i - 1) \o SubSeq(strip, i + 1, Len(strip))
           IN  /\ Sound(left, held) /\ Len(left) = Len(strip) - 1
               /\ DOMAIN left = 1..(Len(strip) - 1)
               /\ \A j \in DOMAIN left : left[j] = strip[IF j < i THEN j ELSE j + 1]
<1> DEFINE left == SubSeq(strip, 1, i - 1) \o SubSeq(strip, i + 1, Len(strip))
<1>1. strip \in Seq(Tabs) /\ Len(strip) \in Nat /\ i \in 1..Len(strip)
  BY DEF Sound, Strips
<1>2. /\ SubSeq(strip, 1, i - 1) \in Seq(Tabs) /\ Len(SubSeq(strip, 1, i - 1)) = i - 1
      /\ \A j \in 1..(i - 1) : SubSeq(strip, 1, i - 1)[j] = strip[j]
  BY <1>1
<1>3. /\ SubSeq(strip, i + 1, Len(strip)) \in Seq(Tabs)
      /\ Len(SubSeq(strip, i + 1, Len(strip))) = Len(strip) - i
      /\ \A j \in 1..(Len(strip) - i) : SubSeq(strip, i + 1, Len(strip))[j] = strip[i + j]
  BY <1>1
<1>4. left \in Seq(Tabs) /\ Len(left) = Len(strip) - 1 /\ DOMAIN left = 1..(Len(strip) - 1)
  <2> DEFINE before == SubSeq(strip, 1, i - 1)
  <2> DEFINE after == SubSeq(strip, i + 1, Len(strip))
  <2>1. before \in Seq(Tabs) /\ after \in Seq(Tabs) /\ Len(before) = i - 1 /\ Len(after) = Len(strip) - i
    BY <1>2, <1>3
  <2> HIDE DEF before, after
  <2>2. before \o after \in Seq(Tabs) /\ Len(before \o after) = Len(strip) - 1
    BY <1>1, <2>1
  <2>3. DOMAIN (before \o after) = 1..(Len(strip) - 1)
    BY <2>2
  <2> QED BY <2>2, <2>3 DEF before, after
<1>5. \A j \in DOMAIN left : left[j] = strip[IF j < i THEN j ELSE j + 1]
  <2> DEFINE before == SubSeq(strip, 1, i - 1)
  <2> DEFINE after == SubSeq(strip, i + 1, Len(strip))
  <2>1. before \in Seq(Tabs) /\ after \in Seq(Tabs) /\ Len(before) = i - 1 /\ Len(after) = Len(strip) - i
    BY <1>2, <1>3
  <2>2. /\ \A j \in 1..(i - 1) : before[j] = strip[j]
        /\ \A j \in 1..(Len(strip) - i) : after[j] = strip[i + j]
    BY <1>2, <1>3
  <2> HIDE DEF before, after
  <2> SUFFICES ASSUME NEW j \in 1..(Len(strip) - 1)
               PROVE  (before \o after)[j] = strip[IF j < i THEN j ELSE j + 1]
    BY <1>4 DEF before, after
  <2>3. (before \o after)[j] = IF j <= i - 1 THEN before[j] ELSE after[j - (i - 1)]
    BY <1>1, <2>1
  <2>4. CASE j < i
    BY <1>1, <2>2, <2>3, <2>4
  <2>5. CASE ~(j < i)
    <3>1. j - (i - 1) \in 1..(Len(strip) - i) /\ i + (j - (i - 1)) = j + 1
      BY <1>1, <2>5
    <3> QED BY <1>1, <2>2, <2>3, <2>5, <3>1
  <2> QED BY <2>4, <2>5
<1>6. \A j \in DOMAIN left : left[j].session \in DOMAIN held \cup {0}
  <2>1. \A j \in 1..(Len(strip) - 1) : (IF j < i THEN j ELSE j + 1) \in DOMAIN strip
    BY <1>1
  <2> HIDE DEF left
  <2> QED BY <1>4, <1>5, <2>1 DEF Sound
<1> QED BY <1>4, <1>5, <1>6 DEF Sound, Strips

LEMMA CloseTabHolds ==
    ASSUME IInv, NEW i \in DOMAIN tabs, CloseTab(i)
    PROVE  IInv' /\ Len(tabs') < Len(tabs)
<1> DEFINE left == SubSeq(tabs, 1, i - 1) \o SubSeq(tabs, i + 1, Len(tabs))
<1>1. /\ UNCHANGED connections /\ Save
      /\ \/ /\ i # active_tab
            /\ tabs' = left
            /\ active_tab' = IF i < active_tab THEN active_tab - 1 ELSE active_tab
            /\ UNCHANGED <<sessions, made, session, catalog, elsewhere>>
         \/ /\ i = active_tab /\ left # <<>>
            /\ AdoptTab(left, IF i > Len(left) THEN Len(left) ELSE i, session, catalog)
         \/ /\ left = <<>>
            /\ tabs' = left /\ active_tab' = 0
            /\ UNCHANGED <<sessions, made, session, catalog, elsewhere>>
  BY DEF CloseTab
<1>2. /\ Sound(left, sessions) /\ Len(left) = Len(tabs) - 1 /\ DOMAIN left = 1..(Len(tabs) - 1)
      /\ \A j \in DOMAIN left : left[j] = tabs[IF j < i THEN j ELSE j + 1]
  BY Plain, LeftIsSound
<1> HIDE DEF left
<1>3. tabs \in Seq(Tabs) /\ DOMAIN tabs = 1..Len(tabs) /\ tabs # <<>> /\ Len(tabs) \in Nat /\ left \in Seq(Tabs)
  BY <1>2 DEF IInv, Stripped, Sound, Strips
<1>4. active_tab \in DOMAIN tabs /\ Len(left) <= MaxTabs /\ i \in 1..Len(tabs) /\ (left = <<>>) = (Len(tabs) = 1)
  BY <1>2, <1>3, Plain, ConnectionsAssumption
<1>5. ASSUME tabs' = left, UNCHANGED <<sessions, made, session, catalog, elsewhere>>,
             active_tab' \in DOMAIN left \cup {0}, (active_tab' = 0) = (left = <<>>),
             active_tab' # 0 => left[active_tab'] = tabs[active_tab]
      PROVE  Intact
  <2>1. Held' /\ Keeps(sessions, sessions') /\ DOMAIN sessions \subseteq DOMAIN sessions'
    BY <1>1, <1>5, Plain DEF Held, OneSessionPerPlace, Keeps
  <2>2. Stripped'
    BY <1>2, <1>4, <1>5 DEF Stripped, Sound
  <2>3. Described'
    BY <1>3, <1>4, <1>5 DEF IInv, Described, CompletesAgainstItsOwn, FrontTabIsTheWindows, Here
  <2> QED BY <2>1, <2>2, <2>3 DEF Intact
<1>6. Intact
  <2>1. CASE /\ i # active_tab /\ tabs' = left
             /\ active_tab' = IF i < active_tab THEN active_tab - 1 ELSE active_tab
             /\ UNCHANGED <<sessions, made, session, catalog, elsewhere>>
    <3>1. active_tab' \in DOMAIN left /\ left[active_tab'] = tabs[active_tab]
      <4>1. CASE i < active_tab
        <5>1. active_tab' = active_tab - 1 /\ ~(active_tab' < i) /\ active_tab' + 1 = active_tab
          BY <1>3, <1>4, <2>1, <4>1
        <5>2. active_tab' \in DOMAIN left
          BY <1>2, <1>3, <1>4, <4>1, <5>1
        <5> QED BY <1>2, <5>1, <5>2
      <4>2. CASE ~(i < active_tab)
        <5>1. active_tab' = active_tab /\ active_tab < i
          BY <1>3, <1>4, <2>1, <4>2
        <5>2. active_tab' \in DOMAIN left
          BY <1>2, <1>3, <1>4, <5>1
        <5> QED BY <1>2, <5>1, <5>2
      <4> QED BY <4>1, <4>2
    <3>2. active_tab' # 0 /\ left # <<>>
      BY <1>2, <1>3, <1>4, <2>1, <3>1
    <3> QED BY <1>5, <2>1, <3>1, <3>2
  <2>2. CASE /\ i = active_tab /\ left # <<>>
             /\ AdoptTab(left, IF i > Len(left) THEN Len(left) ELSE i, session, catalog)
    <3> DEFINE next == IF i > Len(left) THEN Len(left) ELSE i
    <3>1. next \in DOMAIN left
      BY <1>2, <1>3, <1>4, <2>2
    <3>2. AdoptTab(left, next, session, SnapOf(sessions, session))
      BY <2>2, Plain
    <3> HIDE DEF next
    <3> QED BY <1>1, <1>2, <1>4, <3>1, <3>2, Plain, AdoptTabHolds
  <2>3. CASE /\ left = <<>> /\ tabs' = left /\ active_tab' = 0
             /\ UNCHANGED <<sessions, made, session, catalog, elsewhere>>
    BY <1>5, <2>3
  <2> QED BY <1>1, <2>1, <2>2, <2>3
<1>7. Len(tabs') < Len(tabs)
  <2>1. CASE tabs' = left
    BY <1>2, <1>3, <2>1
  <2>2. CASE /\ i = active_tab /\ left # <<>>
             /\ AdoptTab(left, IF i > Len(left) THEN Len(left) ELSE i, session, catalog)
    <3> DEFINE next == IF i > Len(left) THEN Len(left) ELSE i
    <3>1. next \in DOMAIN left
      BY <1>2, <1>3, <1>4, <2>2
    <3>2. AdoptTab(left, next, session, SnapOf(sessions, session))
      BY <2>2, Plain
    <3> HIDE DEF next
    <3>3. Len(tabs') = Len(left)
      BY <1>1, <1>2, <1>4, <3>1, <3>2, Plain, AdoptTabHolds
    <3> QED BY <1>2, <1>3, <3>3
  <2> QED BY <1>1, <2>1, <2>2
<1> QED BY <1>1, <1>6, <1>7, SavedStays, WrittenIsKept
-----------------------------------------------------------------------------
\* What is left of the sessions of a connection that is gone.
LEMMA ClosingHolds ==
    ASSUME IInv, NEW server, CloseSessionsOn(server),
           \/ UNCHANGED connections /\ On(server) # {}
           \/ connections' = [s \in DOMAIN connections \ {server} |-> connections[s]]
    PROVE  IInv'
<1> DEFINE closed == On(server)
<1> DEFINE left == DOMAIN sessions \ closed
<1> DEFINE new(i) == Tab(tabs[i].kind, IF tabs[i].session \in closed THEN 0 ELSE tabs[i].session,
                         tabs[i].reconnect)
<1>1. /\ sessions' = [n \in left |-> sessions[n]]
      /\ tabs' = [i \in DOMAIN tabs |-> new(i)]
      /\ session' = IF session \in closed THEN 0 ELSE session
      /\ catalog' = IF session \in closed THEN Nowhere ELSE catalog
      /\ UNCHANGED <<made, active_tab, saved, elsewhere>>
  BY DEF CloseSessionsOn
<1>2. /\ \A n \in left : sessions[n].place[1] # server
      /\ closed \subseteq DOMAIN sessions /\ 0 \notin DOMAIN sessions
  BY Plain DEF On
<1>3. /\ \A s \in DOMAIN connections : s # server => s \in DOMAIN connections'
      /\ Saved'
  BY DEF IInv, Saved
<1>4. Held'
  <2>1. sessions' \in [left -> SessionRecords] /\ DOMAIN sessions' = left
    BY <1>1 DEF IInv, Held
  <2>2. OneSessionPerPlace'
    BY <1>1 DEF IInv, Held, OneSessionPerPlace
  <2>3. \A n \in DOMAIN sessions' : sessions'[n].place[1] \in DOMAIN connections'
    BY <1>1, <1>2, <1>3 DEF IInv, Held
  <2> QED BY <1>1, <2>1, <2>2, <2>3 DEF IInv, Held
<1>5. tabs \in Seq(Tabs) /\ DOMAIN tabs = 1..Len(tabs) /\ Len(tabs) \in Nat
  BY DEF IInv, Stripped, Sound, Strips
<1>6. \A i \in DOMAIN tabs : /\ new(i) \in Tabs /\ new(i).kind = tabs[i].kind
                             /\ new(i).session \in left \cup {0}
  <2> SUFFICES ASSUME NEW i \in DOMAIN tabs
               PROVE  /\ new(i) \in Tabs /\ new(i).kind = tabs[i].kind
                      /\ new(i).session \in left \cup {0}
    OBVIOUS
  <2>1. tabs[i] \in Tabs /\ tabs[i].session \in DOMAIN sessions \cup {0}
    BY <1>5, Plain
  <2>2. (IF tabs[i].session \in closed THEN 0 ELSE tabs[i].session) \in left \cup {0}
    BY <2>1
  <2> QED BY <2>1, <2>2 DEF Tab, Tabs
<1>7. tabs' \in Seq(Tabs) /\ DOMAIN tabs' = DOMAIN tabs /\ Len(tabs') = Len(tabs)
  <2> HIDE DEF new
  <2> QED BY <1>1, <1>5, <1>6
<1>8. Stripped'
  <2>1. Sound(tabs', sessions')
    <3> HIDE DEF new
    <3> QED BY <1>1, <1>6, <1>7 DEF Sound, Strips
  <2>2. (tabs' = <<>>) = (tabs = <<>>)
    BY <1>5, <1>7
  <2> QED BY <1>1, <1>7, <2>1, <2>2 DEF IInv, Stripped
<1>9. Described'
  <2>1. session' \in DOMAIN sessions' \cup {0} /\ elsewhere' \in BOOLEAN /\ CompletesAgainstItsOwn'
    BY <1>1, <1>2 DEF IInv, Described, CompletesAgainstItsOwn
  <2>2. active_tab # 0 => tabs'[active_tab].session = IF Here \in closed THEN 0 ELSE Here
    BY <1>1, Plain DEF Here, Tab
  <2>3. FrontTabIsTheWindows'
    BY <1>1, <2>2 DEF IInv, Described, FrontTabIsTheWindows, Here
  <2> QED BY <2>1, <2>3 DEF Described
<1>10. Recorded'
  <2>1. CASE SameKinds(saved, tabs)
    <3>1. SameKinds(saved', tabs')
      <4> HIDE DEF new
      <4> QED BY <1>1, <1>6, <1>7, <2>1 DEF SameKinds
    <3> QED BY <1>1, <3>1 DEF IInv, Recorded
  <2>2. CASE tabs = Samples /\ DOMAIN sessions = {}
    <3>1. closed = {} /\ DOMAIN sessions' = {}
      BY <1>1, <1>2, <2>2
    <3>2. \A i \in DOMAIN tabs : new(i) = tabs[i]
      BY <2>2, <3>1 DEF Samples, Tab
    <3>3. tabs' = tabs
      <4> HIDE DEF new
      <4> QED BY <1>1, <1>5, <3>2
    <3> QED BY <1>1, <2>2, <3>1, <3>3 DEF IInv, Recorded
  <2> QED BY <2>1, <2>2 DEF IInv, Recorded
<1> QED BY <1>3, <1>4, <1>8, <1>9, <1>10 DEF IInv

LEMMA DisconnectHolds ==
    ASSUME IInv, NEW server, DisconnectFrom(server) PROVE IInv'
BY ClosingHolds DEF DisconnectFrom

LEMMA DeleteConnectionHolds ==
    ASSUME IInv, NEW server, DeleteConnection(server) PROVE IInv'
BY ClosingHolds DEF DeleteConnection

LEMMA CatalogLandsHolds ==
    ASSUME IInv, NEW n \in DOMAIN sessions, CatalogLands(n) PROVE IInv' /\ Kept
<1> DEFINE version == IF sessions[n].snapshot = <<n, 1>> THEN <<n, 2>> ELSE <<n, 1>>
<1>1. /\ sessions' = [sessions EXCEPT ![n].state = "connected",
                          ![n].snapshot = IF @ = <<n, 1>> THEN <<n, 2>> ELSE <<n, 1>>]
      /\ catalog' = IF n = session THEN sessions'[n].snapshot ELSE catalog
      /\ UNCHANGED <<connections, made, tabs, active_tab, session, saved, elsewhere>>
  BY DEF CatalogLands
<1>2. sessions \in [DOMAIN sessions -> SessionRecords] /\ n \in Nat
  BY DEF IInv, Held
<1>3. /\ sessions' \in [DOMAIN sessions -> SessionRecords] /\ DOMAIN sessions' = DOMAIN sessions
      /\ \A m \in DOMAIN sessions : /\ sessions'[m].place = sessions[m].place
                                    /\ m # n => sessions'[m] = sessions[m]
  <2>1. version \in Nat \X {1, 2}
    BY <1>2
  <2>2. sessions'[n] = [place |-> sessions[n].place, state |-> "connected", snapshot |-> version]
    BY <1>1, <1>2 DEF SessionRecords
  <2>3. sessions'[n] \in SessionRecords
    <3> HIDE DEF version
    <3> QED BY <1>2, <2>1, <2>2 DEF SessionRecords
  <2>4. DOMAIN sessions' = DOMAIN sessions /\ \A m \in DOMAIN sessions : m # n => sessions'[m] = sessions[m]
    BY <1>1
  <2>5. sessions'[n].place = sessions[n].place
    BY <2>2
  <2>6. sessions' = [m \in DOMAIN sessions |-> sessions'[m]]
    BY <1>1, <1>2
  <2>7. \A m \in DOMAIN sessions : sessions'[m] \in SessionRecords
    BY <1>2, <2>3, <2>4
  <2> QED BY <2>4, <2>5, <2>6, <2>7
<1>4. Held'
  <2>1. OneSessionPerPlace'
    BY <1>3 DEF IInv, Held, OneSessionPerPlace
  <2>2. \A m \in DOMAIN sessions' : sessions'[m].place[1] \in DOMAIN connections'
    BY <1>1, <1>3 DEF IInv, Held
  <2>3. made' \in Nat /\ DOMAIN sessions' \subseteq 1..made' /\ sessions' \in [DOMAIN sessions' -> SessionRecords]
    BY <1>1, <1>3 DEF IInv, Held
  <2> QED BY <2>1, <2>2, <2>3 DEF Held
<1>5. Stripped' /\ Saved'
  BY <1>1, <1>3 DEF IInv, Stripped, Sound, Saved
<1>6. Described'
  <2>1. CompletesAgainstItsOwn'
    <3>1. CASE n = session
      <4>1. catalog' = sessions'[n].snapshot /\ session' = n
        BY <1>1, <3>1
      <4> QED BY <4>1, Plain DEF CompletesAgainstItsOwn
    <3>2. CASE n # session
      <4>1. catalog' = catalog /\ session' = session
        BY <1>1, <3>2
      <4>2. session # 0 => sessions'[session] = sessions[session]
        BY <1>3, <3>2, Plain
      <4> QED BY <4>1, <4>2, Plain DEF CompletesAgainstItsOwn
    <3> QED BY <3>1, <3>2
  <2> QED BY <1>1, <1>3, <2>1 DEF IInv, Described, FrontTabIsTheWindows, Here
<1>7. Recorded'
  BY <1>1, <1>3 DEF IInv, Recorded
<1>8. Kept
  <2>1. \A i \in DOMAIN tabs : PlaceIn(sessions', tabs[i]) = PlaceIn(sessions, tabs[i])
    BY <1>3, Plain DEF PlaceIn
  <2> QED BY <1>1, <2>1 DEF Kept, SamePlace
<1> QED BY <1>4, <1>5, <1>6, <1>7, <1>8 DEF IInv

LEMMA ConnectFailsHolds ==
    ASSUME IInv, NEW n \in DOMAIN sessions, ConnectFails(n) PROVE IInv' /\ Kept
<1>1. /\ sessions' = [sessions EXCEPT ![n].state = "failed"]
      /\ UNCHANGED <<connections, made, tabs, active_tab, session, catalog, saved, elsewhere>>
  BY DEF ConnectFails
<1>2. sessions \in [DOMAIN sessions -> SessionRecords]
  BY DEF IInv, Held
<1>3. /\ sessions' \in [DOMAIN sessions -> SessionRecords] /\ DOMAIN sessions' = DOMAIN sessions
      /\ \A m \in DOMAIN sessions : /\ sessions'[m].place = sessions[m].place
                                    /\ sessions'[m].snapshot = sessions[m].snapshot
  BY <1>1, <1>2 DEF SessionRecords
<1>4. Keeps(sessions, sessions')
  BY <1>3 DEF Keeps
<1>5. Held'
  BY <1>1, <1>3 DEF IInv, Held, OneSessionPerPlace
<1>6. Stripped' /\ Saved'
  BY <1>1, <1>3 DEF IInv, Stripped, Sound, Saved
<1>7. Described'
  BY <1>1, <1>3 DEF IInv, Described, CompletesAgainstItsOwn, FrontTabIsTheWindows, Here
<1>8. Recorded'
  BY <1>1, <1>3 DEF IInv, Recorded
<1>9. Kept
  BY <1>1, <1>4, OthersKept
<1> QED BY <1>5, <1>6, <1>7, <1>8, <1>9 DEF IInv
-----------------------------------------------------------------------------
\* What a launch makes of anything that can have been written down.
Fit(w, state) ==
    /\ w.sessions \in [DOMAIN w.sessions -> SessionRecords]
    /\ Len(w.sessions) \in Nat /\ DOMAIN w.sessions = 1..Len(w.sessions)
    /\ \A m, n \in DOMAIN w.sessions : m = n
    /\ \A n \in DOMAIN w.sessions : /\ w.sessions[n].place[1] \in DOMAIN connections
                                    /\ w.sessions[n].snapshot = Nowhere
    /\ Sound(w.tabs, w.sessions) /\ Len(w.tabs) <= MaxTabs
    /\ w.active \in DOMAIN w.tabs \cup {0} /\ (w.active = 0) = (w.tabs = <<>>)
    /\ w.session \in DOMAIN w.sessions \cup {0}
    /\ w.active # 0 => w.tabs[w.active].session = w.session
    /\ w.session = 0 => SameKinds(state, w.tabs) \/ (w.tabs = Samples /\ DOMAIN w.sessions = {})

LEMMA RestoredIsSound ==
    ASSUME NEW state \in States, NEW held
    PROVE  /\ Sound(Restored(state), held) /\ Len(Restored(state)) = Len(state.tabs)
           /\ DOMAIN Restored(state) = DOMAIN state.tabs /\ SameKinds(state, Restored(state))
           /\ (Restored(state) = <<>>) = (state.tabs = <<>>)
           /\ \A i \in DOMAIN state.tabs :
                 Restored(state)[i] = Tab(state.tabs[i][1], 0, state.tabs[i][2])
<1> DEFINE Pairs == {"Query", "Table"} \X (Places \cup {Nowhere})
<1> DEFINE new(i) == Tab(state.tabs[i][1], 0, state.tabs[i][2])
<1>1. state.tabs \in Seq(Pairs) /\ DOMAIN state.tabs = 1..Len(state.tabs) /\ Len(state.tabs) \in Nat
  BY DEF States
<1>2. \A i \in DOMAIN state.tabs : new(i) \in Tabs /\ new(i).session = 0 /\ new(i).kind = state.tabs[i][1]
  <2> SUFFICES ASSUME NEW i \in DOMAIN state.tabs
               PROVE  new(i) \in Tabs /\ new(i).session = 0 /\ new(i).kind = state.tabs[i][1]
    OBVIOUS
  <2>1. state.tabs[i] \in Pairs
    <3> HIDE DEF Pairs
    <3> QED BY <1>1
  <2> QED BY <2>1, TabIsTyped DEF Kinds
<1>3. Restored(state) = [i \in 1..Len(state.tabs) |-> new(i)]
  BY <1>1 DEF Restored
<1> HIDE DEF new, Pairs
<1>4. Restored(state) \in Seq(Tabs) /\ Len(Restored(state)) = Len(state.tabs)
  BY <1>1, <1>2, <1>3
<1>5. DOMAIN Restored(state) = DOMAIN state.tabs /\ \A i \in DOMAIN state.tabs : Restored(state)[i] = new(i)
  BY <1>1, <1>3
<1>6. (Restored(state) = <<>>) = (state.tabs = <<>>)
  BY <1>1, <1>4
<1>7. Sound(Restored(state), held)
  BY <1>2, <1>4, <1>5 DEF Sound, Strips
<1>8. SameKinds(state, Restored(state))
  BY <1>2, <1>4, <1>5 DEF SameKinds
<1> QED BY <1>4, <1>5, <1>6, <1>7, <1>8 DEF new

LEMMA PointedTabs ==
    ASSUME NEW strip, NEW held, Sound(strip, held), NEW i \in DOMAIN strip, NEW n \in Nat
    PROVE  /\ Pointed(strip, i, n)[i].session = n
           /\ \A j \in DOMAIN strip : /\ Pointed(strip, i, n)[j].kind = strip[j].kind
                                      /\ j # i => Pointed(strip, i, n)[j] = strip[j]
<1>1. strip \in Seq(Tabs)
  BY DEF Sound, Strips
<1> QED BY <1>1 DEF Pointed, Tab

LEMMA LaunchedIsFit ==
    ASSUME NEW state \in States, NEW reopen \in BOOLEAN
    PROVE  /\ Fit(Launched(state, reopen), state)
           /\ \A i \in DOMAIN state.tabs :
                 /\ i \in DOMAIN Launched(state, reopen).tabs
                 /\ \/ Launched(state, reopen).tabs[i] = Tab(state.tabs[i][1], 0, state.tabs[i][2])
                    \/ i = state.active /\ i = Launched(state, reopen).active
<1> DEFINE connecting == reopen /\ state.place # Nowhere
<1> DEFINE strip == IF state.tabs = <<>> /\ ~connecting THEN Samples ELSE Restored(state)
<1> DEFINE front == IF state.tabs = <<>> THEN (IF connecting THEN 0 ELSE 1) ELSE state.active
<1> DEFINE back == connecting /\ state.place[1] \in DOMAIN connections
<1> DEFINE new == [place |-> state.place, state |-> "connecting", snapshot |-> Nowhere]
<1> DEFINE w == Launched(state, reopen)
<1>1. /\ w.sessions = IF back THEN <<new>> ELSE <<>>
      /\ w.tabs = IF back /\ front # 0 THEN Pointed(strip, front, 1) ELSE strip
      /\ w.active = front
      /\ w.session = IF back THEN 1 ELSE 0
  BY DEF Launched
<1>2. /\ state.place \in Places \cup {Nowhere} /\ Len(state.tabs) <= MaxTabs
      /\ state.active \in DOMAIN state.tabs \cup {0} /\ (state.active = 0) = (state.tabs = <<>>)
      /\ state.tabs # <<>> => state.active \in DOMAIN state.tabs
  BY DEF States
<1>3. /\ Sound(Samples, <<>>) /\ Len(Samples) = 2 /\ DOMAIN Samples = 1..2 /\ Samples # <<>>
      /\ Samples[1].session = 0
  <2>1. Tab("Query", 0, Nowhere) \in Tabs /\ Tab("Query", 0, Nowhere).session = 0
    BY TabIsTyped DEF Kinds
  <2>2. Tab("Table", 0, Nowhere) \in Tabs /\ Tab("Table", 0, Nowhere).session = 0
    BY TabIsTyped DEF Kinds
  <2>3. Samples \in Seq(Tabs) /\ Len(Samples) = 2 /\ DOMAIN Samples = 1..2 /\ Samples # <<>>
    BY <2>1, <2>2 DEF Samples
  <2>4. \A i \in DOMAIN Samples : Samples[i].session = 0
    BY <2>1, <2>2, <2>3 DEF Samples
  <2> QED BY <2>3, <2>4 DEF Sound, Strips
<1>4. CASE state.tabs = <<>> /\ ~connecting
  <2>1. w.sessions = <<>> /\ w.tabs = Samples /\ w.active = 1 /\ w.session = 0
    BY <1>1, <1>4
  <2>2. Fit(w, state)
    <3>1. /\ DOMAIN w.sessions = {} /\ Len(w.sessions) = 0 /\ DOMAIN w.sessions = 1..0
          /\ w.sessions \in [DOMAIN w.sessions -> SessionRecords]
      BY <2>1
    <3>2. Len(w.tabs) <= MaxTabs /\ Sound(w.tabs, w.sessions) /\ w.tabs # <<>> /\ w.active \in DOMAIN w.tabs
      <4>1. 2 <= MaxTabs
        BY ConnectionsAssumption
      <4> HIDE DEF w
      <4>2. Sound(w.tabs, w.sessions) /\ w.tabs # <<>>
        BY <1>3, <2>1
      <4>3. w.active \in DOMAIN w.tabs
        BY <1>3, <2>1
      <4>4. Len(w.tabs) <= MaxTabs
        BY <1>3, <2>1, <4>1
      <4> QED BY <4>2, <4>3, <4>4
    <3>3. w.tabs[w.active].session = 0
      BY <1>3, <2>1
    <3> HIDE DEF w
    <3> QED BY <2>1, <3>1, <3>2, <3>3 DEF Fit
  <2>3. DOMAIN state.tabs = {}
    BY <1>4
  <2> QED BY <2>2, <2>3
<1>5. CASE ~(state.tabs = <<>> /\ ~connecting)
  <2>1. strip = Restored(state) /\ front = state.active
    BY <1>2, <1>5
  <2>2. /\ \A held : Sound(strip, held)
        /\ Len(strip) = Len(state.tabs) /\ DOMAIN strip = DOMAIN state.tabs
        /\ SameKinds(state, strip) /\ (strip = <<>>) = (state.tabs = <<>>)
        /\ \A i \in DOMAIN state.tabs : strip[i] = Tab(state.tabs[i][1], 0, state.tabs[i][2])
    BY <2>1, RestoredIsSound
  <2>3. front \in DOMAIN strip \cup {0} /\ (front = 0) = (strip = <<>>)
    BY <1>2, <2>1, <2>2
  <2> HIDE DEF strip, front, connecting, new
  <2>4. CASE ~back
    <3>1. w.sessions = <<>> /\ w.tabs = strip /\ w.active = front /\ w.session = 0
      BY <1>1, <2>4
    <3>2. front # 0 => strip[front].session = 0
      <4>1. \A i \in DOMAIN state.tabs : strip[i].session = 0
        <5>1. \A kind, place : Tab(kind, 0, place).session = 0
          BY DEF Tab
        <5> QED BY <2>2, <5>1
      <4> QED BY <2>2, <2>3, <4>1
    <3>3. Fit(w, state)
      <4>1. /\ DOMAIN w.sessions = {} /\ Len(w.sessions) = 0 /\ DOMAIN w.sessions = 1..0
            /\ w.sessions \in [DOMAIN w.sessions -> SessionRecords]
        BY <3>1
      <4> HIDE DEF w
      <4> QED BY <1>2, <2>2, <2>3, <3>1, <3>2, <4>1 DEF Fit
    <3> QED BY <2>2, <3>1, <3>3
  <2>5. CASE back
    <3>1. w.sessions = <<new>> /\ w.active = front /\ w.session = 1
      BY <1>1, <2>5
    <3>2. state.place \in Places /\ state.place[1] \in DOMAIN connections
      BY <1>2, <2>5 DEF connecting
    <3>3. new \in SessionRecords /\ new.place = state.place /\ new.snapshot = Nowhere
      BY <3>2 DEF new, SessionRecords
    <3>4. /\ w.sessions \in [DOMAIN w.sessions -> SessionRecords]
          /\ Len(w.sessions) = 1 /\ DOMAIN w.sessions = 1..1 /\ w.sessions[1] = new
      BY <3>1, <3>3
    <3>5. /\ Sound(w.tabs, w.sessions) /\ DOMAIN w.tabs = DOMAIN strip /\ Len(w.tabs) = Len(strip)
          /\ (w.tabs = <<>>) = (strip = <<>>)
      <4>1. CASE front = 0
        BY <1>1, <2>2, <2>5, <4>1
      <4>2. CASE front # 0
        <5>1. w.tabs = Pointed(strip, front, 1) /\ front \in DOMAIN strip
          BY <1>1, <2>3, <2>5, <4>2
        <5>2. 1 \in DOMAIN w.sessions \cup {0} /\ Sound(strip, w.sessions)
          BY <2>2, <3>4
        <5>3. /\ Sound(w.tabs, w.sessions) /\ DOMAIN w.tabs = DOMAIN strip
              /\ Len(w.tabs) = Len(strip)
          BY <5>1, <5>2, PointedIsSound
        <5>4. w.tabs # <<>> /\ strip # <<>>
          BY <2>3, <4>2, <5>1, <5>3
        <5> QED BY <5>3, <5>4
      <4> QED BY <4>1, <4>2
    <3>6. /\ front # 0 => w.tabs[front].session = 1
          /\ \A j \in DOMAIN strip : j # front => w.tabs[j] = strip[j]
      <4>1. CASE front = 0
        BY <1>1, <2>5, <4>1
      <4>2. CASE front # 0
        <5>1. w.tabs = Pointed(strip, front, 1) /\ front \in DOMAIN strip /\ Sound(strip, <<>>)
          BY <1>1, <2>2, <2>3, <2>5, <4>2
        <5>2. 1 \in Nat
          OBVIOUS
        <5> QED BY <5>1, <5>2, PointedTabs
      <4> QED BY <4>1, <4>2
    <3>7. Fit(w, state)
      <4>1. /\ \A m, n \in DOMAIN w.sessions : m = n
            /\ \A n \in DOMAIN w.sessions : /\ w.sessions[n].place[1] \in DOMAIN connections
                                            /\ w.sessions[n].snapshot = Nowhere
        BY <3>2, <3>3, <3>4
      <4>2. w.session \in DOMAIN w.sessions \cup {0} /\ w.session # 0
        BY <3>1, <3>4
      <4>3. Len(w.tabs) <= MaxTabs /\ w.active \in DOMAIN w.tabs \cup {0} /\ (w.active = 0) = (w.tabs = <<>>)
        BY <1>2, <2>2, <2>3, <3>1, <3>5
      <4>4. w.active # 0 => w.tabs[w.active].session = w.session
        BY <3>1, <3>6
      <4>5. w.sessions \in [DOMAIN w.sessions -> SessionRecords] /\ Len(w.sessions) \in Nat
             /\ DOMAIN w.sessions = 1..Len(w.sessions)
        BY <3>4
      <4> HIDE DEF w
      <4> QED BY <3>5, <4>1, <4>2, <4>3, <4>4, <4>5 DEF Fit
    <3> QED BY <2>1, <2>2, <3>1, <3>5, <3>6, <3>7
  <2> QED BY <2>4, <2>5
<1> QED BY <1>4, <1>5

\* A launch from a state that is one.
LEMMA LaunchHolds ==
    ASSUME Saved, NEW state \in States, Launch(state)
    PROVE  /\ IInv'
           /\ \A i \in DOMAIN state.tabs :
                 /\ i \in DOMAIN tabs'
                 /\ \/ tabs'[i] = Tab(state.tabs[i][1], 0, state.tabs[i][2])
                    \/ i = state.active /\ i = active_tab'
<1>1. PICK reopen \in BOOLEAN :
         LET w == Launched(state, reopen)
         IN  /\ sessions' = w.sessions /\ made' = Len(w.sessions)
             /\ tabs' = w.tabs /\ active_tab' = w.active
             /\ session' = w.session /\ catalog' = Nowhere
             /\ elsewhere' = FALSE
             /\ IF w.session = 0 THEN saved' = state ELSE Save
             /\ UNCHANGED connections
  BY DEF Launch
<1> DEFINE w == Launched(state, reopen)
<1>2. /\ Fit(w, state)
      /\ \A i \in DOMAIN state.tabs :
            /\ i \in DOMAIN w.tabs
            /\ \/ w.tabs[i] = Tab(state.tabs[i][1], 0, state.tabs[i][2])
               \/ i = state.active /\ i = w.active
  BY LaunchedIsFit
<1>3. /\ sessions' = w.sessions /\ made' = Len(w.sessions) /\ tabs' = w.tabs /\ active_tab' = w.active
      /\ session' = w.session /\ catalog' = Nowhere /\ elsewhere' = FALSE /\ connections' = connections
      /\ IF w.session = 0 THEN saved' = state ELSE Save
  BY <1>1
<1> HIDE DEF w
<1>4. Held'
  BY <1>2, <1>3 DEF Fit, Held, OneSessionPerPlace
<1>5. Stripped'
  BY <1>2, <1>3 DEF Fit, Stripped
<1>6. Described'
  BY <1>2, <1>3 DEF Fit, Described, CompletesAgainstItsOwn, FrontTabIsTheWindows, Here
<1>7. Recorded'
  <2>1. CASE w.session = 0
    BY <1>2, <1>3, <2>1 DEF Fit, Recorded
  <2>2. CASE w.session # 0
    BY <1>3, <1>4, <1>5, <1>6, <2>2, SaveRecords
  <2> QED BY <2>1, <2>2
<1>8. Saved'
  BY <1>3 DEF Saved
<1> QED BY <1>2, <1>3, <1>4, <1>5, <1>6, <1>7, <1>8 DEF IInv

LEMMA CrashHolds == ASSUME IInv, Crash PROVE IInv'
BY LaunchHolds DEF Crash, IInv, Recorded

\* What quitting writes down is what there is.
LEMMA NowIsState ==
    ASSUME IInv
    PROVE  /\ Now \in States /\ Now.active = active_tab /\ DOMAIN Now.tabs = DOMAIN tabs
           /\ \A i \in DOMAIN tabs : Now.tabs[i][2] = PlaceOf(tabs[i])
<1>1. Now \in States
  BY Plain, WrittenDownIsState DEF Now, Held
<1> QED BY <1>1 DEF Now, WrittenDown, PlaceOf

LEMMA QuitHolds ==
    ASSUME IInv, Launch(Now) PROVE IInv' /\ Kept
<1>1. /\ IInv'
      /\ \A i \in DOMAIN tabs :
            /\ i \in DOMAIN tabs'
            /\ \/ tabs'[i] = Tab(Now.tabs[i][1], 0, Now.tabs[i][2])
               \/ i = active_tab /\ i = active_tab'
  BY NowIsState, LaunchHolds DEF IInv
<1>2. \A i \in DOMAIN tabs : tabs'[i] = Tab(Now.tabs[i][1], 0, Now.tabs[i][2])
                                => PlaceIn(sessions', tabs'[i]) = PlaceIn(sessions, tabs[i])
  BY NowIsState DEF PlaceIn, PlaceOf, Tab
<1>3. Kept
  BY <1>1, <1>2 DEF Kept, SamePlace
<1> QED BY <1>1, <1>3
-----------------------------------------------------------------------------
LEMMA InitHolds == Init => IInv
<1> SUFFICES ASSUME Init PROVE IInv
  OBVIOUS
<1>1. PICK state \in Written, reopen \in BOOLEAN :
         LET w == Launched(state, reopen)
         IN  /\ sessions = w.sessions /\ made = Len(w.sessions) /\ tabs = w.tabs
             /\ active_tab = w.active /\ session = w.session
             /\ saved = IF w.session = 0 THEN state
                        ELSE WrittenDown(w.tabs, w.active, w.sessions, w.session)
  BY DEF Init
<1> DEFINE w == Launched(state, reopen)
<1>2. state \in States
  BY ConnectionsAssumption
<1>3. Fit(w, state)
  BY <1>2, LaunchedIsFit
<1>4. /\ sessions = w.sessions /\ made = Len(w.sessions) /\ tabs = w.tabs
      /\ active_tab = w.active /\ session = w.session
      /\ saved = IF w.session = 0 THEN state
                 ELSE WrittenDown(tabs, active_tab, sessions, session)
      /\ catalog = Nowhere /\ elsewhere = FALSE
  BY <1>1 DEF Init
<1> HIDE DEF w
<1>5. Held
  BY <1>3, <1>4 DEF Fit, Held, OneSessionPerPlace
<1>6. Stripped
  BY <1>3, <1>4 DEF Fit, Stripped
<1>7. Described
  BY <1>3, <1>4 DEF Fit, Described, CompletesAgainstItsOwn, FrontTabIsTheWindows, Here
<1>8. Recorded
  <2>1. CASE w.session = 0
    BY <1>2, <1>3, <1>4, <2>1 DEF Fit, Recorded
  <2>2. CASE w.session # 0
    <3>1. 0 \notin DOMAIN sessions
      BY <1>5 DEF Held
    <3>2. saved \in States /\ SameKinds(saved, tabs)
      BY <1>4, <1>5, <1>6, <1>7, <2>2, <3>1, WrittenDownIsState DEF Held, Stripped, Described
    <3> QED BY <3>2 DEF Recorded
  <2> QED BY <2>1, <2>2
<1>9. Saved
  <2>1. (CHOOSE d \in Databases : TRUE) \in Databases
    BY ConnectionsAssumption
  <2> QED BY <2>1 DEF Init, Saved
<1> QED BY <1>5, <1>6, <1>7, <1>8, <1>9 DEF IInv

LEMMA StutterHolds == ASSUME IInv, UNCHANGED vars PROVE IInv' /\ Stay
<1>1. IInv'
  <2>1. Held' /\ Saved' /\ Recorded'
    BY DEF vars, IInv, Held, OneSessionPerPlace, Saved, Recorded
  <2>2. Stripped' /\ Described'
    BY DEF vars, IInv, Stripped, Sound, Described, CompletesAgainstItsOwn, FrontTabIsTheWindows, Here
  <2> QED BY <2>1, <2>2 DEF IInv
<1>2. Stay
  BY DEF vars, Stay, StaysPut, PlaceOf
<1> QED BY <1>1, <1>2

LEMMA KeptIsEnough == ASSUME Kept PROVE Stay
BY DEF Kept, SamePlace, Stay, StaysPut, PlaceOf

\* Every step keeps the invariant, and the tabs their place.
LEMMA StepHolds ==
    ASSUME IInv, [Next]_vars PROVE IInv' /\ Stay
<1>1. CASE \E s \in Servers : \/ OpenConnection(s) \/ PaletteConnection(s)
                              \/ \E d \in Databases : SaveConnection(s, d)
  BY <1>1, OpenConnectionHolds, PaletteConnectionHolds, SaveConnectionHolds, KeptIsEnough
<1>2. ASSUME NEW s \in Servers, DisconnectFrom(s) \/ DeleteConnection(s)
      PROVE  IInv' /\ Stay
  <2>1. IInv'
    BY <1>2, DisconnectHolds, DeleteConnectionHolds
  <2> QED BY <1>2, <2>1 DEF Stay, Closing
<1>3. CASE \E p \in Places : OpenDatabase(p) \/ OpenRelation(p)
  BY <1>3, OpenDatabaseHolds, OpenRelationHolds, KeptIsEnough
<1>4. CASE \E d \in Databases : SwitchDatabase(d)
  BY <1>4, SwitchDatabaseHolds, KeptIsEnough
<1>5. CASE NewQueryTab
  BY <1>5, NewQueryTabHolds, KeptIsEnough
<1>6. ASSUME NEW i \in DOMAIN tabs, CloseTab(i)
      PROVE  IInv' /\ Stay
  <2>1. IInv' /\ Len(tabs') < Len(tabs)
    BY <1>6, CloseTabHolds
  <2>2. Len(tabs') \in Nat /\ Len(tabs) \in Nat
    BY <2>1 DEF IInv, Stripped, Sound, Strips
  <2>3. ~(Len(tabs') >= Len(tabs))
    BY <2>1, <2>2
  <2> QED BY <2>1, <2>3 DEF Stay
<1>7. ASSUME NEW i \in DOMAIN tabs, NEW writes \in BOOLEAN, ShowTab(i, writes)
      PROVE  IInv' /\ Stay
  BY <1>7, ShowTabHolds, KeptIsEnough
<1>8. CASE \E n \in DOMAIN sessions : CatalogLands(n) \/ ConnectFails(n)
  BY <1>8, CatalogLandsHolds, ConnectFailsHolds, KeptIsEnough
<1>9. CASE Quit
  BY <1>9, QuitHolds, KeptIsEnough DEF Quit
<1>10. CASE Crash
  <2>1. CASE saved = Now
    BY <1>10, <2>1, QuitHolds, KeptIsEnough DEF Crash
  <2>2. CASE saved # Now
    BY <1>10, <2>2, CrashHolds DEF Stay
  <2> QED BY <2>1, <2>2
<1>11. CASE UNCHANGED vars
  BY <1>11, StutterHolds
<1> QED BY <1>1, <1>2, <1>3, <1>4, <1>5, <1>6, <1>7, <1>8, <1>9, <1>10, <1>11 DEF Next
-----------------------------------------------------------------------------
LEMMA IInvImplies ==
    IInv => TypeOK /\ NothingDangles /\ CompletesAgainstItsOwn /\ FrontTabIsTheWindows
            /\ OneSessionPerPlace /\ CrashLosesNoTab
<1> SUFFICES ASSUME IInv
             PROVE  TypeOK /\ NothingDangles /\ CompletesAgainstItsOwn /\ FrontTabIsTheWindows
                    /\ OneSessionPerPlace /\ CrashLosesNoTab
  OBVIOUS
<1>1. \A n \in DOMAIN sessions : sessions[n].place \in Places
  BY DEF IInv, Held, SessionRecords
<1>2. TypeOK
  BY <1>1 DEF IInv, Saved, Held, Stripped, TypeOK
<1>3. NothingDangles
  BY DEF IInv, Held, Stripped, Sound, Described, NothingDangles
<1>4. CompletesAgainstItsOwn /\ FrontTabIsTheWindows /\ OneSessionPerPlace
  BY DEF IInv, Held, Described
<1>5. CrashLosesNoTab
  BY DEF IInv, Recorded, SameKinds, CrashLosesNoTab
<1> QED BY <1>2, <1>3, <1>4, <1>5

\* The sessions, the strip, the window and what is written down stay sound.
THEOREM Invariance == Spec => []IInv
<1>1. Init => IInv
  BY InitHolds
<1>2. IInv /\ [Next]_vars => IInv'
  BY StepHolds
<1> QED BY <1>1, <1>2, PTL DEF Spec

\* The window stays well formed.
THEOREM TypeCorrect == Spec => []TypeOK
BY Invariance, IInvImplies, PTL

\* One session for a place (session_for), however the last one failed, was
\* closed or was opened again.
THEOREM OneForAPlace == Spec => []OneSessionPerPlace
BY Invariance, IInvImplies, PTL

\* No tab and no window points at a session that was closed
\* (close_sessions_on).
THEOREM NoneDangles == Spec => []NothingDangles
BY Invariance, IInvImplies, PTL

\* The consoles complete against the session on show (adopt_session).
THEOREM CompletesItsOwn == Spec => []CompletesAgainstItsOwn
BY Invariance, IInvImplies, PTL

\* The tab in front is on the window's session (bind_active_tab, adopt_tab).
THEOREM FrontIsShown == Spec => []FrontTabIsTheWindows
BY Invariance, IInvImplies, PTL

\* What is written down has every tab of the strip (save_session).
THEOREM NoTabIsLost == Spec => []CrashLosesNoTab
BY Invariance, IInvImplies, PTL

\* A window's connections, sessions and tabs are in order, all of the above.
THEOREM ConnectionsInOrder == Spec => []ConnectionsHold
<1>1. IInv => ConnectionsHold
  BY IInvImplies DEF ConnectionsHold
<1> QED BY <1>1, Invariance, PTL

\* No tab but the one in front is pointed elsewhere, over a restart too.
THEOREM PlacesAreKept == Spec => TabsKeepTheirPlace
<1>1. IInv /\ [Next]_vars => Stay
  BY StepHolds
<1> QED BY <1>1, Invariance, PTL DEF Spec, TabsKeepTheirPlace
=============================================================================
