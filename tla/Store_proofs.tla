---------------------------- MODULE Store_proofs ----------------------------
(***************************************************************************)
(* Proofs about what the store keeps: saved queries, and the connections of*)
(* the local file, for any names, panes and bounds.                        *)
(***************************************************************************)
EXTENDS SavedQueries, LocalStore, TLAPS, SequenceTheorems, FiniteSetTheorems

-----------------------------------------------------------------------------
(***************************************************************************)
(* Saved queries: the invariant says which rows the sidebar and the server *)
(* hold, and that a tab which edits a row edits one of a name of its own.  *)
(***************************************************************************)
Sessions == Origins \cup {NoConnection}
Sqls == Scripts \cup {""}

\* A tab that edits no row, or one that is there or was deleted under it.
TabOf(known) ==
    [kind : {"Query", "Table"}, sql : Sqls, saved_query : {Fresh} \cup known, session : Sessions]

PanesOK(ps, ac, known) ==
    /\ ps \in [Panes -> Seq(TabOf(known))] /\ ac \in [Panes -> Nat]
    /\ \A p \in Panes : Len(ps[p]) <= MaxQueryTabs /\ ac[p] \in 1..Len(ps[p])

\* The rows that were given an id so far, but for those nothing refers to.
Known == DOMAIN rows \cup orphans

RowsOK ==
    /\ nextId \in Nat \ {0} /\ Known \subseteq 1..(nextId - 1)
    /\ \A i \in DOMAIN rows : rows[i].sql \in Sqls
    /\ DOMAIN sidebar \subseteq DOMAIN rows /\ \A i \in DOMAIN sidebar : sidebar[i].sql \in Sqls

PlaceOK == activePane \in Panes /\ current \in Sessions /\ open \subseteq Origins

QueriesInv == RowsOK /\ PlaceOK /\ PanesOK(panes, active, Known) /\ NamesAreOne

-----------------------------------------------------------------------------
LEMMA QueriesInitially == QueriesInit => QueriesInv
<1> SUFFICES ASSUME QueriesInit PROVE QueriesInv
  OBVIOUS
<1>1. DOMAIN rows = {} /\ DOMAIN sidebar = {}
  <2>1. << >> \in Seq({}) /\ Len(<< >>) = 0
    OBVIOUS
  <2>2. DOMAIN << >> = {}
    BY <2>1, LenProperties
  <2> QED BY <2>2 DEF QueriesInit
<1>2. RowsOK /\ NamesAreOne
  <2>1. Known = {} /\ nextId = 1
    BY <1>1 DEF QueriesInit, Known
  <2>2. RowsOK
    BY <1>1, <2>1 DEF RowsOK
  <2> QED BY <1>1, <2>2 DEF NamesAreOne
<1>3. PlaceOK
  BY QueriesAssumption DEF QueriesInit, PlaceOK, Sessions
<1>4. QueryTab("", Fresh, NoConnection) \in TabOf(Known)
  BY DEF QueryTab, TabOf, Sqls, Sessions
<1> DEFINE t == QueryTab("", Fresh, NoConnection)
           s == <<t>>
<1>7. panes = [p \in Panes |-> s] /\ active = [p \in Panes |-> 1]
  BY DEF QueriesInit
<1> HIDE DEF t
<1>6. s \in Seq(TabOf(Known)) /\ Len(s) = 1
  <2>1. t \in TabOf(Known)
    BY <1>4 DEF t
  <2>2. Len(s) = 1
    OBVIOUS
  <2> QED BY <2>1, <2>2
<1> HIDE DEF s
<1>5. PanesOK(panes, active, Known)
  <2>1. 1 \in 1..Len(s) /\ Len(s) <= MaxQueryTabs
    BY <1>6, QueriesAssumption
  <2>2. panes \in [Panes -> Seq(TabOf(Known))] /\ active \in [Panes -> Nat]
    BY <1>6, <1>7
  <2> QED BY <1>7, <2>1, <2>2 DEF PanesOK
<1> QED BY <1>2, <1>3, <1>5 DEF QueriesInv

\* What a pane's tabs hold they hold of more rows, too.
LEMMA KnownMore ==
    ASSUME NEW ps, NEW ac, NEW known, NEW more, known \subseteq more, PanesOK(ps, ac, known)
    PROVE  PanesOK(ps, ac, more)
<1>1. TabOf(known) \subseteq TabOf(more)
  BY DEF TabOf
<1>2. \A p \in Panes : ps[p] \in Seq(TabOf(more))
  BY <1>1 DEF PanesOK
<1>3. ps \in [Panes -> Seq(TabOf(more))]
  BY <1>2 DEF PanesOK
<1> QED BY <1>3 DEF PanesOK

\* A pane is given tabs and the one in front.
LEMMA Given ==
    ASSUME NEW known, PanesOK(panes, active, known), NEW p \in Panes,
           NEW s \in Seq(TabOf(known)), Len(s) <= MaxQueryTabs, NEW n \in 1..Len(s)
    PROVE  PanesOK([panes EXCEPT ![p] = s], [active EXCEPT ![p] = n], known)
BY DEF PanesOK

\* The tab in front, or another one, becomes another.
LEMMA PutTab ==
    ASSUME NEW known, PanesOK(panes, active, known), NEW p \in Panes,
           NEW i \in 1..Len(panes[p]), NEW t \in TabOf(known)
    PROVE  /\ PanesOK([panes EXCEPT ![p] = [@ EXCEPT ![i] = t]], active, known)
           /\ [panes EXCEPT ![p] = [@ EXCEPT ![i] = t]][p][i] = t
<1> DEFINE s == [panes[p] EXCEPT ![i] = t]
<1>1. panes[p] \in Seq(TabOf(known)) /\ Len(panes[p]) <= MaxQueryTabs /\ active[p] \in 1..Len(panes[p])
  BY DEF PanesOK
<1>2. s \in Seq(TabOf(known)) /\ Len(s) = Len(panes[p]) /\ s[i] = t
  BY <1>1, ExceptSeq
<1> HIDE DEF s
<1>3. PanesOK([panes EXCEPT ![p] = s], active, known) /\ [panes EXCEPT ![p] = s][p] = s
  BY <1>1, <1>2 DEF PanesOK
<1> QED BY <1>2, <1>3 DEF s

\* A tab comes to the front, and takes the window's connection or gives it its own.
LEMMA Adopted ==
    ASSUME NEW known, PanesOK(panes, active, known), current \in Sessions, NEW p \in Panes,
           NEW given \in Seq(TabOf(known)), Len(given) <= MaxQueryTabs,
           NEW index \in 1..Len(given), Adopting(p, given, index)
    PROVE  PanesOK(panes', active', known) /\ current' \in Sessions
<1> DEFINE connection == IF given[index].session = NoConnection THEN current ELSE given[index].session
           t == [given[index] EXCEPT !.session = connection]
           s == [given EXCEPT ![index] = t]
<1>1. given[index] \in TabOf(known)
  OBVIOUS
<1>2. connection \in Sessions /\ t \in TabOf(known)
  BY <1>1 DEF TabOf
<1>3. s \in Seq(TabOf(known)) /\ Len(s) = Len(given)
  BY <1>2, ExceptSeq
<1>4. /\ current' = connection /\ panes' = [panes EXCEPT ![p] = s]
      /\ active' = [active EXCEPT ![p] = index]
  BY DEF Adopting
<1> HIDE DEF s, connection
<1> QED BY <1>2, <1>3, <1>4, Given

LEMMA Pushed ==
    ASSUME NEW known, PanesOK(panes, active, known), current \in Sessions, activePane \in Panes,
           NEW tab \in TabOf(known), Pushing(tab)
    PROVE  PanesOK(panes', active', known) /\ current' \in Sessions
<1> DEFINE old == panes[activePane]
           s == Append(old, tab)
<1>1. old \in Seq(TabOf(known)) /\ Len(old) < MaxQueryTabs
  BY DEF PanesOK, Pushing
<1>2. /\ s \in Seq(TabOf(known)) /\ Len(s) = Len(old) + 1 /\ Len(old) + 1 \in 1..Len(s)
      /\ Len(s) <= MaxQueryTabs
  BY <1>1, QueriesAssumption
<1>3. Adopting(activePane, s, Len(old) + 1)
  BY DEF Pushing
<1> DEFINE n == Len(old) + 1
<1>4. n \in 1..Len(s) /\ Adopting(activePane, s, n)
  BY <1>2, <1>3
<1> HIDE DEF s, n
<1> QED BY <1>2, <1>4, Adopted

LEMMA FrontTabIs == QueriesInv => /\ FrontTab \in TabOf(Known) /\ FrontTab = panes[activePane][active[activePane]]
                               /\ active[activePane] \in 1..Len(panes[activePane])
                               /\ panes[activePane] \in Seq(TabOf(Known))
<1> SUFFICES ASSUME QueriesInv
             PROVE  /\ FrontTab \in TabOf(Known) /\ active[activePane] \in 1..Len(panes[activePane])
                    /\ panes[activePane] \in Seq(TabOf(Known))
  BY DEF FrontTab
<1>1. activePane \in Panes /\ PanesOK(panes, active, Known)
  BY DEF QueriesInv, PlaceOK
<1>2. active[activePane] \in 1..Len(panes[activePane]) /\ panes[activePane] \in Seq(TabOf(Known))
  BY <1>1 DEF PanesOK
<1> QED BY <1>2 DEF FrontTab

\* The steps that change no row and read no list.
LEMMA RowsStay ==
    ASSUME QueriesInv, UNCHANGED <<rows, sidebar, nextId, orphans, blind>>
    PROVE  RowsOK' /\ NamesAreOne' /\ Known' = Known
BY DEF QueriesInv, RowsOK, NamesAreOne, Known

LEMMA TypeKeeps == QueriesInv /\ Type => QueriesInv'
<1> SUFFICES ASSUME QueriesInv, Type PROVE QueriesInv'
  OBVIOUS
<1>1. PICK text \in Scripts : panes' = [panes EXCEPT ![activePane][active[activePane]].sql = text]
  BY DEF Type
<1> DEFINE t == [FrontTab EXCEPT !.sql = text]
<1>2. UNCHANGED <<rows, sidebar, nextId, orphans, blind, active, activePane, current, open>>
  BY DEF Type
<1>3. t \in TabOf(Known)
  BY FrontTabIs DEF TabOf, Sqls
<1>4. panes' = [panes EXCEPT ![activePane] = [@ EXCEPT ![active[activePane]] = t]]
  BY <1>1 DEF FrontTab
<1> HIDE DEF t
<1>5. PanesOK(panes', active, Known)
  BY <1>3, <1>4, FrontTabIs, PutTab DEF QueriesInv, PlaceOK
<1>6. PlaceOK'
  BY <1>2 DEF QueriesInv, PlaceOK
<1> QED BY <1>2, <1>5, <1>6, RowsStay DEF QueriesInv
LEMMA ListedIs ==
    ASSUME NEW of, NEW connection
    PROVE  /\ DOMAIN Listed(of, connection) \subseteq DOMAIN of
           /\ \A i \in DOMAIN Listed(of, connection) : Listed(of, connection)[i] = of[i]
BY DEF Listed

\* A row is written: the list's of that name, or the tab's own, or a new one.
LEMMA WriteKeeps ==
    ASSUME QueriesInv, NEW name, Write(FrontTab.saved_query, name),
           ~sheet /\ FrontTab.saved_query \in DOMAIN sidebar => name = sidebar[FrontTab.saved_query].name
    PROVE  QueriesInv' /\ DeletedStaysDeleted /\ SavesOneRow
<1> DEFINE own == FrontTab.saved_query
           fallback == IF own = Fresh THEN nextId ELSE own
<1>1. PICK id \in IdForSave(name, fallback) :
        /\ id \in Ids
        /\ nextId' = IF id = nextId THEN nextId + 1 ELSE nextId
        /\ rows' = [i \in DOMAIN rows \cup {id} |->
                      IF i = id THEN [connection |-> current, name |-> name, sql |-> FrontTab.sql]
                      ELSE rows[i]]
        /\ sidebar' = Listed(rows', current)
        /\ panes' = [panes EXCEPT ![activePane][active[activePane]].saved_query = id]
        /\ blind' = (blind \/ sidebar # Listed(rows, current))
        /\ UNCHANGED <<active, activePane, current, open, orphans>>
  BY DEF Write
<1>2. own \in {Fresh} \cup Known /\ FrontTab.sql \in Sqls
  BY FrontTabIs DEF TabOf
<1>3. /\ nextId \in Nat \ {0} /\ Known \subseteq 1..(nextId - 1) /\ DOMAIN rows \subseteq Known
      /\ DOMAIN sidebar \subseteq DOMAIN rows
  BY DEF QueriesInv, RowsOK, Known
<1>5. \/ id \in DOMAIN sidebar /\ sidebar[id].name = name /\ sidebar[id].connection = current
      \/ /\ id = fallback
         /\ \A i \in DOMAIN sidebar : ~(sidebar[i].name = name /\ sidebar[i].connection = current)
  BY <1>1 DEF IdForSave
<1>6. id \in Known \/ id = nextId
  BY <1>5, <1>2, <1>3
<1>7. Known' = Known \cup {id} /\ DOMAIN rows' = DOMAIN rows \cup {id}
  BY <1>1 DEF Known
<1>8. RowsOK'
  <2>1. nextId' \in Nat \ {0} /\ Known' \subseteq 1..(nextId' - 1)
    BY <1>1, <1>3, <1>6, <1>7
  <2>2. \A i \in DOMAIN rows' : rows'[i].sql \in Sqls
    BY <1>1, <1>2, <1>7 DEF QueriesInv, RowsOK
  <2>3. DOMAIN sidebar' \subseteq DOMAIN rows' /\ \A i \in DOMAIN sidebar' : sidebar'[i] = rows'[i]
    BY <1>1, ListedIs
  <2>4. \A i \in DOMAIN sidebar' : sidebar'[i].sql \in Sqls
    BY <2>2, <2>3
  <2> QED BY <2>1, <2>2, <2>3, <2>4 DEF RowsOK
<1>9. PlaceOK'
  BY <1>1 DEF QueriesInv, PlaceOK
<1> DEFINE t == [FrontTab EXCEPT !.saved_query = id]
<1>10. t \in TabOf(Known') /\ t.saved_query = id
  BY FrontTabIs, <1>7 DEF TabOf
<1>11. panes' = [panes EXCEPT ![activePane] = [@ EXCEPT ![active[activePane]] = t]]
  BY <1>1 DEF FrontTab
<1>12. PanesOK(panes, active, Known')
  BY <1>7, KnownMore DEF QueriesInv
<1> HIDE DEF t
<1>13. PanesOK(panes', active', Known') /\ panes'[activePane][active[activePane]] = t
  <2>1. active[activePane] \in 1..Len(panes[activePane]) /\ activePane \in Panes /\ active' = active
    BY FrontTabIs, <1>1 DEF QueriesInv, PlaceOK
  <2>2. t \in TabOf(Known')
    BY <1>10
  <2> DEFINE k == active[activePane]
  <2>3. k \in 1..Len(panes[activePane])
    BY <2>1
  <2> HIDE DEF k
  <2> DEFINE known == Known'
  <2>7. PanesOK(panes, active, known) /\ t \in TabOf(known)
    BY <2>2, <1>12
  <2> HIDE DEF known
  <2>4. PanesOK([panes EXCEPT ![activePane] = [@ EXCEPT ![k] = t]], active, Known')
    <3>1. PanesOK([panes EXCEPT ![activePane] = [@ EXCEPT ![k] = t]], active, known)
      BY <2>1, <2>3, <2>7, PutTab
    <3> QED BY <3>1 DEF known
  <2>5. [panes EXCEPT ![activePane] = [@ EXCEPT ![k] = t]][activePane][k] = t
    <3>1. activePane \in DOMAIN panes /\ panes[activePane] \in Seq(TabOf(known))
      BY <2>1, <2>7 DEF PanesOK
    <3>2. k \in DOMAIN panes[activePane]
      BY <3>1, <2>3
    <3> QED BY <3>1, <3>2, Zenon
  <2>6. panes' = [panes EXCEPT ![activePane] = [@ EXCEPT ![k] = t]]
    BY <1>11 DEF k
  <2> QED BY <2>1, <2>4, <2>5, <2>6 DEF k
\* A list that is the window's has every row of the window's connection.
<1>14. ASSUME sidebar = Listed(rows, current), NEW i \in DOMAIN rows, rows[i].connection = current
       PROVE  i \in DOMAIN sidebar /\ sidebar[i] = rows[i]
  BY <1>14 DEF Listed
<1>15. NamesAreOne'
  <2> SUFFICES ASSUME ~blind', NEW i \in DOMAIN rows', NEW j \in DOMAIN rows',
                      rows'[i].name = rows'[j].name, rows'[i].connection = rows'[j].connection
               PROVE  i = j
    BY DEF NamesAreOne
  <2>1. ~blind /\ sidebar = Listed(rows, current)
    BY <1>1
  <2>2. ASSUME NEW k \in DOMAIN rows, rows[k].name = name, rows[k].connection = current PROVE k = id
    <3>1. k \in DOMAIN sidebar /\ sidebar[k] = rows[k]
      BY <2>1, <2>2, <1>14
    <3>2. id \in DOMAIN sidebar /\ sidebar[id].name = name /\ sidebar[id].connection = current
      BY <3>1, <2>2, <1>5
    <3>3. id \in DOMAIN rows /\ rows[id] = sidebar[id]
      BY <3>2, <2>1, <1>3, ListedIs
    <3> QED BY <2>1, <2>2, <3>2, <3>3 DEF QueriesInv, NamesAreOne
  <2>3. rows'[id].name = name /\ rows'[id].connection = current
    BY <1>1
  <2>4. \A k \in DOMAIN rows' : k # id => k \in DOMAIN rows /\ rows'[k] = rows[k]
    BY <1>1
  <2>5. CASE i = id \/ j = id
    BY <2>2, <2>3, <2>4, <2>5
  <2>6. CASE i # id /\ j # id
    BY <2>1, <2>4, <2>6 DEF QueriesInv, NamesAreOne
  <2> QED BY <2>5, <2>6
<1>16. DeletedStaysDeleted
  BY <1>6, <1>7 DEF DeletedStaysDeleted, Known
<1>17. SavesOneRow
  <2> DEFINE written == {i \in DOMAIN rows' : i \notin DOMAIN rows \/ rows'[i] # rows[i]}
  <2>1. written \subseteq {id}
    BY <1>1
  <2>2. rows'[id].sql = FrontTab.sql /\ rows'[id].name = name
    BY <1>1
  <2>3. panes'[activePane][active[activePane]].saved_query = id
    BY <1>10, <1>13
  <2>4. ASSUME sidebar = Listed(rows, current), id \in DOMAIN rows
        PROVE  \/ FrontTab.saved_query = id
                  /\ (~sheet /\ id \in DOMAIN sidebar => rows'[id].name = rows[id].name)
               \/ rows'[id].name = rows[id].name /\ rows[id].connection = current
    <3>0. \A i \in DOMAIN sidebar : sidebar[i] = rows[i]
      BY <2>4, ListedIs
    <3>1. CASE id \in DOMAIN sidebar /\ sidebar[id].name = name /\ sidebar[id].connection = current
      BY <3>0, <3>1, <2>2
    <3>2. CASE id = fallback
      <4>1. id # nextId
        BY <2>4, <1>3
      <4>2. own = id
        BY <3>2, <4>1
      <4> QED BY <4>2, <3>0, <2>2
    <3> QED BY <3>1, <3>2, <1>5
  <2>5. SUFFICES ASSUME written # {} PROVE id \in written /\ written = {id}
    BY <2>2, <2>3, <2>4, <1>7 DEF SavesOneRow
  <2> QED BY <2>1, <2>5
<1> QED BY <1>8, <1>9, <1>13, <1>15, <1>16, <1>17 DEF QueriesInv

\* The steps that write no row leave the names as they are.
LEMMA NoneWritten ==
    ASSUME QueriesInv, rows' = rows \/ \E id : rows' = [i \in DOMAIN rows \ {id} |-> rows[i]],
           blind' = blind
    PROVE  NamesAreOne' /\ DeletedStaysDeleted /\ SavesOneRow
<1>1. DOMAIN rows' \subseteq DOMAIN rows /\ \A i \in DOMAIN rows' : rows'[i] = rows[i]
  OBVIOUS
<1> QED BY <1>1 DEF QueriesInv, NamesAreOne, DeletedStaysDeleted, SavesOneRow

LEMMA SaveQueryKeeps ==
    ASSUME QueriesInv, SaveQuery
    PROVE  QueriesInv' /\ DeletedStaysDeleted /\ SavesOneRow
<1> DEFINE own == FrontTab.saved_query
           name == IF own \in DOMAIN sidebar THEN sidebar[own].name ELSE Suggested[FrontTab.sql]
<1>1. CASE own = Fresh
  <2>1. UNCHANGED <<rows, sidebar, panes, active, activePane, current, open, nextId, blind, orphans>>
    BY <1>1 DEF SaveQuery, PromptForName
  <2> QED BY <2>1, NoneWritten, RowsStay DEF QueriesInv, PlaceOK
<1>2. CASE own # Fresh
  <2>1. Write(own, name)
    BY <1>2 DEF SaveQuery
  <2>2. own \in DOMAIN sidebar => name = sidebar[own].name
    OBVIOUS
  <2> HIDE DEF name
  <2> QED BY <2>1, <2>2, WriteKeeps
<1> QED BY <1>1, <1>2

LEMMA OnNamedKeeps ==
    ASSUME QueriesInv, OnNamed
    PROVE  QueriesInv' /\ DeletedStaysDeleted /\ SavesOneRow
<1>1. PICK name \in Names : Write(FrontTab.saved_query, name)
  BY DEF OnNamed
<1>2. sheet
  BY DEF OnNamed
<1> QED BY <1>1, <1>2, WriteKeeps

LEMMA OthersStay ==
    ASSUME QueriesInv, SaveQueryAs \/ OnDismissed
    PROVE  QueriesInv'
<1>1. UNCHANGED <<rows, sidebar, panes, active, activePane, current, open, nextId, blind, orphans>>
  BY DEF SaveQueryAs, OnDismissed, PromptForName
<1> QED BY <1>1, RowsStay DEF QueriesInv, PlaceOK

\* A new tab of a text the window has.
LEMMA QueryTabIs ==
    ASSUME NEW known, NEW text \in Sqls, NEW id \in {Fresh} \cup known, NEW c \in Sessions
    PROVE  QueryTab(text, id, c) \in TabOf(known)
BY DEF QueryTab, TabOf

LEMMA LoadKeeps == QueriesInv /\ LoadSavedQuery => QueriesInv'
<1> SUFFICES ASSUME QueriesInv, LoadSavedQuery PROVE QueriesInv'
  OBVIOUS
<1>1. PICK id \in DOMAIN sidebar :
        IF FrontTab.kind = "Query"
          THEN /\ panes' = [panes EXCEPT ![activePane][active[activePane]] =
                              [@ EXCEPT !.sql = sidebar[id].sql, !.saved_query = id]]
               /\ UNCHANGED <<active, current>>
          ELSE Pushing(QueryTab(sidebar[id].sql, id, current))
  BY DEF LoadSavedQuery
<1>2. UNCHANGED <<rows, sidebar, nextId, orphans, blind, activePane, open>>
  BY DEF LoadSavedQuery
<1>3. id \in Known /\ sidebar[id].sql \in Sqls
  BY DEF QueriesInv, RowsOK, Known
<1>4. activePane \in Panes /\ current \in Sessions /\ PanesOK(panes, active, Known)
  BY DEF QueriesInv, PlaceOK
<1>5. PanesOK(panes', active', Known) /\ current' \in Sessions
  <2>1. CASE FrontTab.kind = "Query"
    <3> DEFINE t == [FrontTab EXCEPT !.sql = sidebar[id].sql, !.saved_query = id]
    <3>1. t \in TabOf(Known)
      BY <1>3, FrontTabIs DEF TabOf
    <3>2. /\ panes' = [panes EXCEPT ![activePane] = [@ EXCEPT ![active[activePane]] = t]]
          /\ UNCHANGED <<active, current>>
      BY <2>1, <1>1 DEF FrontTab
    <3> HIDE DEF t
    <3> QED BY <3>1, <3>2, <1>4, FrontTabIs, PutTab
  <2>2. CASE FrontTab.kind # "Query"
    <3>1. Pushing(QueryTab(sidebar[id].sql, id, current))
      BY <2>2, <1>1
    <3>2. QueryTab(sidebar[id].sql, id, current) \in TabOf(Known)
      BY <1>3, <1>4, QueryTabIs
    <3> QED BY <3>1, <3>2, <1>4, Pushed
  <2> QED BY <2>1, <2>2
<1>6. PlaceOK'
  BY <1>2, <1>5 DEF QueriesInv, PlaceOK
<1> QED BY <1>2, <1>5, <1>6, RowsStay DEF QueriesInv

LEMMA DeleteKeeps ==
    ASSUME QueriesInv, DeleteSavedQuery
    PROVE  QueriesInv' /\ DeletedStaysDeleted /\ SavesOneRow
<1>1. PICK id \in DOMAIN sidebar :
        /\ rows' = [i \in DOMAIN rows \ {id} |-> rows[i]]
        /\ sidebar' = Listed(rows', current)
        /\ panes' = [panes EXCEPT ![activePane] =
                        [k \in DOMAIN @ |-> IF @[k].saved_query = id
                                            THEN [@[k] EXCEPT !.saved_query = Fresh] ELSE @[k]]]
        /\ orphans' = orphans \cup
                (IF \E p \in Panes \ {activePane}, k \in 1..MaxQueryTabs :
                        k \in DOMAIN panes[p] /\ panes[p][k].saved_query = id
                 THEN {id} ELSE {})
  BY DEF DeleteSavedQuery
<1>2. UNCHANGED <<active, activePane, current, open, nextId, blind>>
  BY DEF DeleteSavedQuery
<1>3. NamesAreOne' /\ DeletedStaysDeleted /\ SavesOneRow
  BY <1>1, <1>2, NoneWritten
<1>4. id \in Known /\ Known' \subseteq Known /\ Known \ {id} \subseteq Known'
  BY <1>1 DEF QueriesInv, RowsOK, Known
<1>5. RowsOK'
  <2>1. nextId' \in Nat \ {0} /\ Known' \subseteq 1..(nextId' - 1)
    BY <1>2, <1>4 DEF QueriesInv, RowsOK
  <2>2. \A i \in DOMAIN rows' : rows'[i].sql \in Sqls
    BY <1>1 DEF QueriesInv, RowsOK
  <2>3. DOMAIN sidebar' \subseteq DOMAIN rows' /\ \A i \in DOMAIN sidebar' : sidebar'[i] = rows'[i]
    BY <1>1, ListedIs
  <2> QED BY <2>1, <2>2, <2>3 DEF RowsOK
<1>6. PlaceOK'
  BY <1>2 DEF QueriesInv, PlaceOK
<1>7. activePane \in Panes /\ PanesOK(panes, active, Known)
  BY DEF QueriesInv, PlaceOK
<1> DEFINE of == panes[activePane]
           s == [k \in DOMAIN of |-> IF of[k].saved_query = id
                                     THEN [of[k] EXCEPT !.saved_query = Fresh] ELSE of[k]]
<1>8. of \in Seq(TabOf(Known)) /\ DOMAIN of = 1..Len(of) /\ Len(of) \in Nat
      /\ Len(of) <= MaxQueryTabs /\ active[activePane] \in 1..Len(of)
  BY <1>7 DEF PanesOK
<1>9. ASSUME NEW k \in 1..Len(of)
      PROVE  (IF of[k].saved_query = id
                THEN [of[k] EXCEPT !.saved_query = Fresh] ELSE of[k]) \in TabOf(Known')
  <2>1. of[k] \in TabOf(Known)
    BY <1>8
  <2> QED BY <2>1, <1>4 DEF TabOf
<1>10. s \in Seq(TabOf(Known')) /\ Len(s) = Len(of)
  BY <1>8, <1>9
<1>11. ASSUME NEW p \in Panes, p # activePane PROVE panes[p] \in Seq(TabOf(Known'))
  <2>1. panes[p] \in Seq(TabOf(Known)) /\ Len(panes[p]) <= MaxQueryTabs /\ Len(panes[p]) \in Nat
    BY <1>7 DEF PanesOK
  <2>2. ASSUME NEW k \in 1..Len(panes[p]) PROVE panes[p][k] \in TabOf(Known')
    <3>1. panes[p][k] \in TabOf(Known) /\ k \in DOMAIN panes[p] /\ k \in 1..MaxQueryTabs
      BY <2>1, QueriesAssumption
    <3>2. panes[p][k].saved_query = id => id \in orphans'
      BY <1>1, <3>1, <1>11
    <3>3. panes[p][k].saved_query \in {Fresh} \cup Known'
      BY <3>1, <3>2, <1>4 DEF TabOf, Known
    <3> QED BY <3>1, <3>3 DEF TabOf
  <2> QED BY <2>1, <2>2
<1>12. panes' = [panes EXCEPT ![activePane] = s]
  BY <1>1
<1> HIDE DEF s, of
<1>13. PanesOK(panes', active', Known')
  <2>1. panes \in [Panes -> Seq(TabOf(Known))] /\ active \in [Panes -> Nat] /\ active' = active
    BY <1>7, <1>2 DEF PanesOK
  <2>2. \A p \in Panes : panes'[p] = IF p = activePane THEN s ELSE panes[p]
    BY <2>1, <1>12
  <2>3. \A p \in Panes : Len(panes[p]) <= MaxQueryTabs /\ active[p] \in 1..Len(panes[p])
    BY <1>7 DEF PanesOK
  <2>4. \A p \in Panes : panes'[p] \in Seq(TabOf(Known'))
    BY <2>2, <1>10, <1>11
  <2>5. panes' \in [Panes -> Seq(TabOf(Known'))]
    BY <2>1, <2>4, <1>12
  <2>6. \A p \in Panes : Len(panes'[p]) <= MaxQueryTabs /\ active[p] \in 1..Len(panes'[p])
    BY <2>2, <2>3, <1>8, <1>10
  <2> QED BY <2>1, <2>5, <2>6 DEF PanesOK
<1> QED BY <1>3, <1>5, <1>6, <1>13 DEF QueriesInv

LEMMA ReloadKeeps == QueriesInv /\ ReloadLists => QueriesInv'
<1> SUFFICES ASSUME QueriesInv, ReloadLists PROVE QueriesInv'
  OBVIOUS
<1>1. /\ UNCHANGED <<rows, panes, active, activePane, current, open, nextId, blind, orphans>>
      /\ sidebar' = Listed(rows, current)
  BY DEF ReloadLists
<1>2. RowsOK'
  BY <1>1, ListedIs DEF QueriesInv, RowsOK, Known
<1> QED BY <1>1, <1>2 DEF QueriesInv, PlaceOK, NamesAreOne, Known

LEMMA NewScriptKeeps == QueriesInv /\ NewScript => QueriesInv'
<1> SUFFICES ASSUME QueriesInv, NewScript PROVE QueriesInv'
  OBVIOUS
<1>1. UNCHANGED <<rows, sidebar, nextId, orphans, blind, activePane, open>>
      /\ Pushing(QueryTab("", Fresh, current))
  BY DEF NewScript
<1>2. activePane \in Panes /\ current \in Sessions /\ PanesOK(panes, active, Known)
  BY DEF QueriesInv, PlaceOK
<1>3. QueryTab("", Fresh, current) \in TabOf(Known)
  BY <1>2, QueryTabIs DEF Sqls
<1>4. PanesOK(panes', active', Known) /\ current' \in Sessions
  BY <1>1, <1>2, <1>3, Pushed
<1>5. PlaceOK'
  BY <1>1, <1>4 DEF QueriesInv, PlaceOK
<1> QED BY <1>1, <1>4, <1>5, RowsStay DEF QueriesInv

LEMMA OpenTableKeeps == QueriesInv /\ OpenTable => QueriesInv'
<1> SUFFICES ASSUME QueriesInv, OpenTable PROVE QueriesInv'
  OBVIOUS
<1>1. UNCHANGED <<rows, sidebar, nextId, orphans, blind, activePane, open>>
  BY DEF OpenTable
<1>2. activePane \in Panes /\ current \in Sessions /\ open \subseteq Origins
      /\ PanesOK(panes, active, Known)
  BY DEF QueriesInv, PlaceOK
<1>3. PICK connection \in open :
        LET table == [QueryTab("", Fresh, connection) EXCEPT !.kind = "Table"]
            here == {k \in DOMAIN panes[activePane] : panes[activePane][k] = table}
        IN IF here = {} THEN Pushing(table)
           ELSE \E k \in here : Adopting(activePane, panes[activePane], k)
  BY DEF OpenTable
<1> DEFINE table == [QueryTab("", Fresh, connection) EXCEPT !.kind = "Table"]
<1>4. table \in TabOf(Known)
  BY <1>2 DEF QueryTab, TabOf, Sqls, Sessions
<1>5. panes[activePane] \in Seq(TabOf(Known)) /\ Len(panes[activePane]) <= MaxQueryTabs
      /\ DOMAIN panes[activePane] = 1..Len(panes[activePane])
  BY <1>2 DEF PanesOK
<1>6. \/ Pushing(table)
      \/ \E k \in 1..Len(panes[activePane]) : Adopting(activePane, panes[activePane], k)
  BY <1>3, <1>5
<1> HIDE DEF table
<1>7. PanesOK(panes', active', Known) /\ current' \in Sessions
  BY <1>2, <1>4, <1>5, <1>6, Pushed, Adopted
<1>8. PlaceOK'
  BY <1>1, <1>7 DEF QueriesInv, PlaceOK
<1> QED BY <1>1, <1>7, <1>8, RowsStay DEF QueriesInv

LEMMA FocusKeeps == QueriesInv /\ FocusOrigin => QueriesInv'
<1> SUFFICES ASSUME QueriesInv, FocusOrigin PROVE QueriesInv'
  OBVIOUS
<1>1. UNCHANGED <<rows, sidebar, nextId, orphans, blind, panes, active, activePane, open>>
      /\ current' \in open
  BY DEF FocusOrigin
<1>2. PlaceOK'
  BY <1>1 DEF QueriesInv, PlaceOK, Sessions
<1> QED BY <1>1, <1>2, RowsStay DEF QueriesInv

LEMMA ActivateKeeps == QueriesInv /\ (ActivateTab \/ ActivatePane) => QueriesInv'
<1> SUFFICES ASSUME QueriesInv, ActivateTab \/ ActivatePane PROVE QueriesInv'
  OBVIOUS
<1>1. UNCHANGED <<rows, sidebar, nextId, orphans, blind, open>>
  BY DEF ActivateTab, ActivatePane
<1>2. activePane \in Panes /\ current \in Sessions /\ PanesOK(panes, active, Known)
  BY DEF QueriesInv, PlaceOK
<1>3. \A p \in Panes : /\ panes[p] \in Seq(TabOf(Known)) /\ Len(panes[p]) <= MaxQueryTabs
                        /\ active[p] \in 1..Len(panes[p])
                        /\ DOMAIN panes[p] = 1..Len(panes[p])
  BY <1>2 DEF PanesOK
<1>4. PICK p \in Panes :
        /\ activePane' \in Panes
        /\ \E k \in 1..Len(panes[p]) : Adopting(p, panes[p], k)
  <2>1. CASE ActivateTab
    <3>1. \E k \in 1..Len(panes[activePane]) : Adopting(activePane, panes[activePane], k)
      BY <2>1, <1>2, <1>3 DEF ActivateTab
    <3>2. activePane' = activePane
      BY <2>1 DEF ActivateTab
    <3> QED BY <3>1, <3>2, <1>2
  <2>2. CASE ActivatePane
    <3>1. PICK p \in Panes : activePane' = p /\ Adopting(p, panes[p], active[p])
      BY <2>2 DEF ActivatePane
    <3> QED BY <3>1, <1>3
  <2> QED BY <2>1, <2>2
<1>5. PanesOK(panes', active', Known) /\ current' \in Sessions
  BY <1>2, <1>3, <1>4, Adopted
<1>6. PlaceOK'
  BY <1>1, <1>4, <1>5 DEF QueriesInv, PlaceOK
<1> QED BY <1>1, <1>5, <1>6, RowsStay DEF QueriesInv

LEMMA OpenAndBindKeeps == QueriesInv /\ OpenAndBind => QueriesInv'
<1> SUFFICES ASSUME QueriesInv, OpenAndBind PROVE QueriesInv'
  OBVIOUS
<1>1. UNCHANGED <<rows, nextId, orphans, blind, activePane>>
  BY DEF OpenAndBind
<1>2. activePane \in Panes /\ PanesOK(panes, active, Known)
  BY DEF QueriesInv, PlaceOK
<1>3. PICK connection \in Origins :
        /\ open' = open \cup {connection}
        /\ current' = connection /\ sidebar' = Listed(rows, connection)
        /\ IF FrontTab.session \in {NoConnection, connection}
             THEN /\ panes' = [panes EXCEPT ![activePane][active[activePane]].session = connection]
                  /\ UNCHANGED active
             ELSE /\ Len(panes[activePane]) < MaxQueryTabs
                  /\ panes' = [panes EXCEPT ![activePane] = Append(@, QueryTab("", Fresh, connection))]
                  /\ active' = [active EXCEPT ![activePane] = Len(panes'[activePane])]
  BY DEF OpenAndBind
<1>4. PanesOK(panes', active', Known)
  <2>1. CASE FrontTab.session \in {NoConnection, connection}
    <3> DEFINE t == [FrontTab EXCEPT !.session = connection]
    <3>1. t \in TabOf(Known)
      BY FrontTabIs DEF TabOf, Sessions
    <3>2. panes' = [panes EXCEPT ![activePane] = [@ EXCEPT ![active[activePane]] = t]]
          /\ active' = active
      BY <2>1, <1>3 DEF FrontTab
    <3> HIDE DEF t
    <3> QED BY <3>1, <3>2, <1>2, FrontTabIs, PutTab
  <2>2. CASE FrontTab.session \notin {NoConnection, connection}
    <3> DEFINE t == QueryTab("", Fresh, connection)
               s == Append(panes[activePane], t)
    <3>1. t \in TabOf(Known)
      BY QueryTabIs DEF Sqls, Sessions
    <3>2. panes[activePane] \in Seq(TabOf(Known)) /\ Len(panes[activePane]) < MaxQueryTabs
      BY <2>2, <1>2, <1>3 DEF PanesOK
    <3> HIDE DEF t
    <3>3. s \in Seq(TabOf(Known)) /\ Len(s) \in 1..Len(s) /\ Len(s) <= MaxQueryTabs
      BY <3>1, <3>2, QueriesAssumption
    <3>4. panes' = [panes EXCEPT ![activePane] = s]
          /\ active' = [active EXCEPT ![activePane] = Len(panes'[activePane])]
      BY <2>2, <1>3 DEF t
    <3> HIDE DEF s
    <3>5. panes'[activePane] = s
      BY <3>4, <1>2 DEF PanesOK
    <3>6. active' = [active EXCEPT ![activePane] = Len(s)]
      BY <3>4, <3>5
    <3> DEFINE n == Len(s)
    <3>7. n \in 1..Len(s) /\ active' = [active EXCEPT ![activePane] = n]
      BY <3>3, <3>6
    <3> HIDE DEF n
    <3>8. PanesOK([panes EXCEPT ![activePane] = s], [active EXCEPT ![activePane] = n], Known)
      BY <3>3, <3>7, <1>2, Given
    <3> QED BY <3>4, <3>7, <3>8
  <2> QED BY <2>1, <2>2
<1>5. PlaceOK'
  BY <1>1, <1>2, <1>3 DEF QueriesInv, PlaceOK, Sessions
<1>6. RowsOK' /\ NamesAreOne' /\ Known' = Known
  <2>1. DOMAIN sidebar' \subseteq DOMAIN rows /\ \A i \in DOMAIN sidebar' : sidebar'[i] = rows[i]
    <3>1. sidebar' = Listed(rows, connection)
      BY <1>3
    <3>2. /\ DOMAIN Listed(rows, connection) \subseteq DOMAIN rows
          /\ \A i \in DOMAIN Listed(rows, connection) : Listed(rows, connection)[i] = rows[i]
      BY ListedIs
    <3> QED BY <3>1, <3>2, Zenon
  <2>2. NamesAreOne'
    BY <1>1 DEF QueriesInv, NamesAreOne
  <2>3. Known' = Known
    BY <1>1 DEF Known
  <2>4. RowsOK'
    BY <1>1, <2>1, <2>3 DEF QueriesInv, RowsOK
  <2> QED BY <2>2, <2>3, <2>4
<1> QED BY <1>4, <1>5, <1>6 DEF QueriesInv

LEMMA QueriesStep ==
    QueriesInv /\ [QueriesNext]_savedVars =>
        QueriesInv' /\ [NamesAreOne' /\ DeletedStaysDeleted /\ SavesOneRow]_savedVars
<1> SUFFICES ASSUME QueriesInv, [QueriesNext]_savedVars
             PROVE  QueriesInv' /\ [NamesAreOne' /\ DeletedStaysDeleted /\ SavesOneRow]_savedVars
  OBVIOUS
<1>1. CASE UNCHANGED savedVars
  BY <1>1 DEF savedVars, QueriesInv, RowsOK, PlaceOK, PanesOK, NamesAreOne, Known
<1>2. CASE SaveQuery \/ OnNamed \/ DeleteSavedQuery
  BY <1>2, SaveQueryKeeps, OnNamedKeeps, DeleteKeeps DEF QueriesInv
<1>3. CASE \/ Type \/ SaveQueryAs \/ OnDismissed \/ LoadSavedQuery \/ ReloadLists \/ NewScript
           \/ OpenTable \/ FocusOrigin \/ ActivateTab \/ ActivatePane \/ OpenAndBind
  <2>1. QueriesInv'
    BY <1>3, TypeKeeps, OthersStay, LoadKeeps, ReloadKeeps, NewScriptKeeps, OpenTableKeeps,
       FocusKeeps, ActivateKeeps, OpenAndBindKeeps
  <2>2. rows' = rows /\ blind' = blind
    BY <1>3 DEF Type, SaveQueryAs, OnDismissed, PromptForName, LoadSavedQuery, ReloadLists,
       NewScript, OpenTable, FocusOrigin, ActivateTab, ActivatePane, OpenAndBind
  <2> QED BY <2>1, <2>2, NoneWritten
<1> QED BY <1>1, <1>2, <1>3 DEF QueriesNext

\* One row of a name, saves that write one row, and deletions that last: the
\* invariant is of which rows a tab may still write, and that a list that is the
\* window's own has every row of its connection.
THEOREM QueriesKeepTheirNames == QueriesSpec => QueriesHold
<1>1. QueriesInv /\ [QueriesNext]_savedVars => QueriesInv'
  BY QueriesStep
<1>2. QueriesInv /\ [QueriesNext]_savedVars =>
        [NamesAreOne' /\ DeletedStaysDeleted /\ SavesOneRow]_savedVars
  BY QueriesStep
<1> QED BY <1>1, <1>2, QueriesInitially, PTL DEF QueriesSpec, QueriesHold

-----------------------------------------------------------------------------
(***************************************************************************)
(* The local file: the invariant says how far a migration came, that a     *)
(* connection is listed once, and whose secrets there are.                 *)
(***************************************************************************)
\* SetToSeq lists a finite set, every element of it once.
LEMMA SetToSeqLists ==
    ASSUME NEW S, IsFiniteSet(S)
    PROVE  SetToSeq(S) \in Seq(S) /\ IsInjective(SetToSeq(S))
<1> DEFINE n == Cardinality(S)
<1>1. n \in Nat /\ ExistsBijection(1..n, S)
  BY FS_CardinalityType
<1>2. PICK f \in Bijection(1..n, S) : TRUE
  BY <1>1 DEF ExistsBijection
<1>3. f \in [1..n -> S] /\ IsInjective(f)
  BY <1>2 DEF Bijection, Injection, IsInjective
<1>4. SetToSeq(S) = CHOOSE g \in [1..n -> S] : IsInjective(g)
  BY Zenon DEF SetToSeq
<1>5. SetToSeq(S) \in [1..n -> S] /\ IsInjective(SetToSeq(S))
  <2> HIDE DEF n
  <2>1. \E g \in [1..n -> S] : IsInjective(g)
    BY <1>3
  <2> QED BY <1>4, <2>1, Zenon
<1> QED BY <1>1, <1>5, SeqDef

\* A sequence with one of its elements taken out.
LEMMA TakenOut ==
    ASSUME NEW S, NEW s \in Seq(S), NEW n \in 1..Len(s)
    PROVE  /\ RemoveAt(s, n) \in Seq(S) /\ Len(RemoveAt(s, n)) = Len(s) - 1
           /\ \A i \in 1..(Len(s) - 1) : RemoveAt(s, n)[i] = s[IF i < n THEN i ELSE i + 1]
<1> DEFINE before == n - 1
           after == n + 1
           last == Len(s)
           a == SubSeq(s, 1, before)
           b == SubSeq(s, after, last)
<1>1. last \in Nat /\ n \in 1..last /\ before \in 0..last /\ after \in 1..(last + 1) /\ last = Len(s)
  OBVIOUS
<1>2. before = n - 1 /\ after = n + 1
  OBVIOUS
<1>3. RemoveAt(s, n) = a \o b
  BY DEF RemoveAt
<1> HIDE DEF before, after, last
<1>4. a \in Seq(S) /\ Len(a) = before /\ \A i \in 1..before : a[i] = s[i]
  <2>1. \A i \in 1..before : s[i] \in S
    BY <1>1
  <2> QED BY <1>1, <2>1
<1>5. /\ b \in Seq(S) /\ Len(b) = (last + 1) - after
      /\ \A i \in 1..((last + 1) - after) : b[i] = s[after + i - 1]
  BY <1>1, SubSeqProperties
<1> HIDE DEF a, b
<1>6. /\ a \o b \in Seq(S) /\ Len(a \o b) = Len(a) + Len(b)
      /\ \A i \in 1..(Len(a) + Len(b)) : (a \o b)[i] = IF i <= Len(a) THEN a[i] ELSE b[i - Len(a)]
  BY <1>4, <1>5, ConcatProperties
<1>7. Len(a) + Len(b) = last - 1
  BY <1>1, <1>2, <1>4, <1>5
<1>8. ASSUME NEW i \in 1..(last - 1) PROVE (a \o b)[i] = s[IF i < n THEN i ELSE i + 1]
  <2>1. (a \o b)[i] = IF i <= Len(a) THEN a[i] ELSE b[i - Len(a)]
    BY <1>6, <1>7
  <2>2. CASE i < n
    <3>1. i \in 1..before /\ i <= Len(a)
      BY <2>2, <1>1, <1>2, <1>4
    <3>2. a[i] = s[i]
      BY <3>1, <1>4
    <3> QED BY <2>1, <2>2, <3>1, <3>2
  <2>3. CASE ~(i < n)
    <3> DEFINE k == i - Len(a)
    <3>1. ~(i <= Len(a)) /\ k \in 1..((last + 1) - after) /\ after + k - 1 = i + 1
      BY <2>3, <1>1, <1>2, <1>4
    <3> HIDE DEF k
    <3>2. b[k] = s[after + k - 1]
      BY <3>1, <1>5
    <3>3. (a \o b)[i] = b[k]
      BY <2>1, <3>1 DEF k
    <3> QED BY <2>3, <3>1, <3>2, <3>3
  <2> QED BY <2>2, <2>3
<1> QED BY <1>1, <1>3, <1>6, <1>7, <1>8

\* What was listed once is listed once with another behind it, and with one out.
LEMMA OnceMore ==
    ASSUME NEW S, NEW s \in Seq(S), IsInjective(s), NEW e \in S, ~Contains(s, e)
    PROVE  Append(s, e) \in Seq(S) /\ IsInjective(Append(s, e))
<1>1. /\ Append(s, e) \in Seq(S) /\ Len(Append(s, e)) = Len(s) + 1 /\ Len(s) \in Nat
      /\ \A i \in 1..Len(s) : Append(s, e)[i] = s[i]
      /\ Append(s, e)[Len(s) + 1] = e
  OBVIOUS
<1>2. \A i \in 1..Len(s) : s[i] # e
  BY DEF Contains
<1>3. \A i, j \in 1..Len(s) : s[i] = s[j] => i = j
  BY DEF IsInjective
<1>4. ASSUME NEW i \in 1..(Len(s) + 1), NEW j \in 1..(Len(s) + 1), Append(s, e)[i] = Append(s, e)[j]
      PROVE  i = j
  BY <1>1, <1>2, <1>3, <1>4
<1>5. DOMAIN Append(s, e) = 1..(Len(s) + 1)
  BY <1>1
<1> QED BY <1>1, <1>4, <1>5 DEF IsInjective

LEMMA OnceLess ==
    ASSUME NEW S, NEW s \in Seq(S), IsInjective(s), NEW n \in 1..Len(s)
    PROVE  RemoveAt(s, n) \in Seq(S) /\ IsInjective(RemoveAt(s, n))
<1> DEFINE r == RemoveAt(s, n)
<1>1. /\ r \in Seq(S) /\ Len(r) = Len(s) - 1
      /\ \A i \in 1..(Len(s) - 1) : r[i] = s[IF i < n THEN i ELSE i + 1]
  BY TakenOut
<1> HIDE DEF r
<1>2. Len(s) \in Nat /\ DOMAIN r = 1..(Len(s) - 1)
  BY <1>1
<1>3. \A i, j \in 1..Len(s) : s[i] = s[j] => i = j
  BY DEF IsInjective
<1>4. ASSUME NEW i \in 1..(Len(s) - 1), NEW j \in 1..(Len(s) - 1), r[i] = r[j] PROVE i = j
  <2> DEFINE p == IF i < n THEN i ELSE i + 1
             q == IF j < n THEN j ELSE j + 1
  <2>1. p \in 1..Len(s) /\ q \in 1..Len(s) /\ (p = q => i = j)
    BY <1>2
  <2>2. s[p] = s[q]
    BY <1>1, <1>4
  <2> QED BY <2>1, <2>2, <1>3
<1>5. IsInjective(r)
  BY <1>2, <1>4 DEF IsInjective
<1> QED BY <1>1, <1>5 DEF r
-----------------------------------------------------------------------------
Answers == Passwords \cup {NoPassword, Unread}

LocalTypeOK ==
    /\ version \in 0..SCHEMA_VERSION /\ applied \in 0..Statements /\ migrating \in 0..(Statements + 1)
    /\ order \in Seq(Kept) /\ listing \in Seq(Kept)
    /\ up \in BOOLEAN /\ store \in {"none", "open"} /\ torn \in BOOLEAN
    /\ keychain \in [Kept -> Answers] /\ cache \in [Kept -> Answers]
    /\ reads \subseteq [connection : Kept, answer : Answers]

\* A file has the statements of its version; between two versions it has those
\* before the one its migration is at, and only a migration that was cut short
\* leaves it with more.
MigrationOK ==
    /\ Applied(version) <= applied
    /\ migrating > 0 => /\ up /\ store = "none" /\ version < SCHEMA_VERSION
                        /\ Applied(version) < migrating /\ migrating <= applied + 1
                        /\ ~torn => applied = migrating - 1
    /\ migrating = 0 /\ ~torn => applied = Applied(version)
    /\ store = "open" => up /\ version = SCHEMA_VERSION /\ listing = order
    /\ Running /\ store = "none" => torn

\* What a read has been told is what the Keychain holds, outside of a race.
SecretsOK ==
    \A c \in Kept \ raced :
        /\ cache[c] \in {Unread, keychain[c]}
        /\ \A r \in reads : r.connection = c => r.answer \in {Unread, keychain[c]}

LocalInv == LocalTypeOK /\ MigrationOK /\ IsInjective(order) /\ SecretsOK

LEMMA AppliedIs ==
    /\ Applied(0) = 0 /\ Applied(1) = 5 /\ Applied(2) = 6 /\ Applied(3) = 11
    /\ \A v \in 0..3 : Applied(v) \in 0..11 /\ (v < 3 => Applied(v) < 11)
<1>1. Applied(0) = 0 /\ Applied(1) = 5 /\ Applied(2) = 6 /\ Applied(3) = 11
  BY DEF Applied, Statements
<1>2. \A v \in 0..3 : v = 0 \/ v = 1 \/ v = 2 \/ v = 3
  OBVIOUS
<1> HIDE DEF Applied
<1> QED BY <1>1, <1>2

LEMMA LocalInitially == LocalInit => LocalInv
<1> SUFFICES ASSUME LocalInit PROVE LocalInv
  OBVIOUS
<1> USE DEF SCHEMA_VERSION, Statements
<1>1. order \in Seq(Kept) /\ IsInjective(order)
  <2>1. CASE version = 0
    <3>1. << >> \in Seq(Kept) /\ DOMAIN << >> = 1..0
      OBVIOUS
    <3>2. \A i \in 1..0 : FALSE
      OBVIOUS
    <3>3. order = << >>
      BY <2>1 DEF LocalInit
    <3> QED BY <3>1, <3>2, <3>3 DEF IsInjective
  <2>2. CASE version # 0
    BY <2>2, SetToSeqLists, LocalAssumption DEF LocalInit
  <2> QED BY <2>1, <2>2
<1>2. version \in 0..3 /\ applied = Applied(version)
  BY LocalAssumption DEF LocalInit
<1>3. applied \in 0..11 /\ (version = 3 <=> applied = 11)
  BY <1>2, AppliedIs
<1>4. LocalTypeOK
  <2>1. << >> \in Seq(Kept)
    OBVIOUS
  <2>2. listing \in Seq(Kept) /\ reads = {}
    BY <2>1 DEF LocalInit
  <2>3. keychain \in [Kept -> Answers] /\ cache \in [Kept -> Answers]
    BY DEF LocalInit, Answers
  <2>4. up \in BOOLEAN /\ store \in {"none", "open"} /\ torn \in BOOLEAN /\ migrating = 0
    BY DEF LocalInit
  <2> QED BY <1>1, <1>2, <1>3, <2>2, <2>3, <2>4 DEF LocalTypeOK
<1>5. MigrationOK
  BY <1>2, <1>3 DEF LocalInit, MigrationOK, Running
<1>6. SecretsOK
  BY DEF LocalInit, SecretsOK
<1> QED BY <1>1, <1>4, <1>5, <1>6 DEF LocalInv
LEMMA VersionIs ==
    LocalInv => /\ version \in 0..3 /\ applied \in 0..11 /\ migrating \in 0..12
                /\ Applied(version) \in 0..11 /\ Applied(3) = 11
                /\ (version < 3 => Applied(version) < 11)
BY AppliedIs DEF LocalInv, LocalTypeOK, SCHEMA_VERSION, Statements

\* A step that leaves the Keychain and what is known of it alone.
LEMMA SecretsStay ==
    ASSUME LocalInv, UNCHANGED secrets
    PROVE  /\ SecretsOK'
           /\ keychain' \in [Kept -> Answers] /\ cache' \in [Kept -> Answers]
           /\ reads' \subseteq [connection : Kept, answer : Answers]
BY DEF LocalInv, LocalTypeOK, SecretsOK, secrets

LEMMA StartsKeeps == LocalInv /\ ProcessStarts => LocalInv'
<1> SUFFICES ASSUME LocalInv, ProcessStarts PROVE LocalInv'
  OBVIOUS
<1> USE DEF SCHEMA_VERSION, Statements
<1>1. UNCHANGED <<version, applied, order, torn, writes>> /\ UNCHANGED secrets /\ ~up /\ up' = TRUE
  BY DEF ProcessStarts, onDisk
<1>2. << >> \in Seq(Kept)
  OBVIOUS
<1>3. migrating = 0
  BY <1>1, VersionIs DEF LocalInv, MigrationOK
<1>4. CASE version >= 3
  <2>1. store' = "open" /\ migrating' = 0 /\ listing' = order /\ version = 3
    BY <1>4, <1>1, VersionIs DEF ProcessStarts, StoreOpens
  <2>2. LocalTypeOK'
    BY <2>1, <1>1, SecretsStay DEF LocalInv, LocalTypeOK
  <2>3. MigrationOK'
    BY <2>1, <1>1, <1>3, VersionIs DEF LocalInv, MigrationOK, Running
  <2> QED BY <2>2, <2>3, <1>1, SecretsStay DEF LocalInv
<1>5. CASE ~(version >= 3)
  <2>1. store' = "none" /\ migrating' = Applied(version) + 1 /\ listing' = <<>>
    BY <1>5 DEF ProcessStarts
  <2>2. migrating' \in 1..12
    BY <2>1, VersionIs
  <2>3. LocalTypeOK'
    BY <2>1, <2>2, <1>1, <1>2, SecretsStay DEF LocalInv, LocalTypeOK
  <2>4. MigrationOK'
    BY <2>1, <2>2, <1>1, <1>3, <1>5, VersionIs DEF LocalInv, MigrationOK, Running
  <2> QED BY <2>3, <2>4, <1>1, SecretsStay DEF LocalInv
<1> QED BY <1>4, <1>5

LEMMA MigrateKeeps == LocalInv /\ Migrate => LocalInv'
<1> SUFFICES ASSUME LocalInv, Migrate PROVE LocalInv'
  OBVIOUS
<1> USE DEF SCHEMA_VERSION, Statements
<1>1. UNCHANGED <<order, up, writes, torn>> /\ UNCHANGED secrets /\ up /\ migrating > 0
  BY DEF Migrate
<1>2. /\ store = "none" /\ version < 3 /\ Applied(version) < migrating /\ migrating <= applied + 1
      /\ ~torn => applied = migrating - 1
      /\ Applied(version) <= applied
  BY <1>1 DEF LocalInv, MigrationOK
<1>3. IsInjective(order')
  BY <1>1 DEF LocalInv
<1>4. CASE migrating > 11
  <2>1. version' = 3 /\ store' = "open" /\ migrating' = 0 /\ listing' = order /\ applied' = applied
        /\ applied = 11
    BY <1>4, <1>2, VersionIs DEF Migrate, StoreOpens
  <2>2. LocalTypeOK'
    BY <2>1, <1>1, SecretsStay DEF LocalInv, LocalTypeOK
  <2>3. Applied(version') = 11
    BY <2>1, VersionIs
  <2>4. MigrationOK'
    BY <2>1, <2>3, <1>1 DEF MigrationOK, Running
  <2> QED BY <2>2, <2>4, <1>1, <1>3, SecretsStay DEF LocalInv
<1>5. CASE ~(migrating > 11) /\ migrating <= applied /\ ~Repeatable(migrating)
  <2>1. UNCHANGED <<version, applied, store, listing>> /\ migrating' = 0
    BY <1>5 DEF Migrate
  <2>2. torn
    BY <1>2, <1>5, VersionIs
  <2>3. LocalTypeOK'
    BY <2>1, <1>1, SecretsStay DEF LocalInv, LocalTypeOK
  <2>4. MigrationOK'
    BY <2>1, <2>2, <1>1, <1>2 DEF MigrationOK, Running
  <2> QED BY <2>3, <2>4, <1>1, <1>3, SecretsStay DEF LocalInv
<1>6. CASE ~(migrating > 11) /\ ~(migrating <= applied /\ ~Repeatable(migrating))
  <2>1. /\ UNCHANGED <<version, store, listing>> /\ migrating' = migrating + 1
        /\ applied' = IF migrating > applied THEN migrating ELSE applied
    BY <1>6 DEF Migrate
  <2>2. migrating' \in 1..12 /\ applied' \in 0..11
    BY <2>1, <1>1, <1>6, VersionIs
  <2>3. LocalTypeOK'
    BY <2>1, <2>2, <1>1, SecretsStay DEF LocalInv, LocalTypeOK
  <2>4. Applied(version) <= applied' /\ Applied(version) < migrating' /\ migrating' <= applied' + 1
        /\ (~torn => applied' = migrating' - 1)
    BY <2>1, <1>1, <1>2, VersionIs
  <2>5. MigrationOK'
    BY <2>1, <2>2, <2>4, <1>1, <1>2 DEF MigrationOK, Running
  <2> QED BY <2>3, <2>5, <1>1, <1>3, SecretsStay DEF LocalInv
<1> QED BY <1>4, <1>5, <1>6

LEMMA MigrateFailsKeeps == LocalInv /\ MigrateFails => LocalInv'
<1> SUFFICES ASSUME LocalInv, MigrateFails PROVE LocalInv'
  OBVIOUS
<1>1. /\ UNCHANGED <<version, applied, order, up, store, listing, writes>> /\ UNCHANGED secrets
      /\ migrating > 0 /\ migrating' = 0 /\ torn' = TRUE
  BY DEF MigrateFails, onDisk
<1>2. LocalTypeOK'
  BY <1>1, SecretsStay DEF LocalInv, LocalTypeOK, Statements
<1>3. MigrationOK'
  BY <1>1 DEF LocalInv, MigrationOK, Running
<1> QED BY <1>1, <1>2, <1>3, SecretsStay DEF LocalInv

LEMMA EndsKeeps == LocalInv /\ ProcessEnds => LocalInv'
<1> SUFFICES ASSUME LocalInv, ProcessEnds PROVE LocalInv'
  OBVIOUS
<1>1. /\ UNCHANGED <<version, applied, order, keychain, writes>> /\ up' = FALSE
      /\ store' = "none" /\ migrating' = 0 /\ listing' = <<>>
      /\ cache' = [c \in Kept |-> Unread] /\ reads' = {} /\ raced' = {}
      /\ torn' = (torn \/ migrating > 0)
  BY DEF ProcessEnds, onDisk
<1>2. << >> \in Seq(Kept)
  OBVIOUS
<1>3. cache' \in [Kept -> Answers] /\ listing' \in Seq(Kept) /\ torn' \in BOOLEAN
  BY <1>1, <1>2 DEF Answers, LocalInv, LocalTypeOK
<1>7. ~torn' => ~torn /\ ~(migrating > 0)
  BY <1>1, Zenon
<1>8. migrating' \in 0..(Statements + 1) /\ store' \in {"none", "open"} /\ up' \in BOOLEAN
  <2>1. 0 \in 0..(Statements + 1)
    BY DEF Statements
  <2>2. store' \in {"none", "open"}
    BY <1>1
  <2>3. up' \in BOOLEAN
    BY <1>1, Zenon
  <2> QED BY <1>1, <2>1, <2>2, <2>3, Zenon
<1>4. LocalTypeOK'
  <2>1. reads' \subseteq [connection : Kept, answer : Answers]
    BY <1>1
  <2>2. /\ version \in 0..SCHEMA_VERSION /\ applied \in 0..Statements /\ order \in Seq(Kept)
        /\ keychain \in [Kept -> Answers]
    BY DEF LocalInv, LocalTypeOK
  <2> QED BY <1>1, <1>3, <1>8, <2>1, <2>2, Zenon DEF LocalTypeOK
<1>5. MigrationOK'
  <2>1. ~torn' => applied' = Applied(version')
    BY <1>1, <1>7, VersionIs DEF LocalInv, MigrationOK
  <2>2. Applied(version') <= applied'
    BY <1>1 DEF LocalInv, MigrationOK
  <2>3. migrating' = 0 /\ ~(0 > 0) /\ store' # "open" /\ ~up'
    BY <1>1
  <2> QED BY <2>1, <2>2, <2>3 DEF MigrationOK, Running
<1>6. SecretsOK'
  BY <1>1 DEF SecretsOK
<1> QED BY <1>1, <1>4, <1>5, <1>6 DEF LocalInv

\* A password that is written, refused or taken for deleted.
LEMMA PasswordSet ==
    ASSUME LocalInv, NEW c \in Kept, NEW password \in Passwords \cup {NoPassword},
           SetPassword(c, password), reads' = reads
    PROVE  SecretsOK' /\ keychain' \in [Kept -> Answers] /\ cache' \in [Kept -> Answers]
<1>1. keychain \in [Kept -> Answers] /\ cache \in [Kept -> Answers] /\ password \in Answers
      /\ NoPassword \in Answers
  BY DEF LocalInv, LocalTypeOK, Answers
<1>2. CASE /\ keychain' = [keychain EXCEPT ![c] = password]
           /\ cache' = [cache EXCEPT ![c] = password]
           /\ raced' = IF UnderRead(c) THEN raced \cup {c} ELSE raced \ {c}
  <2>1. keychain' \in [Kept -> Answers] /\ cache' \in [Kept -> Answers]
    BY <1>1, <1>2
  <2>2. ASSUME NEW d \in Kept \ raced'
        PROVE  /\ cache'[d] \in {Unread, keychain'[d]}
               /\ \A r \in reads : r.connection = d => r.answer \in {Unread, keychain'[d]}
    <3>1. CASE d = c
      <4>1. ~UnderRead(c)
        BY <3>1, <2>2, <1>2
      <4>2. cache'[d] = password /\ keychain'[d] = password
        BY <3>1, <1>1, <1>2
      <4> QED BY <3>1, <4>1, <4>2 DEF UnderRead
    <3>2. CASE d # c
      <4>1. d \in Kept \ raced
        BY <3>2, <2>2, <1>2
      <4>2. cache'[d] = cache[d] /\ keychain'[d] = keychain[d]
        BY <3>2, <1>1, <1>2
      <4> QED BY <4>1, <4>2 DEF LocalInv, SecretsOK
    <3> QED BY <3>1, <3>2
  <2>3. SecretsOK'
    BY <2>2 DEF SecretsOK
  <2> QED BY <2>1, <2>3
<1>3. CASE /\ cache' = [cache EXCEPT ![c] = NoPassword] /\ raced' = raced \cup {c}
           /\ UNCHANGED keychain
  <2>1. cache' \in [Kept -> Answers] /\ \A d \in Kept : d # c => cache'[d] = cache[d]
    BY <1>1, <1>3
  <2>2. SecretsOK'
    BY <2>1, <1>3 DEF LocalInv, SecretsOK
  <2> QED BY <2>1, <2>2, <1>1, <1>3
<1>4. CASE UNCHANGED <<keychain, cache, raced>>
  BY <1>1, <1>4 DEF LocalInv, SecretsOK
<1> QED BY <1>2, <1>3, <1>4 DEF SetPassword

\* A connection that was kept or dropped: the sidebar lists the file again.
LEMMA FileChanged ==
    ASSUME LocalInv, store = "open", Running,
           order' \in Seq(Kept), IsInjective(order'), listing' = order',
           UNCHANGED <<version, applied, up, store, migrating, reads, torn>>,
           SecretsOK', keychain' \in [Kept -> Answers], cache' \in [Kept -> Answers]
    PROVE  LocalInv'
<1>1. LocalTypeOK'
  BY DEF LocalInv, LocalTypeOK
<1>2. MigrationOK'
  BY DEF LocalInv, MigrationOK, Running
<1> QED BY <1>1, <1>2 DEF LocalInv

LEMMA KeepKeeps == LocalInv /\ KeepConnection => LocalInv'
<1> SUFFICES ASSUME LocalInv, KeepConnection PROVE LocalInv'
  OBVIOUS
<1>1. /\ Running /\ store = "open" /\ listing' = order'
      /\ UNCHANGED <<version, applied, up, store, migrating, reads, torn>>
  BY DEF KeepConnection
<1>2. PICK c \in Kept :
        /\ \/ order' = order
           \/ ~Contains(order, c) /\ order' = Append(order, c)
        /\ \/ UNCHANGED <<keychain, cache, raced>>
           \/ \E password \in Passwords \cup {NoPassword} : SetPassword(c, password)
  BY DEF KeepConnection
<1>3. order \in Seq(Kept) /\ IsInjective(order)
  BY DEF LocalInv, LocalTypeOK
<1>4. order' \in Seq(Kept) /\ IsInjective(order')
  BY <1>2, <1>3, OnceMore
<1>5. SecretsOK' /\ keychain' \in [Kept -> Answers] /\ cache' \in [Kept -> Answers]
  <2>1. CASE UNCHANGED <<keychain, cache, raced>>
    BY <2>1, <1>1, SecretsStay DEF secrets
  <2>2. CASE \E password \in Passwords \cup {NoPassword} : SetPassword(c, password)
    BY <2>2, <1>1, PasswordSet
  <2> QED BY <2>1, <2>2, <1>2
<1> QED BY <1>1, <1>4, <1>5, FileChanged

LEMMA DropKeeps == LocalInv /\ DropConnection => LocalInv'
<1> SUFFICES ASSUME LocalInv, DropConnection PROVE LocalInv'
  OBVIOUS
<1>1. /\ Running /\ store = "open" /\ listing' = order'
      /\ UNCHANGED <<version, applied, up, store, migrating, reads, torn>>
  BY DEF DropConnection
<1>2. PICK c \in ToSet(listing) :
        \/ UNCHANGED <<order, keychain, cache, raced>>
        \/ /\ \E i \in DOMAIN order : order[i] = c /\ order' = RemoveAt(order, i)
           /\ SetPassword(c, NoPassword)
  BY DEF DropConnection
<1>3. order \in Seq(Kept) /\ IsInjective(order) /\ listing \in Seq(Kept)
      /\ DOMAIN order = 1..Len(order)
  BY DEF LocalInv, LocalTypeOK
<1>4. c \in Kept
  BY <1>3 DEF ToSet
<1>5. CASE UNCHANGED <<order, keychain, cache, raced>>
  <2>1. SecretsOK' /\ keychain' \in [Kept -> Answers] /\ cache' \in [Kept -> Answers]
    BY <1>5, <1>1, SecretsStay DEF secrets
  <2> QED BY <2>1, <1>1, <1>3, <1>5, FileChanged
<1>6. CASE /\ \E i \in DOMAIN order : order[i] = c /\ order' = RemoveAt(order, i)
           /\ SetPassword(c, NoPassword)
  <2>1. order' \in Seq(Kept) /\ IsInjective(order')
    BY <1>3, <1>6, OnceLess
  <2>2. SecretsOK' /\ keychain' \in [Kept -> Answers] /\ cache' \in [Kept -> Answers]
    BY <1>1, <1>4, <1>6, PasswordSet
  <2> QED BY <2>1, <2>2, <1>1, FileChanged
<1> QED BY <1>2, <1>5, <1>6

\* The steps that only touch what was read and remembered.
LEMMA FileStays ==
    ASSUME LocalInv, UNCHANGED <<version, applied, order, up, store, migrating, listing, torn>>,
           SecretsOK', keychain' \in [Kept -> Answers], cache' \in [Kept -> Answers],
           reads' \subseteq [connection : Kept, answer : Answers]
    PROVE  LocalInv'
<1>1. LocalTypeOK'
  BY DEF LocalInv, LocalTypeOK
<1>2. MigrationOK'
  BY DEF LocalInv, MigrationOK, Running
<1> QED BY <1>1, <1>2 DEF LocalInv

LEMMA ReadsKeep ==
    LocalInv /\ (AskKeychain \/ KeychainAnswers \/ KeychainRefuses \/ Remember) => LocalInv'
<1> SUFFICES ASSUME LocalInv, AskKeychain \/ KeychainAnswers \/ KeychainRefuses \/ Remember
             PROVE  LocalInv'
  OBVIOUS
<1>1. UNCHANGED <<version, applied, order, up, store, migrating, listing, torn, keychain, raced>>
  BY DEF AskKeychain, KeychainAnswers, KeychainRefuses, Remember, onDisk
<1>2. /\ keychain \in [Kept -> Answers] /\ cache \in [Kept -> Answers] /\ Unread \in Answers
      /\ reads \subseteq [connection : Kept, answer : Answers]
  BY DEF LocalInv, LocalTypeOK, Answers
<1>3. CASE AskKeychain
  <2>1. PICK c \in ToSet(listing) : reads' = reads \cup {[connection |-> c, answer |-> Unread]}
    BY <1>3 DEF AskKeychain
  <2>2. c \in Kept /\ cache' = cache
    BY <2>1, <1>3 DEF AskKeychain, LocalInv, LocalTypeOK, ToSet
  <2>3. reads' \subseteq [connection : Kept, answer : Answers]
    BY <2>1, <2>2, <1>2
  <2>4. SecretsOK'
    BY <2>1, <2>2, <1>1 DEF LocalInv, SecretsOK
  <2> QED BY <1>1, <1>2, <2>2, <2>3, <2>4, FileStays
<1>4. CASE KeychainAnswers
  <2>1. PICK r \in reads : reads' = (reads \ {r}) \cup {[r EXCEPT !.answer = keychain[r.connection]]}
    BY <1>4 DEF KeychainAnswers
  <2> DEFINE told == [r EXCEPT !.answer = keychain[r.connection]]
  <2>2. told \in [connection : Kept, answer : Answers] /\ told.connection = r.connection
        /\ told.answer = keychain[r.connection]
    BY <1>2
  <2>3. cache' = cache
    BY <1>4 DEF KeychainAnswers
  <2>4. reads' = (reads \ {r}) \cup {told}
    BY <2>1
  <2> HIDE DEF told
  <2>5. reads' \subseteq [connection : Kept, answer : Answers]
    BY <2>2, <2>4, <1>2
  <2>6. SecretsOK'
    BY <2>2, <2>3, <2>4, <1>1 DEF LocalInv, SecretsOK
  <2> QED BY <1>1, <1>2, <2>3, <2>5, <2>6, FileStays
<1>5. CASE KeychainRefuses
  <2>1. reads' \subseteq reads /\ cache' = cache
    BY <1>5 DEF KeychainRefuses
  <2>2. SecretsOK'
    BY <2>1, <1>1 DEF LocalInv, SecretsOK
  <2> QED BY <1>1, <1>2, <2>1, <2>2, FileStays
<1>6. CASE Remember
  <2>1. PICK r \in reads : reads' = reads \ {r} /\ cache' = [cache EXCEPT ![r.connection] = r.answer]
    BY <1>6 DEF Remember
  <2>2. r.connection \in Kept /\ r.answer \in Answers
    BY <1>2
  <2>3. cache' \in [Kept -> Answers]
        /\ \A d \in Kept : cache'[d] = IF d = r.connection THEN r.answer ELSE cache[d]
    BY <2>1, <2>2, <1>2
  <2>4. SecretsOK'
    BY <2>1, <2>3, <1>1 DEF LocalInv, SecretsOK
  <2> QED BY <1>1, <1>2, <2>1, <2>3, <2>4, FileStays
<1> QED BY <1>3, <1>4, <1>5, <1>6

LEMMA LocalInvHolds == LocalSpec => []LocalInv
<1>1. LocalInv /\ [LocalNext]_storeVars => LocalInv'
  <2> SUFFICES ASSUME LocalInv, [LocalNext]_storeVars PROVE LocalInv'
    OBVIOUS
  <2>1. CASE UNCHANGED storeVars
    BY <2>1 DEF storeVars, LocalInv, LocalTypeOK, MigrationOK, SecretsOK, Running
  <2>2. CASE LocalNext
    BY <2>2, StartsKeeps, MigrateKeeps, MigrateFailsKeeps, EndsKeeps, KeepKeeps, DropKeeps, ReadsKeep
       DEF LocalNext
  <2> QED BY <2>1, <2>2
<1> QED BY <1>1, LocalInitially, PTL DEF LocalSpec

\* The local file opens whole or not at all, is listed as it is, and what is
\* remembered of the Keychain is what it holds.  The invariant is of how far a
\* migration has come and of the reads of the Keychain that are under way.
THEOREM LocalFileHolds == LocalSpec => []LocalHolds
<1>1. LocalInv => LocalHolds
  <2> SUFFICES ASSUME LocalInv PROVE LocalHolds
    OBVIOUS
  <2>1. OpensWhole
    BY VersionIs DEF LocalInv, MigrationOK, OpensWhole, SCHEMA_VERSION, Statements
  <2>2. ListsTheFile
    BY DEF LocalInv, MigrationOK, ListsTheFile
  <2>3. RemembersTheKeychain
    BY DEF LocalInv, SecretsOK, RemembersTheKeychain
  <2> QED BY <2>1, <2>2, <2>3 DEF LocalHolds
<1> QED BY <1>1, LocalInvHolds, PTL
=============================================================================
