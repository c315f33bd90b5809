---------------------------- MODULE Tables_proofs ----------------------------
(***************************************************************************)
(* Proofs about a table's tab, for any sessions, relations, strips of tabs,*)
(* filters, pages and bounds: the rows that can be edited and where edits  *)
(* go, and what is asked of a filter and shown of its pages.               *)
(***************************************************************************)
EXTENDS Editing, Browse, TLAPS, WellFoundedInduction, NaturalsInduction, FiniteSetTheorems,
        SequenceTheorems

-----------------------------------------------------------------------------
(***************************************************************************)
(* Editing.  That edits go home is not inductive by itself: it needs that a*)
(* pane's edits were typed over the rows it shows (Typed), that these are of*)
(* its tab's session and of the relation a commit would name (Owned), and  *)
(* that a commit on its way still has both (Sent).  That an edit is written*)
(* once needs that no two panes, nor a pane and a commit of another, have an*)
(* edit between them (Apart), and that nothing staged or on its way has been*)
(* written (Unwritten).                                                    *)
(***************************************************************************)
\* What variables hold, n edits having been typed.
Found == [session : Sessions, relation : Relations]
Tabs == [session : Sessions, relation : Relations \cup {None}, cached : Found \cup {NoRows}]
Panes(n) ==
    {pane \in [tabs : Seq(Tabs), active_tab : Nat, results : 0..2, rows : Found \cup {NoRows},
               editing_relation : Relations \cup {None}, identity : BOOLEAN,
               editable : BOOLEAN, staged : SUBSET (1..n)] :
        pane.active_tab \in DOMAIN pane.tabs}

Reads == [kind : {"rows"}, relation : Relations, pane : Nat, tab : Nat]
Commits(n) == [kind : {"commit"}, pane : Nat, edits : SUBSET (1..n),
               relation : Relations \cup {None}]
Asking == Reads \cup {[kind |-> "catalog"]}
Tasks(n) == {Idle} \cup Asking \cup Commits(n) \cup [kind : {"ddl"}, draft : Nat]
            \cup [kind : {"drop"}, relation : Relations]
Slots(n) == [task : Tasks(n), held : Reads \cup {Idle}]

\* A screen that is well formed, whatever is on it.
Whole(w, n) ==
    /\ w = [panes |-> w.panes, slot |-> w.slot, running |-> w.running, loading |-> w.loading,
            asked |-> w.asked]
    /\ w.panes \in [DOMAIN w.panes -> Panes(n)] /\ DOMAIN w.panes \subseteq DOMAIN Strips
    /\ w.slot \in [Sessions -> Slots(n)] /\ w.running \in DOMAIN w.panes \cup {0}
    /\ w.loading \in [Sessions -> Relations \cup {None}]
    /\ w.asked \in [Sessions -> [Relations -> Rights \cup {"not", "sent"}]]
    /\ \A s \in Sessions : w.loading[s] # None => w.asked[s][w.loading[s]] # "not"

Informed ==
    /\ server \in [Sessions -> [tables : [Relations -> Shapes], rights : [Relations -> Rights],
                                design : Nat]]
    /\ snapshot \in [Sessions -> [Relations -> Shapes]]
    /\ grants \in [Sessions -> [Relations -> {"write", "read", "unknown"}]]
    /\ design \in [draft : Nat, original : Nat] /\ pending_structure \in BOOLEAN
    /\ pending_object \in Relations \cup {None} /\ session \in Sessions

\* What is staged in a pane was typed over the rows it shows.
Typed ==
    /\ typed \in Seq(Found)
    /\ \A p \in DOMAIN panes : /\ panes[p].editable => panes[p].rows # NoRows
                               /\ \A e \in panes[p].staged : typed[e] = panes[p].rows

\* Unless a pane strayed, its rows are of the session of its tab in front and of
\* the relation a commit would name, and those of the pane in front of the
\* window's session.
Own(pane) == pane.rows # NoRows =>
    pane.rows = [session |-> Tab(pane).session, relation |-> pane.editing_relation]
Owned == ~strayed =>
    /\ \A p \in DOMAIN panes : Own(panes[p])
    /\ panes[active_pane].rows # NoRows => panes[active_pane].rows.session = session

\* ... and it can be edited if what is known of their table says so.
Current(pane, catalogs, known) == pane.rows # NoRows =>
    (pane.editable <=> /\ catalogs[pane.rows.session][pane.rows.relation] = "table"
                       /\ known[pane.rows.session][pane.rows.relation] # "read")
Judgements == ~strayed => \A p \in DOMAIN panes :
    panes[p].rows.session \notin unheard => Current(panes[p], snapshot, grants)

\* ... and a commit on its way has the edits of rows of its session and relation.
Sent == ~strayed => \A s \in Sessions : slot[s].task.kind = "commit" =>
    \A e \in slot[s].task.edits :
        typed[e] = [session |-> s, relation |-> slot[s].task.relation]

Taken ==
    /\ written \in SUBSET [edit : 1..Len(typed), session : Sessions,
                           relation : Relations \cup {None}]
    /\ EditsGoHomeUnlessStrayed

\* An edit is staged in one pane, and on its way from no other.
Apart ==
    /\ \A p, q \in DOMAIN panes : p # q => panes[p].staged \cap panes[q].staged = {}
    /\ \A s \in Sessions : slot[s].task.kind = "commit" =>
          \A p \in DOMAIN panes \ {slot[s].task.pane} :
             panes[p].staged \cap slot[s].task.edits = {}

\* What was written is staged nowhere and on its way from nowhere.
Unwritten == ~strayed /\ ~misled =>
    /\ ~twice
    /\ \A w \in written :
          /\ \A p \in DOMAIN panes : w.edit \notin panes[p].staged
          /\ \A s \in Sessions : slot[s].task.kind = "commit"
                                 => w.edit \notin slot[s].task.edits

\* While a design waits, its session saves something else than it was drawn from,
\* or has.
DesignWaits == pending_structure =>
    IF slot[Designing].task.kind = "ddl" THEN slot[Designing].task.draft # design.original
    ELSE server[Designing].design # design.original

EditingInv ==
    /\ Whole(Screen, Len(typed)) /\ active_pane \in DOMAIN panes /\ Informed
    /\ Typed /\ Owned /\ Judgements /\ Sent /\ Taken /\ Apart /\ Unwritten /\ DesignWaits
-----------------------------------------------------------------------------
\* A set of panes that is not empty has a first and a last.
LEMMA HasEnds ==
    ASSUME NEW n \in Nat, NEW S \in SUBSET (1..n), S # {}
    PROVE  /\ \E i \in S : \A j \in S : i <= j
           /\ Max(S) \in S /\ \A j \in S : j <= Max(S)
<1>1. ASSUME NEW T \in SUBSET Nat, T # {} PROVE \E i \in T : \A j \in T : i <= j
  <2> DEFINE R == {ss \in Nat \X Nat : ss[1] < ss[2]}
  <2>1. IsWellFoundedOn(R, Nat)
    BY NatLessThanWellFounded DEF OpToRel
  <2>2. \A i, j \in Nat : j < i => <<j, i>> \in R
    OBVIOUS
  <2> HIDE DEF R
  <2>3. PICK i \in T : \A j \in T : <<j, i>> \notin R
    BY <1>1, <2>1, WFMin
  <2>4. \A j \in T : ~(j < i)
    BY <2>2, <2>3
  <2> QED BY <2>4
<1>2. S \in SUBSET Nat /\ \A j \in S : j \in Nat /\ j <= n
  OBVIOUS
<1>3. \E i \in S : \A j \in S : i <= j
  BY <1>1, <1>2
<1> DEFINE T == {n - j : j \in S}
<1>4. T \in SUBSET Nat /\ T # {}
  <2>1. ASSUME NEW x \in T PROVE x \in Nat
    <3>1. PICK j \in S : x = n - j
      OBVIOUS
    <3> QED BY <1>2, <3>1
  <2>2. PICK j \in S : TRUE
    OBVIOUS
  <2>3. n - j \in T
    OBVIOUS
  <2> HIDE DEF T
  <2> QED BY <2>1, <2>3
<1>5. PICK x \in T : \A y \in T : x <= y
  BY <1>1, <1>4
<1>6. PICK i \in S : x = n - i
  BY <1>5
<1>7. ASSUME NEW j \in S PROVE i >= j
  <2>1. n - i <= n - j
    BY <1>5, <1>6
  <2> QED BY <1>2, <2>1
<1>8. \E k \in S : \A j \in S : k >= j
  BY <1>7
<1>9. Max(S) \in S /\ \A j \in S : Max(S) >= j
  BY <1>8 DEF Max
<1>10. \A j \in S : j <= Max(S)
  BY <1>2, <1>9
<1> QED BY <1>3, <1>9, <1>10

LEMMA NoRowsIsNoFound == NoRows \notin Found /\ NoRows.session = None
BY EditingAssumption DEF NoRows, Found

LEMMA PaneFields ==
    ASSUME NEW n \in Nat, NEW pane \in Panes(n)
    PROVE  /\ pane.tabs \in Seq(Tabs) /\ pane.active_tab \in DOMAIN pane.tabs
           /\ Tab(pane) \in Tabs
           /\ pane.results \in 0..2 /\ pane.rows \in Found \cup {NoRows}
           /\ pane.editing_relation \in Relations \cup {None} /\ pane.identity \in BOOLEAN
           /\ pane.editable \in BOOLEAN /\ pane.staged \in SUBSET (1..n)
           /\ Relation(pane) \in Relations \cup {None}
<1>1. /\ pane.tabs \in Seq(Tabs) /\ pane.active_tab \in DOMAIN pane.tabs
      /\ pane.results \in 0..2 /\ pane.rows \in Found \cup {NoRows}
      /\ pane.editing_relation \in Relations \cup {None} /\ pane.identity \in BOOLEAN
      /\ pane.editable \in BOOLEAN /\ pane.staged \in SUBSET (1..n)
  BY DEF Panes
<1>2. Tab(pane) \in Tabs
  BY <1>1, ElementOfSeq DEF Tab
<1>3. Relation(pane) \in Relations \cup {None}
  BY <1>2 DEF Relation, Tabs
<1> QED BY <1>1, <1>2, <1>3

\* A pane put together of its parts, and one part of it replaced.
PaneOf(strip, at, results, rows, relation, identity, editable, staged) ==
    [tabs |-> strip, active_tab |-> at, results |-> results, rows |-> rows,
     editing_relation |-> relation, identity |-> identity, editable |-> editable,
     staged |-> staged]

LEMMA PaneParts ==
    ASSUME NEW strip, NEW at, NEW results, NEW rows, NEW relation, NEW identity, NEW editable,
           NEW staged, NEW new
    PROVE  LET pane == PaneOf(strip, at, results, rows, relation, identity, editable, staged)
           IN
              /\ pane.tabs = strip
              /\ pane.active_tab = at
              /\ pane.results = results
              /\ pane.rows = rows
              /\ pane.editing_relation = relation
              /\ pane.identity = identity
              /\ pane.editable = editable
              /\ pane.staged = staged
              /\ [pane EXCEPT !.tabs = new]
                   = PaneOf(new, at, results, rows, relation, identity, editable, staged)
              /\ [pane EXCEPT !.active_tab = new]
                   = PaneOf(strip, new, results, rows, relation, identity, editable, staged)
              /\ [pane EXCEPT !.results = new]
                   = PaneOf(strip, at, new, rows, relation, identity, editable, staged)
              /\ [pane EXCEPT !.rows = new]
                   = PaneOf(strip, at, results, new, relation, identity, editable, staged)
              /\ [pane EXCEPT !.editing_relation = new]
                   = PaneOf(strip, at, results, rows, new, identity, editable, staged)
              /\ [pane EXCEPT !.identity = new]
                   = PaneOf(strip, at, results, rows, relation, new, editable, staged)
              /\ [pane EXCEPT !.editable = new]
                   = PaneOf(strip, at, results, rows, relation, identity, new, staged)
              /\ [pane EXCEPT !.staged = new]
                   = PaneOf(strip, at, results, rows, relation, identity, editable, new)
BY DEF PaneOf

LEMMA PaneTypes ==
    ASSUME NEW n \in Nat, NEW strip \in Seq(Tabs), NEW at \in DOMAIN strip,
           NEW results \in 0..2, NEW rows \in Found \cup {NoRows},
           NEW relation \in Relations \cup {None}, NEW identity \in BOOLEAN,
           NEW editable \in BOOLEAN, NEW staged \in SUBSET (1..n)
    PROVE  PaneOf(strip, at, results, rows, relation, identity, editable, staged) \in Panes(n)
<1>1. at \in Nat
  OBVIOUS
<1> QED BY <1>1 DEF Panes, PaneOf

LEMMA PaneIs ==
    ASSUME NEW n \in Nat, NEW pane \in Panes(n)
    PROVE  pane = PaneOf(pane.tabs, pane.active_tab, pane.results, pane.rows,
                         pane.editing_relation, pane.identity, pane.editable, pane.staged)
BY DEF Panes, PaneOf

\* What is judged keeps its rows, and what is staged over them if it can.
LEMMA JudgedIs ==
    ASSUME NEW n \in Nat, NEW pane \in Panes(n), NEW catalog, NEW known
    PROVE  Judged(pane, catalog, known) =
             PaneOf(pane.tabs, pane.active_tab, pane.results, pane.rows, Relation(pane),
                    Identity(pane, catalog), Editable(pane, catalog, known),
                    IF Editable(pane, catalog, known) THEN pane.staged ELSE {})
<1> DEFINE Part(r, identity, able, staged) ==
             PaneOf(pane.tabs, pane.active_tab, pane.results, pane.rows, r, identity, able, staged)
<1>1. pane = Part(pane.editing_relation, pane.identity, pane.editable, pane.staged)
  BY PaneIs
<1>2. ASSUME NEW r PROVE [pane EXCEPT !.editing_relation = r]
                         = Part(r, pane.identity, pane.editable, pane.staged)
  BY ONLY <1>1 DEF PaneOf
<1>3. ASSUME NEW r, NEW new, NEW y, y = Part(r, pane.identity, pane.editable, pane.staged)
      PROVE  [y EXCEPT !.identity = new] = Part(r, new, pane.editable, pane.staged)
  BY ONLY <1>3 DEF PaneOf
<1>4. ASSUME NEW r, NEW new, NEW able, NEW y, y = Part(r, new, pane.editable, pane.staged)
      PROVE  [y EXCEPT !.editable = able] = Part(r, new, able, pane.staged)
  BY ONLY <1>4 DEF PaneOf
<1>5. ASSUME NEW r, NEW new, NEW able, NEW to, NEW y, y = Part(r, new, able, pane.staged)
      PROVE  [y EXCEPT !.staged = to] = Part(r, new, able, to) /\ y.staged = pane.staged
  BY ONLY <1>5 DEF PaneOf
<1>6. ASSUME NEW r, NEW new
      PROVE  [pane EXCEPT !.editing_relation = r, !.identity = new]
             = Part(r, new, pane.editable, pane.staged)
  BY ONLY <1>2, <1>3
<1>7. ASSUME NEW r, NEW new, NEW able, NEW y, y = Part(r, new, pane.editable, pane.staged)
      PROVE  SetEditable(y, able) = Part(r, new, able, IF able THEN pane.staged ELSE {})
  <2>1. [y EXCEPT !.editable = able] = Part(r, new, able, pane.staged)
    BY ONLY <1>7 DEF PaneOf
  <2>2. ASSUME NEW z, z = Part(r, new, able, pane.staged)
        PROVE  [z EXCEPT !.staged = IF able THEN @ ELSE {}]
               = Part(r, new, able, IF able THEN pane.staged ELSE {})
    BY ONLY <2>2 DEF PaneOf
  <2> HIDE DEF Part
  <2> QED BY ONLY <2>1, <2>2 DEF SetEditable
<1> HIDE DEF Part
<1> DEFINE mid == [pane EXCEPT !.editing_relation = Relation(pane),
                               !.identity = Identity(pane, catalog)]
<1>8. mid = Part(Relation(pane), Identity(pane, catalog), pane.editable, pane.staged)
  BY <1>6
<1>9. Judged(pane, catalog, known) = SetEditable(mid, Editable(pane, catalog, known))
  BY DEF Judged
<1> HIDE DEF mid
<1>10. Judged(pane, catalog, known)
       = Part(Relation(pane), Identity(pane, catalog), Editable(pane, catalog, known),
              IF Editable(pane, catalog, known) THEN pane.staged ELSE {})
  BY ONLY <1>7, <1>8, <1>9
<1> QED BY ONLY <1>10 DEF Part

LEMMA JudgedIsPane ==
    ASSUME NEW n \in Nat, NEW pane \in Panes(n), NEW catalog, NEW known
    PROVE  /\ Judged(pane, catalog, known) \in Panes(n)
           /\ Judged(pane, catalog, known).tabs = pane.tabs
           /\ Judged(pane, catalog, known).active_tab = pane.active_tab
           /\ Judged(pane, catalog, known).results = pane.results
           /\ Judged(pane, catalog, known).rows = pane.rows
           /\ Judged(pane, catalog, known).editing_relation = Relation(pane)
           /\ Judged(pane, catalog, known).editable = Editable(pane, catalog, known)
           /\ Judged(pane, catalog, known).staged \subseteq pane.staged
           /\ Relation(Judged(pane, catalog, known)) = Relation(pane)
           /\ Editable(pane, catalog, known) => pane.rows # NoRows
<1>1. /\ Editable(pane, catalog, known) \in BOOLEAN /\ Identity(pane, catalog) \in BOOLEAN
      /\ Editable(pane, catalog, known) => pane.rows # NoRows
  BY DEF Editable, Identity, Resolve
<1>2. (IF Editable(pane, catalog, known) THEN pane.staged ELSE {}) \in SUBSET (1..n)
  BY PaneFields
<1>3. Judged(pane, catalog, known) \in Panes(n)
  <2>1. PaneOf(pane.tabs, pane.active_tab, pane.results, pane.rows, Relation(pane),
               Identity(pane, catalog), Editable(pane, catalog, known),
               IF Editable(pane, catalog, known) THEN pane.staged ELSE {}) \in Panes(n)
    BY <1>1, <1>2, PaneFields, PaneTypes
  <2> QED BY <2>1, JudgedIs
<1>4. /\ Judged(pane, catalog, known).tabs = pane.tabs
      /\ Judged(pane, catalog, known).active_tab = pane.active_tab
      /\ Judged(pane, catalog, known).results = pane.results
      /\ Judged(pane, catalog, known).rows = pane.rows
      /\ Judged(pane, catalog, known).editing_relation = Relation(pane)
      /\ Judged(pane, catalog, known).editable = Editable(pane, catalog, known)
      /\ Judged(pane, catalog, known).staged \subseteq pane.staged
  <2> DEFINE staged == IF Editable(pane, catalog, known) THEN pane.staged ELSE {}
  <2>1. Judged(pane, catalog, known) =
          PaneOf(pane.tabs, pane.active_tab, pane.results, pane.rows, Relation(pane),
                 Identity(pane, catalog), Editable(pane, catalog, known), staged)
    BY JudgedIs
  <2>2. staged \subseteq pane.staged
    OBVIOUS
  <2> HIDE DEF staged
  <2> QED BY <2>1, <2>2 DEF PaneOf
<1>5. Relation(Judged(pane, catalog, known)) = Relation(pane)
  BY <1>4 DEF Relation, Tab
<1> QED BY <1>1, <1>3, <1>4, <1>5
-----------------------------------------------------------------------------
\* A screen put together of its parts, and one part of it replaced.
ScreenOf(all, slots, run, remembered, reads) ==
    [panes |-> all, slot |-> slots, running |-> run, loading |-> remembered, asked |-> reads]

LEMMA ScreenParts ==
    ASSUME NEW all, NEW slots, NEW run, NEW remembered, NEW reads
    PROVE  /\ ScreenOf(all, slots, run, remembered, reads).panes = all
           /\ ScreenOf(all, slots, run, remembered, reads).slot = slots
           /\ ScreenOf(all, slots, run, remembered, reads).running = run
           /\ ScreenOf(all, slots, run, remembered, reads).loading = remembered
           /\ ScreenOf(all, slots, run, remembered, reads).asked = reads
BY DEF ScreenOf

\* A screen is well formed if its parts are.
WholeParts(all, slots, run, remembered, reads, n) ==
    /\ all \in [DOMAIN all -> Panes(n)] /\ DOMAIN all \subseteq DOMAIN Strips
    /\ slots \in [Sessions -> Slots(n)] /\ run \in DOMAIN all \cup {0}
    /\ remembered \in [Sessions -> Relations \cup {None}]
    /\ reads \in [Sessions -> [Relations -> Rights \cup {"not", "sent"}]]
    /\ \A s \in Sessions : remembered[s] # None => reads[s][remembered[s]] # "not"

LEMMA WholeOf ==
    ASSUME NEW n, NEW all, NEW slots, NEW run, NEW remembered, NEW reads
    PROVE  Whole(ScreenOf(all, slots, run, remembered, reads), n)
             <=> WholeParts(all, slots, run, remembered, reads, n)
<1>1. ScreenOf(all, slots, run, remembered, reads)
        = [panes |-> all, slot |-> slots, running |-> run, loading |-> remembered,
           asked |-> reads]
  BY DEF ScreenOf
<1> QED BY <1>1, ScreenParts DEF Whole, WholeParts

LEMMA WholeIs ==
    ASSUME NEW n, NEW w, Whole(w, n)
    PROVE  /\ w = ScreenOf(w.panes, w.slot, w.running, w.loading, w.asked)
           /\ WholeParts(w.panes, w.slot, w.running, w.loading, w.asked, n)
BY DEF Whole, WholeParts, ScreenOf

LEMMA SlotIs ==
    ASSUME NEW n, NEW w, Whole(w, n), NEW s \in Sessions
    PROVE  /\ w.slot[s] \in Slots(n)
           /\ w.slot[s] = [task |-> w.slot[s].task, held |-> w.slot[s].held]
           /\ w.slot[s].task \in Tasks(n) /\ w.slot[s].held \in Reads \cup {Idle}
<1>1. w.slot[s] \in Slots(n)
  BY DEF Whole
<1> QED BY <1>1 DEF Slots

LEMMA PutTask ==
    ASSUME NEW n, NEW w, Whole(w, n), NEW s \in Sessions, NEW new \in Tasks(n)
    PROVE  /\ Whole(Started(w, s, new), n)
           /\ \A t \in Sessions \ {s} : Started(w, s, new).slot[t] = w.slot[t]
           /\ Started(w, s, new).slot[s] = [task |-> new, held |-> w.slot[s].held]
           /\ Started(w, s, new).panes = w.panes /\ Started(w, s, new).running = w.running
           /\ Started(w, s, new).loading = w.loading /\ Started(w, s, new).asked = w.asked
<1> DEFINE x == [task |-> new, held |-> w.slot[s].held]
<1> DEFINE slots == [t \in Sessions |-> IF t = s THEN x ELSE w.slot[t]]
<1>1. x \in Slots(n)
  BY SlotIs DEF Slots
<1>2. w = ScreenOf(w.panes, w.slot, w.running, w.loading, w.asked)
      /\ WholeParts(w.panes, w.slot, w.running, w.loading, w.asked, n)
  BY WholeIs
<1>3. w.slot[s] = [task |-> w.slot[s].task, held |-> w.slot[s].held]
      /\ w.slot \in [Sessions -> Slots(n)]
  BY <1>2, SlotIs DEF WholeParts
<1>4. [w.slot EXCEPT ![s].task = new] = slots
  BY ONLY <1>3
<1>5. Started(w, s, new)
      = ScreenOf(w.panes, [w.slot EXCEPT ![s].task = new], w.running, w.loading, w.asked)
  BY ONLY <1>2 DEF Started, ScreenOf
<1>6. slots \in [Sessions -> Slots(n)] /\ slots[s] = x
      /\ \A t \in Sessions \ {s} : slots[t] = w.slot[t]
  BY <1>1, <1>3
<1> HIDE DEF slots
<1>7. WholeParts(w.panes, slots, w.running, w.loading, w.asked, n)
  BY <1>2, <1>6 DEF WholeParts
<1>8. Started(w, s, new) = ScreenOf(w.panes, slots, w.running, w.loading, w.asked)
  BY ONLY <1>4, <1>5
<1>9. Whole(Started(w, s, new), n)
  BY ONLY <1>7, <1>8, WholeOf
<1> QED BY ONLY <1>6, <1>8, <1>9, ScreenParts DEF x

-----------------------------------------------------------------------------
\* Panes are judged one by one, and the last to ask is the one remembered; what
\* is remembered has been asked.
Rejudged(w, v, judged, catalog, known, n) ==
    /\ Whole(v, n) /\ DOMAIN v.panes = DOMAIN w.panes
    /\ \A p \in judged : v.panes[p] = Judged(w.panes[p], catalog, known)
    /\ \A p \in DOMAIN w.panes \ judged : v.panes[p] = w.panes[p]
    /\ v.slot = w.slot /\ v.running = w.running

LEMMA RefreshIs ==
    ASSUME NEW n \in Nat, NEW w, Whole(w, n), NEW judged, judged \subseteq DOMAIN w.panes,
           NEW s \in Sessions, NEW catalogs, NEW known
    PROVE  Rejudged(w, Refresh(w, judged, s, catalogs, known), judged, catalogs[s], known[s], n)
<1> DEFINE v == Refresh(w, judged, s, catalogs, known)
<1> DEFINE all == [p \in DOMAIN w.panes |->
                     IF p \in judged THEN Judged(w.panes[p], catalogs[s], known[s])
                     ELSE w.panes[p]]
           wanting == {p \in judged : Wanted(known[s], Relation(w.panes[p]))}
           Remembered(before) ==
             IF before = {} THEN w.loading[s] ELSE Relation(w.panes[Max(before)])
           asking == {p \in wanting :
                        Remembered({q \in wanting : q < p}) # Relation(w.panes[p])}
           relations == {Relation(w.panes[p]) : p \in asking}
           reads == [r \in Relations |-> IF r \in relations /\ w.asked[s][r] = "not" THEN "sent"
                                         ELSE w.asked[s][r]]
           last == Remembered(wanting)
           loads == [t \in Sessions |-> IF t = s THEN last ELSE w.loading[t]]
           asks == [t \in Sessions |-> IF t = s THEN reads ELSE w.asked[t]]
<1>1. w = ScreenOf(w.panes, w.slot, w.running, w.loading, w.asked)
      /\ WholeParts(w.panes, w.slot, w.running, w.loading, w.asked, n)
  BY WholeIs
<1>2. DOMAIN w.panes \subseteq DOMAIN Strips /\ DOMAIN Strips = 1..Len(Strips)
      /\ Len(Strips) \in Nat
  BY <1>1, EditingAssumption DEF WholeParts
<1>3. \A p \in DOMAIN w.panes : w.panes[p] \in Panes(n)
  BY <1>1 DEF WholeParts
<1>4. all \in [DOMAIN all -> Panes(n)] /\ DOMAIN all = DOMAIN w.panes
  BY <1>3, JudgedIsPane
<1>5. \A p \in wanting : p \in judged /\ p \in Nat /\ Relation(w.panes[p]) \in Relations
  <2>1. \A p \in wanting : p \in DOMAIN w.panes /\ Relation(w.panes[p]) # None
    BY DEF Wanted
  <2> QED BY <1>2, <1>3, <2>1, PaneFields
<1>6. wanting \in SUBSET (1..Len(Strips))
  BY <1>2
<1> HIDE DEF wanting
<1>7. last \in Relations \cup {None}
  <2>1. CASE wanting = {}
    BY <1>1, <2>1 DEF WholeParts
  <2>2. CASE wanting # {}
    <3>1. Max(wanting) \in wanting
      BY <1>2, <1>6, <2>2, HasEnds
    <3> QED BY <1>5, <2>2, <3>1
  <2> QED BY <2>1, <2>2
<1>8. reads \in [Relations -> Rights \cup {"not", "sent"}]
  BY <1>1 DEF WholeParts
<1>9. last # None => reads[last] # "not"
  <2>1. CASE wanting = {}
    <3>1. last # None => w.asked[s][last] # "not"
      BY <1>1, <2>1 DEF WholeParts
    <3> QED BY <1>7, <3>1
  <2>2. CASE wanting # {}
    <3> DEFINE same == {p \in wanting : Relation(w.panes[p]) = last}
    <3>1. Max(wanting) \in wanting /\ last = Relation(w.panes[Max(wanting)])
      BY <1>2, <1>6, <2>2, HasEnds
    <3>2. same \in SUBSET (1..Len(Strips)) /\ same # {}
      BY <1>6, <3>1
    <3>3. PICK first \in same : \A p \in same : first <= p
      BY <1>2, <3>2, HasEnds
    <3> DEFINE before == {q \in wanting : q < first}
    <3>4. first \in wanting /\ Relation(w.panes[first]) = last /\ last \in Relations
      BY <1>5, <3>3
    <3>5. CASE first \in asking
      BY <3>4, <3>5
    <3>6. CASE first \notin asking
      <4>1. Remembered(before) = last
        BY <3>4, <3>6
      <4>2. before = {}
        <5>1. SUFFICES ASSUME before # {} PROVE FALSE
          OBVIOUS
        <5>2. before \in SUBSET (1..Len(Strips))
          BY <1>6
        <5>3. Max(before) \in before
          BY <1>2, <5>1, <5>2, HasEnds
        <5>4. Max(before) \in same /\ Max(before) < first
          BY <4>1, <5>1, <5>3
        <5>5. first <= Max(before) /\ first \in Nat /\ Max(before) \in Nat
          BY <1>5, <3>3, <3>4, <5>3, <5>4
        <5> QED BY <5>4, <5>5
      <4>3. w.loading[s] = last
        BY <4>1, <4>2
      <4>4. w.asked[s][last] # "not"
        <5>1. w.loading[s] # None => w.asked[s][w.loading[s]] # "not"
          BY <1>1 DEF WholeParts
        <5> QED BY <3>4, <4>3, <5>1, EditingAssumption
      <4> QED BY <3>4, <4>4
    <3> QED BY <3>5, <3>6
  <2> QED BY <2>1, <2>2
<1>10. v = [w EXCEPT !.panes = all, !.loading[s] = last, !.asked[s] = reads]
  BY DEF Refresh, wanting
<1> HIDE DEF all, last, reads, v
<1>11. [w EXCEPT !.panes = all] = ScreenOf(all, w.slot, w.running, w.loading, w.asked)
  BY ONLY <1>1 DEF ScreenOf
<1>12. w.loading \in [Sessions -> Relations \cup {None}] /\ DOMAIN w.asked = Sessions
       /\ w.asked = [t \in Sessions |-> w.asked[t]]
  BY ONLY <1>1 DEF WholeParts
<1>13. [w.loading EXCEPT ![s] = last] = loads /\ [w.asked EXCEPT ![s] = reads] = asks
  BY ONLY <1>12
<1>14. ASSUME NEW y, y = ScreenOf(all, w.slot, w.running, w.loading, w.asked)
       PROVE  [y EXCEPT !.loading[s] = last]
              = ScreenOf(all, w.slot, w.running, [w.loading EXCEPT ![s] = last], w.asked)
  BY ONLY <1>14 DEF ScreenOf
<1>15. ASSUME NEW x, NEW y, y = ScreenOf(all, w.slot, w.running, x, w.asked)
       PROVE  [y EXCEPT !.asked[s] = reads]
              = ScreenOf(all, w.slot, w.running, x, [w.asked EXCEPT ![s] = reads])
  BY ONLY <1>15 DEF ScreenOf
<1>16. v = ScreenOf(all, w.slot, w.running, [w.loading EXCEPT ![s] = last],
                    [w.asked EXCEPT ![s] = reads])
  BY ONLY <1>10, <1>11, <1>14, <1>15
<1> HIDE DEF loads, asks
<1>17. v = ScreenOf(all, w.slot, w.running, loads, asks)
  BY ONLY <1>13, <1>16
<1>18. /\ loads \in [Sessions -> Relations \cup {None}]
       /\ asks \in [Sessions -> [Relations -> Rights \cup {"not", "sent"}]]
       /\ \A t \in Sessions : loads[t] # None => asks[t][loads[t]] # "not"
  BY <1>1, <1>7, <1>8, <1>9 DEF WholeParts, loads, asks
<1>19. WholeParts(all, w.slot, w.running, loads, asks, n)
  BY ONLY <1>1, <1>4, <1>18 DEF WholeParts
<1>20. Whole(v, n)
  BY ONLY <1>17, <1>19, WholeOf
<1>21. v.panes = all /\ v.slot = w.slot /\ v.running = w.running
  BY ONLY <1>17, ScreenParts
<1>22. /\ \A p \in judged : all[p] = Judged(w.panes[p], catalogs[s], known[s])
       /\ \A p \in DOMAIN w.panes \ judged : all[p] = w.panes[p]
  BY DEF all
<1> QED BY ONLY <1>4, <1>20, <1>21, <1>22 DEF v, Rejudged

-----------------------------------------------------------------------------
\* What can become of a pane: it is left as it is, but for what it shows of
\* tabs; it is judged; or it is emptied.
Kept(a, b) == /\ b.rows = a.rows /\ b.editing_relation = a.editing_relation
              /\ b.editable = a.editable /\ b.staged \subseteq a.staged
              /\ Tab(b).session = Tab(a).session
Rated(a, b, catalog, known) ==
              /\ b.rows = a.rows /\ b.editing_relation = Relation(b)
              /\ b.editable = Editable(b, catalog, known) /\ b.staged \subseteq a.staged
              /\ Tab(b).session = Tab(a).session
Blank(b) == b.rows = NoRows /\ ~b.editable /\ b.staged = {}

LEMMA JudgedIsRated ==
    ASSUME NEW n \in Nat, NEW pane \in Panes(n), NEW catalog, NEW known
    PROVE  /\ Judged(pane, catalog, known) \in Panes(n)
           /\ Rated(pane, Judged(pane, catalog, known), catalog, known)
           /\ pane.rows = NoRows /\ pane.staged = {} => Blank(Judged(pane, catalog, known))
           /\ Tab(Judged(pane, catalog, known)) = Tab(pane)
<1> DEFINE b == Judged(pane, catalog, known)
<1>1. /\ b \in Panes(n) /\ b.tabs = pane.tabs /\ b.active_tab = pane.active_tab
      /\ b.results = pane.results /\ b.rows = pane.rows /\ b.editing_relation = Relation(pane)
      /\ b.editable = Editable(pane, catalog, known) /\ b.staged \subseteq pane.staged
      /\ Relation(b) = Relation(pane) /\ (Editable(pane, catalog, known) => pane.rows # NoRows)
  BY JudgedIsPane
<1> HIDE DEF b
<1>2. Tab(b) = Tab(pane)
  BY <1>1 DEF Tab
<1>3. Editable(b, catalog, known) = Editable(pane, catalog, known)
  BY <1>1 DEF Editable, Identity
<1>4. Rated(pane, b, catalog, known)
  BY <1>1, <1>2, <1>3 DEF Rated
<1>5. pane.rows = NoRows /\ pane.staged = {} => Blank(b)
  BY <1>1 DEF Blank
<1> QED BY <1>1, <1>2, <1>4, <1>5 DEF b

LEMMA SetDataIs ==
    ASSUME NEW n \in Nat, NEW pane \in Panes(n), NEW rows
    PROVE  SetData(pane, rows)
           = PaneOf(pane.tabs, pane.active_tab, pane.results, rows, pane.editing_relation,
                    pane.identity, pane.editable, {})
<1>1. pane = PaneOf(pane.tabs, pane.active_tab, pane.results, pane.rows,
                    pane.editing_relation, pane.identity, pane.editable, pane.staged)
  BY PaneIs
<1> DEFINE mid == PaneOf(pane.tabs, pane.active_tab, pane.results, rows,
                         pane.editing_relation, pane.identity, pane.editable, pane.staged)
<1>2. [pane EXCEPT !.rows = rows] = mid
  BY ONLY <1>1 DEF PaneOf
<1>3. ASSUME NEW y, y = mid
      PROVE  [y EXCEPT !.staged = {}]
             = PaneOf(pane.tabs, pane.active_tab, pane.results, rows, pane.editing_relation,
                      pane.identity, pane.editable, {})
  BY ONLY <1>3 DEF PaneOf
<1> HIDE DEF mid
<1> QED BY ONLY <1>2, <1>3 DEF SetData

\* Other panes on a screen.
LEMMA PutPanes ==
    ASSUME NEW n, NEW w, Whole(w, n), NEW all \in [DOMAIN w.panes -> Panes(n)],
           NEW run \in DOMAIN w.panes \cup {0}, NEW v,
           v = ScreenOf(all, w.slot, run, w.loading, w.asked)
    PROVE  /\ Whole(v, n) /\ v.panes = all /\ v.slot = w.slot /\ v.running = run
           /\ v.loading = w.loading /\ v.asked = w.asked
<1>1. WholeParts(w.panes, w.slot, w.running, w.loading, w.asked, n)
  BY WholeIs
<1>2. DOMAIN all = DOMAIN w.panes
  OBVIOUS
<1>3. WholeParts(all, w.slot, run, w.loading, w.asked, n)
  BY <1>1, <1>2 DEF WholeParts
<1>4. v = ScreenOf(all, w.slot, run, w.loading, w.asked)
  OBVIOUS
<1>5. Whole(v, n)
  BY ONLY <1>3, <1>4, WholeOf
<1> QED BY ONLY <1>4, <1>5, ScreenParts

\* One pane replaced.
LEMMA PutPane ==
    ASSUME NEW n, NEW w, Whole(w, n), NEW p \in DOMAIN w.panes, NEW x \in Panes(n), NEW v,
           v = [w EXCEPT !.panes[p] = x]
    PROVE  /\ Whole(v, n) /\ DOMAIN v.panes = DOMAIN w.panes /\ v.panes[p] = x
           /\ \A q \in DOMAIN w.panes \ {p} : v.panes[q] = w.panes[q]
           /\ v.slot = w.slot /\ v.running = w.running
<1> DEFINE all == [w.panes EXCEPT ![p] = x]
<1>1. w = ScreenOf(w.panes, w.slot, w.running, w.loading, w.asked)
      /\ WholeParts(w.panes, w.slot, w.running, w.loading, w.asked, n)
  BY WholeIs
<1>2. all \in [DOMAIN w.panes -> Panes(n)] /\ all[p] = x /\ DOMAIN all = DOMAIN w.panes
      /\ \A q \in DOMAIN w.panes \ {p} : all[q] = w.panes[q]
  BY <1>1 DEF WholeParts
<1>3. w.running \in DOMAIN w.panes \cup {0}
  BY <1>1 DEF WholeParts
<1>4. [w EXCEPT !.panes[p] = x] = ScreenOf(all, w.slot, w.running, w.loading, w.asked)
  BY ONLY <1>1 DEF ScreenOf
<1> HIDE DEF all
<1>5. v = ScreenOf(all, w.slot, w.running, w.loading, w.asked)
  BY <1>4
<1>6. Whole(w, n)
  OBVIOUS
<1> DEFINE run == w.running
<1>8. run \in DOMAIN w.panes \cup {0} /\ all \in [DOMAIN w.panes -> Panes(n)]
      /\ v = ScreenOf(all, w.slot, run, w.loading, w.asked)
  BY ONLY <1>2, <1>3, <1>5
<1> HIDE DEF run
<1>9. Whole(v, n) /\ v.panes = all /\ v.slot = w.slot /\ v.running = run
  BY ONLY <1>6, <1>8, PutPanes
<1>7. Whole(v, n) /\ v.panes = all /\ v.slot = w.slot /\ v.running = w.running
  BY ONLY <1>9 DEF run
<1> QED BY ONLY <1>2, <1>7

\* A slot that is left as it is, or takes up a reading.
Calm(a, b) == /\ b.held \in Reads \cup {Idle}
              /\ b.task = a.task \/ (a.task = Idle /\ b.task \in Asking)

\* The pane in front is read again, or emptied.
Reread(w, v, n) ==
    /\ Whole(v, n) /\ DOMAIN v.panes = DOMAIN w.panes
    /\ \A p \in DOMAIN w.panes \ {active_pane} : v.panes[p] = w.panes[p]
    /\ Tab(v.panes[active_pane]) = Tab(w.panes[active_pane])
    /\ \/ Blank(v.panes[active_pane])
       \/ /\ Kept(w.panes[active_pane], v.panes[active_pane])
          /\ w.panes[active_pane].results = 0 => v.panes[active_pane] = w.panes[active_pane]
    /\ \A t \in Sessions : Calm(w.slot[t], v.slot[t])

LEMMA SameIsCalm ==
    ASSUME NEW n, NEW w, Whole(w, n), NEW s \in Sessions PROVE Calm(w.slot[s], w.slot[s])
BY SlotIs DEF Calm

LEMMA ClearResultsIs ==
    ASSUME NEW n \in Nat, NEW w, Whole(w, n), active_pane \in DOMAIN w.panes,
           NEW s \in Sessions, NEW catalogs, NEW known
    PROVE  /\ Reread(w, ClearResults(w, s, catalogs, known), n)
           /\ Blank(ClearResults(w, s, catalogs, known).panes[active_pane])
<1> DEFINE v == ClearResults(w, s, catalogs, known)
<1> DEFINE pane == w.panes[active_pane]
           x == PaneOf(pane.tabs, pane.active_tab, 0, NoRows, pane.editing_relation,
                       pane.identity, pane.editable, {})
           mid == [w EXCEPT !.panes[active_pane] = x]
<1>1. pane \in Panes(n)
  BY DEF Whole
<1> HIDE DEF pane
<1>2. x \in Panes(n)
  <2>1. /\ pane.tabs \in Seq(Tabs) /\ pane.active_tab \in DOMAIN pane.tabs
        /\ pane.editing_relation \in Relations \cup {None} /\ pane.identity \in BOOLEAN
        /\ pane.editable \in BOOLEAN
    BY <1>1, PaneFields
  <2>2. 0 \in 0..2 /\ NoRows \in Found \cup {NoRows} /\ {} \in SUBSET (1..n)
    OBVIOUS
  <2> QED BY <2>1, <2>2, PaneTypes
<1>3. [SetData(pane, NoRows) EXCEPT !.results = 0] = x
  <2>1. SetData(pane, NoRows) = PaneOf(pane.tabs, pane.active_tab, pane.results, NoRows,
                                       pane.editing_relation, pane.identity, pane.editable, {})
    BY <1>1, SetDataIs
  <2> QED BY ONLY <2>1 DEF PaneOf
<1>4. x.rows = NoRows /\ x.staged = {} /\ Tab(x) = Tab(pane)
  BY PaneParts DEF Tab, PaneOf
<1> HIDE DEF x
<1>5. [w EXCEPT !.panes[active_pane] = [SetData(@, NoRows) EXCEPT !.results = 0]] = mid
  BY <1>3 DEF pane
<1> HIDE DEF mid
<1>6. v = Refresh(mid, {active_pane}, s, catalogs, known)
  BY <1>5 DEF ClearResults, RefreshEditability
<1> HIDE DEF v
<1>7. /\ Whole(mid, n) /\ DOMAIN mid.panes = DOMAIN w.panes /\ mid.panes[active_pane] = x
      /\ \A q \in DOMAIN w.panes \ {active_pane} : mid.panes[q] = w.panes[q]
      /\ mid.slot = w.slot /\ mid.running = w.running
  BY <1>2, PutPane DEF mid
<1>8. Rejudged(mid, v, {active_pane}, catalogs[s], known[s], n)
  <2>1. {active_pane} \subseteq DOMAIN mid.panes
    BY <1>7
  <2> QED BY <1>6, <1>7, <2>1, RefreshIs
<1>9. v.panes[active_pane] = Judged(x, catalogs[s], known[s])
  BY <1>7, <1>8 DEF Rejudged
<1>10. Blank(v.panes[active_pane]) /\ Tab(v.panes[active_pane]) = Tab(pane)
  BY <1>2, <1>4, <1>9, JudgedIsRated
<1>11. \A t \in Sessions : Calm(w.slot[t], v.slot[t])
  BY <1>7, <1>8, SameIsCalm DEF Rejudged
<1>12. Reread(w, v, n)
  BY <1>7, <1>8, <1>10, <1>11 DEF pane, Rejudged, Reread
<1> QED BY <1>10, <1>12 DEF v

\* A reading is held behind what a slot is at.
Holding(w, s, read) == [w EXCEPT !.slot[s].held = read]

LEMMA PutHeld ==
    ASSUME NEW n, NEW w, Whole(w, n), NEW s \in Sessions, NEW new \in Reads \cup {Idle}
    PROVE  /\ Whole(Holding(w, s, new), n) /\ Holding(w, s, new).panes = w.panes
           /\ Holding(w, s, new).running = w.running
           /\ \A t \in Sessions : Calm(w.slot[t], Holding(w, s, new).slot[t])
<1> DEFINE x == [task |-> w.slot[s].task, held |-> new]
<1> DEFINE slots == [t \in Sessions |-> IF t = s THEN x ELSE w.slot[t]]
<1>1. x \in Slots(n)
  BY SlotIs DEF Slots
<1>2. w = ScreenOf(w.panes, w.slot, w.running, w.loading, w.asked)
      /\ WholeParts(w.panes, w.slot, w.running, w.loading, w.asked, n)
  BY WholeIs
<1>3. w.slot[s] = [task |-> w.slot[s].task, held |-> w.slot[s].held]
      /\ w.slot \in [Sessions -> Slots(n)]
  BY <1>2, SlotIs DEF WholeParts
<1>4. [w.slot EXCEPT ![s].held = new] = slots
  BY ONLY <1>3
<1>5. Holding(w, s, new)
      = ScreenOf(w.panes, [w.slot EXCEPT ![s].held = new], w.running, w.loading, w.asked)
  BY ONLY <1>2 DEF Holding, ScreenOf
<1>6. slots \in [Sessions -> Slots(n)] /\ slots[s] = x
      /\ \A t \in Sessions \ {s} : slots[t] = w.slot[t]
  BY <1>1, <1>3
<1> HIDE DEF slots
<1>7. WholeParts(w.panes, slots, w.running, w.loading, w.asked, n)
  BY <1>2, <1>6 DEF WholeParts
<1>8. Holding(w, s, new) = ScreenOf(w.panes, slots, w.running, w.loading, w.asked)
  BY ONLY <1>4, <1>5
<1>9. Whole(Holding(w, s, new), n)
  BY ONLY <1>7, <1>8, WholeOf
<1>10. \A t \in Sessions : Calm(w.slot[t], slots[t])
  <2>1. Calm(w.slot[s], x)
    BY DEF Calm
  <2> QED BY <1>6, <2>1, SameIsCalm
<1> QED BY ONLY <1>8, <1>9, <1>10, ScreenParts

LEMMA StartedIsCalm ==
    ASSUME NEW n, NEW w, Whole(w, n), NEW s \in Sessions, ~Busy(w, s), NEW new \in Asking
    PROVE  /\ Whole(Started(w, s, new), n) /\ Started(w, s, new).panes = w.panes
           /\ Started(w, s, new).running = w.running
           /\ \A t \in Sessions : Calm(w.slot[t], Started(w, s, new).slot[t])
<1>1. new \in Tasks(n)
  BY DEF Tasks
<1>2. /\ Whole(Started(w, s, new), n)
      /\ \A t \in Sessions \ {s} : Started(w, s, new).slot[t] = w.slot[t]
      /\ Started(w, s, new).slot[s] = [task |-> new, held |-> w.slot[s].held]
      /\ Started(w, s, new).panes = w.panes /\ Started(w, s, new).running = w.running
  BY <1>1, PutTask
<1>3. Calm(w.slot[s], Started(w, s, new).slot[s])
  <2>1. w.slot[s].held \in Reads \cup {Idle} /\ w.slot[s].task = Idle
    BY SlotIs DEF Busy
  <2> QED BY ONLY <1>2, <2>1, new \in Asking DEF Calm
<1>4. \A t \in Sessions : Calm(w.slot[t], Started(w, s, new).slot[t])
  BY <1>2, <1>3, SameIsCalm
<1> QED BY <1>2, <1>4

LEMMA ReloadRelationIs ==
    ASSUME NEW n \in Nat, NEW w, Whole(w, n), active_pane \in DOMAIN w.panes,
           NEW s \in Sessions, NEW catalogs, NEW known
    PROVE  Reread(w, ReloadRelation(w, s, catalogs, known), n)
<1> DEFINE v == ReloadRelation(w, s, catalogs, known)
           pane == w.panes[active_pane]
           read == [kind |-> "rows", relation |-> Tab(pane).relation,
                    pane |-> active_pane, tab |-> pane.active_tab]
           x == PaneOf(pane.tabs, pane.active_tab, 0, pane.rows, pane.editing_relation,
                       pane.identity, pane.editable, pane.staged)
           all == [w.panes EXCEPT ![active_pane] = x]
           asking == [w EXCEPT !.panes[active_pane].results = 0, !.running = active_pane]
<1>1. w = ScreenOf(w.panes, w.slot, w.running, w.loading, w.asked)
      /\ WholeParts(w.panes, w.slot, w.running, w.loading, w.asked, n)
  BY WholeIs
<1>2. pane \in Panes(n) /\ active_pane \in Nat
  BY <1>1, EditingAssumption DEF WholeParts
<1>3. x \in Panes(n)
  <2>1. 0 \in 0..2
    OBVIOUS
  <2> HIDE DEF pane
  <2> QED BY <1>2, <2>1, PaneFields, PaneTypes
<1>4. x.rows = pane.rows /\ x.editing_relation = pane.editing_relation
      /\ x.editable = pane.editable /\ x.staged = pane.staged /\ x.results = 0
      /\ x.tabs = pane.tabs /\ x.active_tab = pane.active_tab
  BY ONLY DEF PaneOf
<1>5. Kept(pane, x) /\ Tab(x) = Tab(pane) /\ (pane.results = 0 => x = pane)
  <2>1. pane = PaneOf(pane.tabs, pane.active_tab, pane.results, pane.rows,
                      pane.editing_relation, pane.identity, pane.editable, pane.staged)
    BY <1>2, PaneIs
  <2> HIDE DEF pane
  <2>2. pane.results = 0 => x = pane
    BY ONLY <2>1
  <2> HIDE DEF x
  <2> QED BY ONLY <1>4, <2>2 DEF Kept, Tab
<1>6. asking = ScreenOf(all, w.slot, active_pane, w.loading, w.asked)
  <2>1. pane = PaneOf(pane.tabs, pane.active_tab, pane.results, pane.rows,
                      pane.editing_relation, pane.identity, pane.editable, pane.staged)
    BY <1>2, PaneIs
  <2>2. [pane EXCEPT !.results = 0] = x
    <3> HIDE DEF pane
    <3> QED BY ONLY <2>1 DEF PaneOf
  <2>3. [w.panes EXCEPT ![active_pane].results = 0] = all
    <3> HIDE DEF x
    <3> QED BY ONLY <2>2
  <2> HIDE DEF all, x
  <2>4. [w EXCEPT !.panes[active_pane].results = 0]
        = ScreenOf([w.panes EXCEPT ![active_pane].results = 0], w.slot, w.running, w.loading,
                   w.asked)
    BY ONLY <1>1 DEF ScreenOf
  <2>5. ASSUME NEW y, y = ScreenOf(all, w.slot, w.running, w.loading, w.asked)
        PROVE  [y EXCEPT !.running = active_pane]
               = ScreenOf(all, w.slot, active_pane, w.loading, w.asked)
    BY ONLY <2>5 DEF ScreenOf
  <2> QED BY ONLY <2>3, <2>4, <2>5
<1> HIDE DEF x, asking
<1>7. all \in [DOMAIN w.panes -> Panes(n)] /\ all[active_pane] = x
      /\ \A p \in DOMAIN w.panes \ {active_pane} : all[p] = w.panes[p]
  BY <1>1, <1>3 DEF WholeParts
<1> HIDE DEF all
<1>8. Whole(asking, n) /\ asking.panes = all /\ asking.slot = w.slot
  <2>1. active_pane \in DOMAIN w.panes \cup {0} /\ Whole(w, n)
    OBVIOUS
  <2> QED BY ONLY <1>6, <1>7, <2>1, PutPanes
<1>9. ASSUME NEW y, Whole(y, n), y.panes = asking.panes,
             \A t \in Sessions : Calm(asking.slot[t], y.slot[t])
      PROVE  Reread(w, y, n)
  <2>1. DOMAIN y.panes = DOMAIN w.panes
    BY <1>7, <1>8, <1>9
  <2> QED BY <1>5, <1>7, <1>8, <1>9, <2>1 DEF Reread, pane
<1>10. CASE Shape(catalogs[s], Tab(pane).relation) = "absent"
  <2>1. v = ClearResults(w, s, catalogs, known)
    BY <1>10 DEF ReloadRelation
  <2> QED BY <2>1, ClearResultsIs
<1>11. CASE Shape(catalogs[s], Tab(pane).relation) # "absent"
  <2>1. Tab(pane).relation \in Relations /\ pane.active_tab \in Nat
    <3> HIDE DEF pane
    <3>1. Tab(pane) \in Tabs /\ pane.tabs \in Seq(Tabs) /\ pane.active_tab \in DOMAIN pane.tabs
      BY <1>2, PaneFields
    <3>2. Tab(pane).relation # None
      BY <1>11 DEF Shape
    <3> QED BY <3>1, <3>2 DEF Tabs
  <2>2. read \in Reads
    <3> HIDE DEF pane
    <3> QED BY <1>2, <2>1 DEF Reads
  <2>3. CASE Busy(w, s)
    <3>1. v = Holding(asking, s, read)
      BY <1>11, <2>3 DEF ReloadRelation, Holding, asking
    <3> HIDE DEF read, v
    <3>2. Whole(Holding(asking, s, read), n) /\ Holding(asking, s, read).panes = asking.panes
          /\ \A t \in Sessions : Calm(asking.slot[t], Holding(asking, s, read).slot[t])
      BY <1>8, <2>2, PutHeld
    <3>3. Reread(w, v, n)
      BY ONLY <1>9, <3>1, <3>2
    <3> QED BY <3>3 DEF v
  <2>4. CASE ~Busy(w, s)
    <3>1. v = Started(asking, s, read)
      BY <1>11, <2>4 DEF ReloadRelation, asking
    <3> HIDE DEF read, v
    <3>2. ~Busy(asking, s) /\ read \in Asking
      BY <1>8, <2>2, <2>4 DEF Busy, Asking
    <3>3. Whole(Started(asking, s, read), n) /\ Started(asking, s, read).panes = asking.panes
          /\ \A t \in Sessions : Calm(asking.slot[t], Started(asking, s, read).slot[t])
      BY <1>8, <3>2, StartedIsCalm
    <3>4. Reread(w, v, n)
      BY ONLY <1>9, <3>1, <3>3
    <3> QED BY <3>4 DEF v
  <2> QED BY <2>3, <2>4
<1> QED BY <1>10, <1>11

LEMMA SameIsReread ==
    ASSUME NEW n, NEW w, Whole(w, n), active_pane \in DOMAIN w.panes
    PROVE  Reread(w, w, n)
BY SameIsCalm DEF Reread, Kept

LEMMA RefreshResultsIs ==
    ASSUME NEW n \in Nat, NEW w, Whole(w, n), active_pane \in DOMAIN w.panes,
           NEW s \in Sessions
    PROVE  Reread(w, RefreshResults(w, s), n)
BY SameIsReread, ReloadRelationIs DEF RefreshResults

LEMMA RefreshSchemaOnIs ==
    ASSUME NEW n, NEW w, Whole(w, n), NEW s \in Sessions
    PROVE  /\ Whole(RefreshSchemaOn(w, s), n) /\ RefreshSchemaOn(w, s).panes = w.panes
           /\ RefreshSchemaOn(w, s).running = w.running
           /\ \A t \in Sessions : Calm(w.slot[t], RefreshSchemaOn(w, s).slot[t])
<1>1. CASE Busy(w, s)
  BY <1>1, SameIsCalm DEF RefreshSchemaOn
<1>2. CASE ~Busy(w, s)
  <2>1. RefreshSchemaOn(w, s) = Started(w, s, [kind |-> "catalog"])
    BY <1>2 DEF RefreshSchemaOn
  <2>2. [kind |-> "catalog"] \in Asking
    BY DEF Asking
  <2> QED BY <1>2, <2>1, <2>2, StartedIsCalm
<1> QED BY <1>1, <1>2

\* Tabs let go of what they are about, not of their sessions.
LEMMA RetargetIs ==
    ASSUME NEW n \in Nat, NEW w, Whole(w, n), NEW r
    PROVE  /\ Whole(Retarget(w, r), n) /\ DOMAIN Retarget(w, r).panes = DOMAIN w.panes
           /\ \A p \in DOMAIN w.panes : Kept(w.panes[p], Retarget(w, r).panes[p])
           /\ Retarget(w, r).slot = w.slot /\ Retarget(w, r).running = w.running
<1> DEFINE Loose(strip) ==
             [i \in DOMAIN strip |-> IF strip[i].relation = r THEN [strip[i] EXCEPT !.relation = None]
                                    ELSE strip[i]]
           Let(pane) == [pane EXCEPT !.tabs = Loose(pane.tabs)]
           all == [p \in DOMAIN w.panes |-> Let(w.panes[p])]
<1>1. w = ScreenOf(w.panes, w.slot, w.running, w.loading, w.asked)
      /\ WholeParts(w.panes, w.slot, w.running, w.loading, w.asked, n)
  BY WholeIs
<1>2. Retarget(w, r) = [w EXCEPT !.panes = all]
  BY DEF Retarget
<1>3. ASSUME NEW strip \in Seq(Tabs)
      PROVE  /\ Loose(strip) \in Seq(Tabs) /\ DOMAIN Loose(strip) = DOMAIN strip
             /\ \A i \in DOMAIN strip : Loose(strip)[i].session = strip[i].session
  <2>1. ASSUME NEW tab \in Tabs
        PROVE  [tab EXCEPT !.relation = None] \in Tabs
               /\ [tab EXCEPT !.relation = None].session = tab.session
    BY DEF Tabs
  <2>2. \A i \in DOMAIN strip : strip[i] \in Tabs
    BY ElementOfSeq
  <2>3. \A i \in DOMAIN strip : Loose(strip)[i] \in Tabs
                               /\ Loose(strip)[i].session = strip[i].session
    <3>1. ASSUME NEW i \in DOMAIN strip
          PROVE  Loose(strip)[i] \in Tabs /\ Loose(strip)[i].session = strip[i].session
      <4>1. CASE strip[i].relation = r
        <5>1. Loose(strip)[i] = [strip[i] EXCEPT !.relation = None]
          BY <4>1
        <5>2. [strip[i] EXCEPT !.relation = None] \in Tabs
              /\ [strip[i] EXCEPT !.relation = None].session = strip[i].session
          BY <2>2 DEF Tabs
        <5> QED BY ONLY <5>1, <5>2
      <4>2. CASE strip[i].relation # r
        BY <2>2, <4>2
      <4> QED BY <4>1, <4>2
    <3> QED BY ONLY <3>1
  <2>4. DOMAIN Loose(strip) = 1..Len(strip) /\ Len(strip) \in Nat /\ DOMAIN strip = 1..Len(strip)
    OBVIOUS
  <2> HIDE DEF Loose
  <2>5. \E f \in [1..Len(strip) -> Tabs] : f = Loose(strip)
    <3>1. Loose(strip) = [i \in 1..Len(strip) |-> Loose(strip)[i]]
      BY DEF Loose
    <3> QED BY <2>3, <2>4, <3>1
  <2>6. Loose(strip) \in Seq(Tabs)
    BY <2>4, <2>5, SeqDef
  <2> QED BY <2>3, <2>4, <2>6
<1>4. ASSUME NEW p \in DOMAIN w.panes
      PROVE  Let(w.panes[p]) \in Panes(n) /\ Kept(w.panes[p], Let(w.panes[p]))
  <2>1. w.panes[p] \in Panes(n) /\ w.panes[p].tabs \in Seq(Tabs)
    BY <1>1, PaneFields DEF WholeParts
  <2> HIDE DEF Loose
  <2>2. /\ Loose(w.panes[p].tabs) \in Seq(Tabs)
        /\ DOMAIN Loose(w.panes[p].tabs) = DOMAIN w.panes[p].tabs
        /\ \A i \in DOMAIN Loose(w.panes[p].tabs) :
              Loose(w.panes[p].tabs)[i].session = w.panes[p].tabs[i].session
    BY <1>3, <2>1
  <2> DEFINE pane == w.panes[p]
             x == PaneOf(Loose(pane.tabs), pane.active_tab, pane.results, pane.rows,
                         pane.editing_relation, pane.identity, pane.editable, pane.staged)
  <2>3. pane = PaneOf(pane.tabs, pane.active_tab, pane.results, pane.rows,
                      pane.editing_relation, pane.identity, pane.editable, pane.staged)
    BY <2>1, PaneIs
  <2>4. Let(pane) = x
    <3> HIDE DEF pane
    <3> QED BY ONLY <2>3 DEF PaneOf
  <2>5. pane.active_tab \in DOMAIN Loose(pane.tabs)
    BY <2>1, <2>2, PaneFields
  <2>6. x \in Panes(n)
    <3> HIDE DEF pane
    <3> QED BY <2>1, <2>2, <2>5, PaneFields, PaneTypes DEF pane
  <2>7. x.rows = pane.rows /\ x.editing_relation = pane.editing_relation
        /\ x.editable = pane.editable /\ x.staged = pane.staged
        /\ x.tabs = Loose(pane.tabs) /\ x.active_tab = pane.active_tab
    BY ONLY DEF PaneOf
  <2> HIDE DEF x
  <2>8. Kept(pane, x)
    BY <2>2, <2>5, <2>7 DEF Kept, Tab
  <2> QED BY <2>4, <2>6, <2>8
<1> HIDE DEF Let
<1>5. all \in [DOMAIN w.panes -> Panes(n)] /\ \A p \in DOMAIN w.panes : all[p] = Let(w.panes[p])
  BY <1>4
<1> HIDE DEF all
<1>6. [w EXCEPT !.panes = all] = ScreenOf(all, w.slot, w.running, w.loading, w.asked)
  BY ONLY <1>1 DEF ScreenOf
<1>7. Retarget(w, r) = ScreenOf(all, w.slot, w.running, w.loading, w.asked)
  BY ONLY <1>2, <1>6
<1>8. w.running \in DOMAIN w.panes \cup {0} /\ Whole(w, n)
  BY <1>1 DEF WholeParts
<1> DEFINE v == Retarget(w, r)
           run == w.running
<1>9. v = ScreenOf(all, w.slot, run, w.loading, w.asked) /\ run \in DOMAIN w.panes \cup {0}
  BY <1>7, <1>8
<1> HIDE DEF v, run
<1>10. Whole(v, n) /\ v.panes = all /\ v.slot = w.slot /\ v.running = run
  BY ONLY <1>5, <1>8, <1>9, PutPanes
<1> QED BY ONLY <1>4, <1>5, <1>10 DEF v, run

\* Every pane is judged.
AtRest(w, v, catalog, known, n) ==
    /\ Whole(v, n) /\ DOMAIN v.panes = DOMAIN w.panes
    /\ \A p \in DOMAIN w.panes : Rated(w.panes[p], v.panes[p], catalog, known)
    /\ \A t \in Sessions : Calm(w.slot[t], v.slot[t])

LEMMA RefreshAllIs ==
    ASSUME NEW n \in Nat, NEW w, Whole(w, n), NEW s \in Sessions, NEW catalogs, NEW known
    PROVE  /\ AtRest(w, RefreshAll(w, s, catalogs, known), catalogs[s], known[s], n)
           /\ RefreshAll(w, s, catalogs, known).slot = w.slot
           /\ \A p \in DOMAIN w.panes :
                 Tab(RefreshAll(w, s, catalogs, known).panes[p]) = Tab(w.panes[p])
<1> DEFINE v == RefreshAll(w, s, catalogs, known)
<1>1. Rejudged(w, v, DOMAIN w.panes, catalogs[s], known[s], n)
  BY RefreshIs DEF RefreshAll
<1> HIDE DEF v
<1>2. ASSUME NEW p \in DOMAIN w.panes
      PROVE  Rated(w.panes[p], v.panes[p], catalogs[s], known[s])
             /\ Tab(v.panes[p]) = Tab(w.panes[p])
  <2>1. w.panes[p] \in Panes(n) /\ v.panes[p] = Judged(w.panes[p], catalogs[s], known[s])
    BY <1>1 DEF Whole, Rejudged
  <2> QED BY <2>1, JudgedIsRated
<1>3. \A t \in Sessions : Calm(w.slot[t], v.slot[t])
  BY <1>1, SameIsCalm DEF Rejudged
<1>4. AtRest(w, v, catalogs[s], known[s], n)
  BY <1>1, <1>2, <1>3 DEF AtRest, Rejudged
<1> QED BY <1>1, <1>2, <1>4 DEF v, Rejudged

LEMMA KeptThenRated ==
    ASSUME NEW a, NEW b, NEW c, NEW catalog, NEW known, Kept(a, b), Rated(b, c, catalog, known)
    PROVE  Rated(a, c, catalog, known)
BY DEF Kept, Rated

\* What a statement about an object leaves behind.
LEMMA FinishObjectIs ==
    ASSUME NEW n \in Nat, NEW w, Whole(w, n), session \in Sessions, pending_object # None
    PROVE  AtRest(w, FinishObject(w, FALSE), snapshot[session], grants[session], n)
<1> DEFINE loose == Retarget(w, pending_object)
           told == RefreshAll(loose, session, snapshot, grants)
           v == FinishObject(w, FALSE)
<1>1. v = RefreshSchemaOn(told, session)
  BY DEF FinishObject
<1>2. /\ Whole(loose, n) /\ DOMAIN loose.panes = DOMAIN w.panes
      /\ \A p \in DOMAIN w.panes : Kept(w.panes[p], loose.panes[p])
      /\ loose.slot = w.slot
  BY RetargetIs
<1> HIDE DEF loose
<1>3. AtRest(loose, told, snapshot[session], grants[session], n) /\ told.slot = loose.slot
  BY <1>2, RefreshAllIs
<1> HIDE DEF told
<1>4. Whole(told, n)
  BY <1>3 DEF AtRest
<1>5. Whole(v, n) /\ v.panes = told.panes /\ \A t \in Sessions : Calm(told.slot[t], v.slot[t])
  BY <1>1, <1>4, RefreshSchemaOnIs
<1> HIDE DEF v
<1>6. \A p \in DOMAIN w.panes : Rated(w.panes[p], v.panes[p], snapshot[session], grants[session])
  BY <1>2, <1>3, <1>5, KeptThenRated DEF AtRest
<1>7. AtRest(w, v, snapshot[session], grants[session], n)
  BY <1>2, <1>3, <1>5, <1>6 DEF AtRest
<1> QED BY <1>7 DEF v

\* What was held goes next.
LEMMA HeldGoesIs ==
    ASSUME NEW n, NEW w, Whole(w, n), NEW s \in Sessions
    PROVE  /\ Whole(HeldGoes(w, s), n) /\ HeldGoes(w, s).panes = w.panes
           /\ \A t \in Sessions \ {s} : HeldGoes(w, s).slot[t] = w.slot[t]
           /\ HeldGoes(w, s).slot[s].task = w.slot[s].held
<1> DEFINE x == [task |-> w.slot[s].held, held |-> Idle]
<1> DEFINE slots == [t \in Sessions |-> IF t = s THEN x ELSE w.slot[t]]
           v == HeldGoes(w, s)
<1>1. x \in Slots(n) /\ x.task = w.slot[s].held
  BY SlotIs DEF Slots, Tasks, Asking
<1>2. w = ScreenOf(w.panes, w.slot, w.running, w.loading, w.asked)
      /\ WholeParts(w.panes, w.slot, w.running, w.loading, w.asked, n)
  BY WholeIs
<1>3. w.slot \in [Sessions -> Slots(n)]
  BY <1>2 DEF WholeParts
<1>4. [w.slot EXCEPT ![s] = [task |-> @.held, held |-> Idle]] = slots
  BY <1>3
<1>5. v = ScreenOf(w.panes, [w.slot EXCEPT ![s] = [task |-> @.held, held |-> Idle]], w.running,
                   w.loading, w.asked)
  BY ONLY <1>2 DEF HeldGoes, ScreenOf
<1>6. slots \in [Sessions -> Slots(n)] /\ slots[s] = x
      /\ \A t \in Sessions \ {s} : slots[t] = w.slot[t]
  BY <1>1, <1>3
<1> HIDE DEF slots, v
<1>7. WholeParts(w.panes, slots, w.running, w.loading, w.asked, n)
  BY <1>2, <1>6 DEF WholeParts
<1>8. v = ScreenOf(w.panes, slots, w.running, w.loading, w.asked)
  BY ONLY <1>4, <1>5
<1>9. Whole(v, n)
  BY ONLY <1>7, <1>8, WholeOf
<1>10. v.slot = slots /\ v.panes = w.panes
  BY ONLY <1>8, ScreenParts
<1> QED BY ONLY <1>1, <1>6, <1>9, <1>10 DEF v

\* A slot is free, and no pane runs anything.
LEMMA FreedIs ==
    ASSUME NEW n, NEW w, Whole(w, n), NEW s \in Sessions
    PROVE  /\ Whole(Freed(w, s), n) /\ Freed(w, s).panes = w.panes
           /\ \A t \in Sessions \ {s} : Freed(w, s).slot[t] = w.slot[t]
           /\ Freed(w, s).slot[s].task = Idle
<1>1. Idle \in Tasks(n)
  BY DEF Tasks
<1>2. /\ Whole(Started(w, s, Idle), n) /\ Started(w, s, Idle).panes = w.panes
      /\ \A t \in Sessions \ {s} : Started(w, s, Idle).slot[t] = w.slot[t]
      /\ Started(w, s, Idle).slot[s] = [task |-> Idle, held |-> w.slot[s].held]
  BY <1>1, PutTask
<1> QED BY <1>2 DEF Freed

Resting(w) == [w EXCEPT !.running = 0]

LEMMA RestingIs ==
    ASSUME NEW n, NEW w, Whole(w, n)
    PROVE  /\ Whole(Resting(w), n) /\ Resting(w).panes = w.panes /\ Resting(w).slot = w.slot
<1> DEFINE v == Resting(w)
           run == 0
<1>1. w = ScreenOf(w.panes, w.slot, w.running, w.loading, w.asked)
      /\ w.panes \in [DOMAIN w.panes -> Panes(n)]
  BY WholeIs DEF WholeParts
<1>2. v = ScreenOf(w.panes, w.slot, run, w.loading, w.asked)
  BY ONLY <1>1 DEF Resting, ScreenOf
<1>3. run \in DOMAIN w.panes \cup {0} /\ Whole(w, n)
  OBVIOUS
<1> HIDE DEF v, run
<1>4. Whole(v, n) /\ v.panes = w.panes /\ v.slot = w.slot
  BY ONLY <1>1, <1>2, <1>3, PutPanes
<1> QED BY ONLY <1>4 DEF v

-----------------------------------------------------------------------------
\* What a step may do to a pane: nothing is staged that was not, or over other
\* rows.
Steps(a, b) == /\ b.staged \subseteq a.staged /\ (b.staged # {} => b.rows = a.rows)
               /\ b.editable => b.rows # NoRows

\* What is known of a session is what was known, unless it has news that the
\* panes were not told of.
Unmoved(s) == s \notin unheard' =>
    s \notin unheard /\ snapshot'[s] = snapshot[s] /\ grants'[s] = grants[s]

\* The rows a pane is judged over are its own, or new ones of its tab's session.
Source(pane, a) ==
    /\ a.staged \subseteq pane.staged /\ (a.staged # {} => a.rows = pane.rows)
    /\ ~strayed /\ a.rows # NoRows => a.rows.session = Tab(a).session

Fate(p) ==
    \/ Blank(panes'[p])
    \/ /\ Kept(panes[p], panes'[p])
       /\ panes[p].rows # NoRows => Unmoved(panes[p].rows.session)
    \/ /\ ~strayed' => panes'[p].rows \in
             {NoRows, [session |-> session, relation |-> Relation(panes'[p])]}
       /\ \E a : Source(panes[p], a)
                 /\ Rated(a, panes'[p], snapshot'[session], grants'[session])

LEMMA RatedIsCurrent ==
    ASSUME NEW n \in Nat, NEW b \in Panes(n), NEW a, NEW s \in Sessions, NEW catalogs, NEW known,
           Rated(a, b, catalogs[s], known[s]),
           b.rows \in {NoRows, [session |-> s, relation |-> Relation(b)]},
           a.rows # NoRows => a.rows.session = Tab(a).session
    PROVE  Own(b) /\ Current(b, catalogs, known) /\ (b.rows # NoRows => b.rows.session = s)
<1>1. CASE b.rows = NoRows
  BY <1>1 DEF Own, Current
<1>2. CASE b.rows # NoRows
  <2>1. b.rows = [session |-> s, relation |-> Relation(b)]
    BY <1>2
  <2>2. Relation(b) # None /\ b.rows.session = s /\ b.rows.relation = Relation(b)
    <3>1. b.rows \in Found
      BY <1>2, PaneFields
    <3>2. b.rows.relation \in Relations
      BY <3>1 DEF Found
    <3>3. b.rows.session = s /\ b.rows.relation = Relation(b)
      BY ONLY <2>1
    <3> QED BY <3>2, <3>3, EditingAssumption
  <2>3. b.editing_relation = Relation(b) /\ Tab(b).session = s
    BY <1>2, <2>2 DEF Rated
  <2>4. Own(b)
    BY ONLY <2>1, <2>3 DEF Own
  <2>5. b.editable <=> (catalogs[s][Relation(b)] = "table" /\ known[s][Relation(b)] # "read")
    BY <1>2, <2>2 DEF Rated, Editable, Identity, Resolve, Shape, WriteDenied
  <2>6. Current(b, catalogs, known)
    BY ONLY <2>2, <2>5 DEF Current
  <2> QED BY <2>2, <2>4, <2>6
<1> QED BY <1>1, <1>2

LEMMA FateSteps ==
    ASSUME NEW p, Fate(p), panes[p].editable => panes[p].rows # NoRows
    PROVE  Steps(panes[p], panes'[p])
<1>1. CASE Blank(panes'[p])
  BY <1>1 DEF Blank, Steps
<1>2. CASE Kept(panes[p], panes'[p])
  BY <1>2 DEF Kept, Steps
<1>3. ASSUME NEW a, Source(panes[p], a),
             Rated(a, panes'[p], snapshot'[session], grants'[session])
      PROVE  Steps(panes[p], panes'[p])
  <2>1. panes'[p].editable => panes'[p].rows # NoRows
    BY <1>3 DEF Rated, Editable, Identity, Resolve
  <2>2. panes'[p].staged \subseteq a.staged /\ panes'[p].rows = a.rows
    BY <1>3 DEF Rated
  <2>3. a.staged \subseteq panes[p].staged /\ (a.staged # {} => a.rows = panes[p].rows)
    BY <1>3 DEF Source
  <2> QED BY ONLY <2>1, <2>2, <2>3 DEF Steps
<1> QED BY <1>1, <1>2, <1>3 DEF Fate

LEMMA Fates ==
    ASSUME EditingInv, \A p \in DOMAIN panes : Fate(p), DOMAIN panes' = DOMAIN panes,
           NEW n \in Nat, panes' \in [DOMAIN panes' -> Panes(n)], strayed => strayed',
           UNCHANGED <<active_pane, session>>
    PROVE  Owned' /\ Judgements' /\ \A p \in DOMAIN panes' : Steps(panes[p], panes'[p])
<1>1. \A p \in DOMAIN panes' : Steps(panes[p], panes'[p])
  BY FateSteps DEF EditingInv, Typed
<1>2. SUFFICES ASSUME ~strayed' PROVE Owned' /\ Judgements'
  BY <1>1 DEF Owned, Judgements
<1>3. ~strayed /\ session \in Sessions /\ active_pane' = active_pane /\ session' = session
      /\ active_pane \in DOMAIN panes'
  BY <1>2 DEF EditingInv, Informed
<1>4. \A p \in DOMAIN panes : Own(panes[p])
      /\ (panes[p].rows.session \notin unheard => Current(panes[p], snapshot, grants))
  BY <1>3 DEF EditingInv, Owned, Judgements
<1>5. ASSUME NEW p \in DOMAIN panes'
      PROVE  /\ Own(panes'[p])
             /\ panes'[p].rows.session \notin unheard' => Current(panes'[p], snapshot', grants')
             /\ p = active_pane /\ panes'[p].rows # NoRows => panes'[p].rows.session = session
  <2>1. CASE Blank(panes'[p])
    BY <2>1 DEF Blank, Own, Current
  <2>2. CASE /\ Kept(panes[p], panes'[p])
             /\ panes[p].rows # NoRows => Unmoved(panes[p].rows.session)
    <3>1. panes'[p].rows = panes[p].rows /\ panes'[p].editable = panes[p].editable
          /\ panes'[p].editing_relation = panes[p].editing_relation
          /\ Tab(panes'[p]).session = Tab(panes[p]).session
      BY <2>2 DEF Kept
    <3>2. Own(panes'[p])
      BY <1>4, <3>1 DEF Own
    <3>3. panes'[p].rows.session \notin unheard' => Current(panes'[p], snapshot', grants')
      BY <1>4, <2>2, <3>1 DEF Current, Unmoved
    <3>4. p = active_pane /\ panes'[p].rows # NoRows => panes'[p].rows.session = session
      BY <1>3, <3>1 DEF EditingInv, Owned
    <3> QED BY <3>2, <3>3, <3>4
  <2>3. ASSUME NEW a, Source(panes[p], a),
               Rated(a, panes'[p], snapshot'[session], grants'[session]),
               panes'[p].rows \in
                 {NoRows, [session |-> session, relation |-> Relation(panes'[p])]}
        PROVE  Own(panes'[p]) /\ Current(panes'[p], snapshot', grants')
               /\ (panes'[p].rows # NoRows => panes'[p].rows.session = session)
    <3>1. a.rows # NoRows => a.rows.session = Tab(a).session
      BY <1>3, <2>3 DEF Source
    <3>2. panes'[p] \in Panes(n)
      OBVIOUS
    <3> QED BY <1>3, <2>3, <3>1, <3>2, RatedIsCurrent
  <2> QED BY <1>2, <2>1, <2>2, <2>3 DEF Fate
<1>6. Owned'
  BY <1>3, <1>5 DEF Owned
<1>7. Judgements'
  BY <1>5 DEF Judgements
<1> QED BY <1>6, <1>7

LEMMA BecomesIs ==
    ASSUME NEW n, NEW w, Whole(w, n), Becomes(w)
    PROVE  /\ Whole(Screen', n) /\ panes' = w.panes /\ slot' = w.slot
           /\ running_pane' = w.running
<1>1. w = ScreenOf(w.panes, w.slot, w.running, w.loading, w.asked)
  BY WholeIs
<1>2. Screen' = ScreenOf(w.panes, w.slot, w.running, w.loading, w.asked)
  BY DEF Screen, Becomes, ScreenOf
<1>3. Whole(Screen', n)
  BY ONLY <1>1, <1>2, Whole(w, n)
<1> QED BY <1>3 DEF Becomes

LEMMA ScreenIs ==
    ASSUME EditingInv
    PROVE  /\ Len(typed) \in Nat /\ Whole(Screen, Len(typed))
           /\ Screen.panes = panes /\ Screen.slot = slot /\ Screen.running = running_pane
           /\ active_pane \in DOMAIN panes /\ session \in Sessions
           /\ \A p \in DOMAIN panes : panes[p] \in Panes(Len(typed)) /\ p \in Nat
           /\ \A s \in Sessions : slot[s] \in Slots(Len(typed))
<1>1. /\ Screen.panes = panes /\ Screen.slot = slot /\ Screen.running = running_pane
  BY DEF Screen
<1>2. Whole(Screen, Len(typed)) /\ Len(typed) \in Nat
  BY DEF EditingInv, Typed
<1>3. panes \in [DOMAIN panes -> Panes(Len(typed))] /\ DOMAIN panes \subseteq DOMAIN Strips
      /\ slot \in [Sessions -> Slots(Len(typed))]
  BY <1>1, <1>2 DEF Whole
<1>4. \A p \in DOMAIN Strips : p \in Nat
  BY EditingAssumption
<1> QED BY <1>1, <1>2, <1>3, <1>4 DEF EditingInv, Informed

\* What a slot is at, or what it is at next, is not a save.
Undisturbed(a, b) == b = a \/ (a.kind # "ddl" /\ b.kind \notin {"ddl", "commit"})

LEMMA CalmIsUndisturbed ==
    ASSUME NEW a, NEW b, Calm(a, b) PROVE Undisturbed(a.task, b.task)
BY DEF Calm, Undisturbed, Asking, Reads, Idle

LEMMA UndisturbedThenCalm ==
    ASSUME NEW a, NEW b, NEW c, Undisturbed(a, b.task), Calm(b, c) PROVE Undisturbed(a, c.task)
BY DEF Calm, Undisturbed, Asking, Reads, Idle

LEMMA DesignStays ==
    ASSUME EditingInv, Undisturbed(slot[Designing].task, slot'[Designing].task),
           pending_structure' => pending_structure, design' = design,
           server'[Designing].design = server[Designing].design
    PROVE  DesignWaits'
BY DEF EditingInv, DesignWaits, Undisturbed

\* A step after which no edit is staged or on its way that was not before.
LEMMA Steady ==
    ASSUME EditingInv, typed' = typed, strayed => strayed', DOMAIN panes' \subseteq DOMAIN panes,
           \A p \in DOMAIN panes' : Steps(panes[p], panes'[p]),
           \A s \in Sessions : slot'[s].task.kind = "commit" => slot'[s].task = slot[s].task
    PROVE  Typed' /\ Sent' /\ Apart'
<1>1. Typed'
  BY DEF EditingInv, Typed, Steps
<1>2. Sent'
  BY DEF EditingInv, Sent
<1>3. Apart'
  <2>1. ASSUME NEW p \in DOMAIN panes', NEW q \in DOMAIN panes', p # q
        PROVE  panes'[p].staged \cap panes'[q].staged = {}
    <3>1. panes[p].staged \cap panes[q].staged = {}
      BY <2>1 DEF EditingInv, Apart
    <3>2. panes'[p].staged \subseteq panes[p].staged /\ panes'[q].staged \subseteq panes[q].staged
      BY DEF Steps
    <3> QED BY <3>1, <3>2
  <2>2. ASSUME NEW s \in Sessions, slot'[s].task.kind = "commit",
               NEW p \in DOMAIN panes' \ {slot'[s].task.pane}
        PROVE  panes'[p].staged \cap slot'[s].task.edits = {}
    <3>1. slot'[s].task = slot[s].task
      BY <2>2
    <3>2. panes[p].staged \cap slot[s].task.edits = {}
      BY <2>2, <3>1 DEF EditingInv, Apart
    <3>3. panes'[p].staged \subseteq panes[p].staged
      BY DEF Steps
    <3> QED BY <3>1, <3>2, <3>3
  <2> QED BY <2>1, <2>2 DEF Apart
<1> QED BY <1>1, <1>2, <1>3

\* The same, of a step that writes nothing back.
LEMMA Unedited ==
    ASSUME EditingInv, Whole(Screen', Len(typed)), active_pane' \in DOMAIN panes', Informed',
           UNCHANGED <<typed, written, twice, misled>>, strayed => strayed',
           DOMAIN panes' \subseteq DOMAIN panes,
           \A p \in DOMAIN panes' : Steps(panes[p], panes'[p]),
           \A s \in Sessions : slot'[s].task.kind = "commit" => slot'[s].task = slot[s].task,
           Owned', Judgements', DesignWaits'
    PROVE  EditingInv'
<1>1. typed' = typed /\ written' = written /\ twice' = twice /\ misled' = misled
  OBVIOUS
<1>2. Whole(Screen, Len(typed))'
  BY <1>1
<1>3. Typed' /\ Sent' /\ Apart'
  BY <1>1, Steady
<1>4. Taken'
  BY <1>1 DEF EditingInv, Taken, EditsGoHomeUnlessStrayed, EditsGoHome
<1>5. Unwritten'
  <2>1. SUFFICES ASSUME ~strayed', ~misled'
        PROVE  ~twice' /\ \A e \in written' :
                 /\ \A p \in DOMAIN panes' : e.edit \notin panes'[p].staged
                 /\ \A s \in Sessions : slot'[s].task.kind = "commit"
                                        => e.edit \notin slot'[s].task.edits
    BY DEF Unwritten
  <2>2. ~twice /\ \A e \in written :
                 /\ \A p \in DOMAIN panes : e.edit \notin panes[p].staged
                 /\ \A s \in Sessions : slot[s].task.kind = "commit"
                                        => e.edit \notin slot[s].task.edits
    BY <1>1, <2>1 DEF EditingInv, Unwritten
  <2>3. \A p \in DOMAIN panes' : panes'[p].staged \subseteq panes[p].staged
    BY DEF Steps
  <2> QED BY <1>1, <2>2, <2>3
<1> QED BY <1>2, <1>3, <1>4, <1>5 DEF EditingInv

\* The same, with what becomes of every pane told.
LEMMA Quietly ==
    ASSUME EditingInv, Whole(Screen', Len(typed)), \A p \in DOMAIN panes : Fate(p),
           DOMAIN panes' = DOMAIN panes,
           \A s \in Sessions : Undisturbed(slot[s].task, slot'[s].task)
                               \/ slot'[s].task.kind # "commit",
           UNCHANGED <<active_pane, session, typed, written, twice, misled>>,
           strayed => strayed', Informed', DesignWaits'
    PROVE  EditingInv'
<1>1. Len(typed) \in Nat /\ active_pane \in DOMAIN panes
  BY ScreenIs
<1>2. panes' \in [DOMAIN panes' -> Panes(Len(typed))]
  BY DEF Whole, Screen
<1>3. Owned' /\ Judgements' /\ \A p \in DOMAIN panes' : Steps(panes[p], panes'[p])
  BY <1>1, <1>2, Fates
<1>4. \A s \in Sessions : slot'[s].task.kind = "commit" => slot'[s].task = slot[s].task
  BY DEF Undisturbed
<1> QED BY <1>1, <1>3, <1>4, Unedited

LEMMA KeptFate ==
    ASSUME NEW p, Kept(panes[p], panes'[p]), UNCHANGED <<snapshot, grants, unheard>>
    PROVE  Fate(p)
BY DEF Fate, Unmoved

LEMMA SameFate ==
    ASSUME NEW p, panes'[p] = panes[p], UNCHANGED <<snapshot, grants, unheard>>
    PROVE  Fate(p)
BY KeptFate DEF Kept

LEMMA RereadFate ==
    ASSUME EditingInv, NEW w, NEW v, Reread(w, v, Len(typed)), w.panes = panes, panes' = v.panes,
           UNCHANGED <<snapshot, grants, unheard>>
    PROVE  DOMAIN panes' = DOMAIN panes /\ \A p \in DOMAIN panes : Fate(p)
<1>1. ASSUME NEW p \in DOMAIN panes PROVE Fate(p)
  <2>1. CASE p # active_pane
    BY <2>1, SameFate DEF Reread
  <2>2. CASE p = active_pane
    BY <2>2, KeptFate DEF Reread, Fate
  <2> QED BY <2>1, <2>2
<1> QED BY <1>1 DEF Reread

LEMMA StaysInformed ==
    ASSUME EditingInv, UNCHANGED <<server, snapshot, grants, design, pending_structure,
                             pending_object, session>>
    PROVE  Informed'
BY DEF EditingInv, Informed

-----------------------------------------------------------------------------
\* What the user does.
LEMMA ReloadKeeps == ASSUME EditingInv, Reload PROVE EditingInv'
<1> DEFINE v == ReloadRelation(Screen, session, snapshot, grants)
<1>1. Becomes(v) /\ UNCHANGED <<active_pane, session, snapshot, grants, design, pending_structure,
                                pending_object, server, typed, written, twice, strayed, unheard,
                                misled>>
  BY DEF Reload, Unsaved, pending, outside, history
<1>2. Reread(Screen, v, Len(typed))
  BY ScreenIs, ReloadRelationIs
<1> HIDE DEF v
<1>3. Whole(Screen', Len(typed)) /\ panes' = v.panes /\ slot' = v.slot
  BY <1>1, <1>2, BecomesIs DEF Reread
<1>4. DOMAIN panes' = DOMAIN panes /\ \A p \in DOMAIN panes : Fate(p)
  BY <1>1, <1>2, <1>3, ScreenIs, RereadFate
<1>5. \A s \in Sessions : Undisturbed(slot[s].task, slot'[s].task)
  BY <1>2, <1>3, ScreenIs, CalmIsUndisturbed DEF Reread
<1>6. DesignWaits'
  BY <1>1, <1>5, DesignStays, EditingAssumption
<1>7. Informed'
  BY <1>1, StaysInformed
<1> QED BY <1>1, <1>3, <1>4, <1>5, <1>6, <1>7, Quietly

\* Nothing is staged any more in the pane in front.
LEMMA ClearedIs ==
    ASSUME NEW n \in Nat, NEW w, Whole(w, n), active_pane \in DOMAIN w.panes
    PROVE  /\ Whole(Cleared(w), n) /\ DOMAIN Cleared(w).panes = DOMAIN w.panes
           /\ Kept(w.panes[active_pane], Cleared(w).panes[active_pane])
           /\ Cleared(w).panes[active_pane].staged = {}
           /\ Tab(Cleared(w).panes[active_pane]) = Tab(w.panes[active_pane])
           /\ \A p \in DOMAIN w.panes \ {active_pane} : Cleared(w).panes[p] = w.panes[p]
           /\ Cleared(w).slot = w.slot /\ Cleared(w).running = w.running
<1> DEFINE pane == w.panes[active_pane]
           x == PaneOf(pane.tabs, pane.active_tab, pane.results, pane.rows,
                       pane.editing_relation, pane.identity, pane.editable, {})
           v == Cleared(w)
<1>1. pane \in Panes(n)
  BY DEF Whole
<1>2. pane = PaneOf(pane.tabs, pane.active_tab, pane.results, pane.rows,
                    pane.editing_relation, pane.identity, pane.editable, pane.staged)
  BY <1>1, PaneIs
<1>3. x \in Panes(n)
  <2>1. {} \in SUBSET (1..n)
    OBVIOUS
  <2> HIDE DEF pane
  <2> QED BY <1>1, <2>1, PaneFields, PaneTypes
<1>4. x.rows = pane.rows /\ x.editing_relation = pane.editing_relation
      /\ x.editable = pane.editable /\ x.staged = {} /\ x.tabs = pane.tabs
      /\ x.active_tab = pane.active_tab
  BY ONLY DEF PaneOf
<1>5. [pane EXCEPT !.staged = {}] = x
  <2> HIDE DEF pane
  <2> QED BY ONLY <1>2 DEF PaneOf
<1> HIDE DEF x
<1>6. Kept(pane, x) /\ Tab(x) = Tab(pane)
  BY <1>4 DEF Kept, Tab
<1>7. v = [w EXCEPT !.panes[active_pane] = x]
  BY <1>5 DEF Cleared
<1> HIDE DEF v
<1>8. /\ Whole(v, n) /\ DOMAIN v.panes = DOMAIN w.panes /\ v.panes[active_pane] = x
      /\ \A q \in DOMAIN w.panes \ {active_pane} : v.panes[q] = w.panes[q]
      /\ v.slot = w.slot /\ v.running = w.running
  BY <1>3, <1>7, PutPane
<1> QED BY ONLY <1>4, <1>6, <1>8 DEF v, pane

LEMMA DiscardChangesKeeps == ASSUME EditingInv, DiscardChanges PROVE EditingInv'
<1> DEFINE v == Cleared(Screen)
<1>1. Becomes(v) /\ UNCHANGED <<active_pane, session, snapshot, grants, design, pending_structure,
                                pending_object, server, typed, written, twice, strayed, unheard,
                                misled>>
  BY DEF DiscardChanges, Unsaved, pending, outside, history
<1>2. /\ Whole(v, Len(typed)) /\ DOMAIN v.panes = DOMAIN panes
      /\ Kept(panes[active_pane], v.panes[active_pane])
      /\ \A p \in DOMAIN panes \ {active_pane} : v.panes[p] = panes[p]
      /\ v.slot = slot
  BY ScreenIs, ClearedIs
<1> HIDE DEF v
<1>3. Whole(Screen', Len(typed)) /\ panes' = v.panes /\ slot' = v.slot
  BY <1>1, <1>2, BecomesIs
<1>4. \A p \in DOMAIN panes : Fate(p)
  BY <1>1, <1>2, <1>3, KeptFate, SameFate
<1>5. \A s \in Sessions : Undisturbed(slot[s].task, slot'[s].task)
  BY <1>2, <1>3 DEF Undisturbed
<1>6. DesignWaits'
  BY <1>1, <1>5, DesignStays, EditingAssumption
<1>7. Informed'
  BY <1>1, StaysInformed
<1> QED BY <1>1, <1>2, <1>3, <1>4, <1>5, <1>6, <1>7, Quietly

LEMMA RefreshSchemaKeeps == ASSUME EditingInv, RefreshSchema PROVE EditingInv'
<1> DEFINE v == RefreshSchemaOn(Screen, session)
<1>1. Becomes(v) /\ UNCHANGED <<active_pane, session, snapshot, grants, design, pending_structure,
                                pending_object, server, typed, written, twice, strayed, unheard,
                                misled>>
  BY DEF RefreshSchema, Unsaved, pending, outside, history
<1>2. /\ Whole(v, Len(typed)) /\ v.panes = panes
      /\ \A t \in Sessions : Calm(slot[t], v.slot[t])
  BY ScreenIs, RefreshSchemaOnIs
<1> HIDE DEF v
<1>3. Whole(Screen', Len(typed)) /\ panes' = v.panes /\ slot' = v.slot
  BY <1>1, <1>2, BecomesIs
<1>4. \A p \in DOMAIN panes : Fate(p)
  BY <1>1, <1>2, <1>3, SameFate
<1>5. \A s \in Sessions : Undisturbed(slot[s].task, slot'[s].task)
  BY <1>2, <1>3, CalmIsUndisturbed
<1>6. DesignWaits'
  BY <1>1, <1>5, DesignStays, EditingAssumption
<1>7. Informed'
  BY <1>1, StaysInformed
<1> QED BY <1>1, <1>2, <1>3, <1>4, <1>5, <1>6, <1>7, Quietly

\* A step that leaves the screen alone.
LEMMA AllSame ==
    ASSUME EditingInv, UNCHANGED screen, UNCHANGED <<snapshot, grants, unheard, typed>>
    PROVE  /\ Whole(Screen', Len(typed)) /\ DOMAIN panes' = DOMAIN panes
           /\ \A p \in DOMAIN panes : Fate(p)
           /\ \A s \in Sessions : Undisturbed(slot[s].task, slot'[s].task)
<1>1. panes' = panes /\ slot' = slot /\ Screen' = Screen
  BY DEF screen, Screen
<1>2. \A p \in DOMAIN panes : Fate(p)
  BY <1>1, SameFate
<1> QED BY <1>1, <1>2, ScreenIs DEF Undisturbed

LEMMA DraftKeeps == ASSUME EditingInv, TypeDraft \/ RevertDraft PROVE EditingInv'
<1>1. UNCHANGED screen /\ UNCHANGED <<active_pane, session, snapshot, grants, pending_structure,
                                pending_object, server, typed, written, twice, strayed, unheard,
                                misled>>
      /\ design' \in [draft : Nat, original : Nat] /\ design'.original = design.original
  BY DEF TypeDraft, RevertDraft, outside, history, EditingInv, Informed
<1>2. /\ Whole(Screen', Len(typed)) /\ DOMAIN panes' = DOMAIN panes
      /\ \A p \in DOMAIN panes : Fate(p)
      /\ \A s \in Sessions : Undisturbed(slot[s].task, slot'[s].task)
  BY <1>1, AllSame
<1>3. slot' = slot
  BY <1>1 DEF screen
<1>4. DesignWaits'
  BY <1>1, <1>3 DEF EditingInv, DesignWaits
<1>5. Informed'
  BY <1>1 DEF EditingInv, Informed
<1> QED BY <1>1, <1>2, <1>4, <1>5, Quietly

\* A task for a slot that is free.
LEMMA StartsIs ==
    ASSUME EditingInv, ~Busy(Screen, session), NEW task \in Tasks(Len(typed)),
           Becomes(Started(Screen, session, task))
    PROVE  /\ Whole(Screen', Len(typed)) /\ panes' = panes /\ slot[session].task = Idle
           /\ slot'[session].task = task
           /\ \A s \in Sessions \ {session} : slot'[s] = slot[s]
<1> DEFINE v == Started(Screen, session, task)
<1>1. /\ Whole(v, Len(typed)) /\ v.panes = panes
      /\ \A t \in Sessions \ {session} : v.slot[t] = slot[t]
      /\ v.slot[session] = [task |-> task, held |-> slot[session].held]
  BY ScreenIs, PutTask
<1> HIDE DEF v
<1>2. Whole(Screen', Len(typed)) /\ panes' = v.panes /\ slot' = v.slot
  BY <1>1, BecomesIs DEF v
<1> QED BY <1>1, <1>2, ScreenIs DEF Busy

LEMMA CommitStructureKeeps == ASSUME EditingInv, CommitStructure PROVE EditingInv'
<1> DEFINE task == [kind |-> "ddl", draft |-> design.draft]
<1>1. Becomes(Started(Screen, session, task)) /\ ~Busy(Screen, session)
      /\ session = Designing /\ design.draft # design.original /\ pending_structure' = TRUE
      /\ UNCHANGED <<active_pane, session, snapshot, grants, design, pending_object, server,
                     typed, written, twice, strayed, unheard, misled>>
  BY DEF CommitStructure, outside, history
<1>2. task \in Tasks(Len(typed)) /\ task.kind = "ddl" /\ task.draft = design.draft
  BY DEF EditingInv, Informed, Tasks
<1> HIDE DEF task
<1>3. /\ Whole(Screen', Len(typed)) /\ panes' = panes /\ slot[session].task = Idle
      /\ slot'[session].task = task
      /\ \A s \in Sessions \ {session} : slot'[s] = slot[s]
  BY <1>1, <1>2, StartsIs
<1>4. \A p \in DOMAIN panes : Fate(p)
  BY <1>1, <1>3, SameFate
<1>5. \A s \in Sessions : Undisturbed(slot[s].task, slot'[s].task)
                          \/ slot'[s].task.kind # "commit"
  BY <1>2, <1>3 DEF Undisturbed
<1>6. DesignWaits'
  BY <1>1, <1>2, <1>3 DEF DesignWaits
<1>7. Informed'
  BY <1>1 DEF EditingInv, Informed
<1> QED BY <1>1, <1>3, <1>4, <1>5, <1>6, <1>7, Quietly

LEMMA DropObjectKeeps == ASSUME EditingInv, NEW r \in Relations, DropObject(r) PROVE EditingInv'
<1> DEFINE task == [kind |-> "drop", relation |-> r]
<1>1. Becomes(Started(Screen, session, task)) /\ ~Busy(Screen, session) /\ pending_object' = r
      /\ UNCHANGED <<active_pane, session, snapshot, grants, design, pending_structure, server,
                     typed, written, twice, strayed, unheard, misled>>
  BY DEF DropObject, outside, history
<1>2. task \in Tasks(Len(typed)) /\ task.kind = "drop"
  BY DEF Tasks
<1> HIDE DEF task
<1>3. /\ Whole(Screen', Len(typed)) /\ panes' = panes /\ slot[session].task = Idle
      /\ slot'[session].task = task
      /\ \A s \in Sessions \ {session} : slot'[s] = slot[s]
  BY <1>1, <1>2, StartsIs
<1>4. \A p \in DOMAIN panes : Fate(p)
  BY <1>1, <1>3, SameFate
<1>5. \A s \in Sessions : Undisturbed(slot[s].task, slot'[s].task)
  BY <1>2, <1>3 DEF Undisturbed, Idle
<1>6. DesignWaits'
  BY <1>1, <1>5, DesignStays, EditingAssumption
<1>7. Informed'
  BY <1>1 DEF EditingInv, Informed
<1> QED BY <1>1, <1>3, <1>4, <1>5, <1>6, <1>7, Quietly

LEMMA AnswerGrantsKeeps ==
    ASSUME EditingInv, NEW s \in Sessions, NEW r \in Relations, AnswerGrants(s, r) PROVE EditingInv'
<1> DEFINE right == server[s].rights[r]
           reads == [t \in Sessions |-> [asked[t] EXCEPT ![r] = IF t = s THEN right ELSE @]]
<1>1. asked' = [asked EXCEPT ![s][r] = right]
      /\ UNCHANGED <<panes, slot, running_pane, loading_grants, active_pane, session, snapshot,
                     grants, server, design, pending_structure, pending_object, typed, written,
                     twice, strayed, unheard, misled>>
  BY DEF AnswerGrants, pending, outside, history
<1>2. /\ panes \in [DOMAIN panes -> Panes(Len(typed))] /\ DOMAIN panes \subseteq DOMAIN Strips
      /\ slot \in [Sessions -> Slots(Len(typed))] /\ running_pane \in DOMAIN panes \cup {0}
      /\ loading_grants \in [Sessions -> Relations \cup {None}]
      /\ asked \in [Sessions -> [Relations -> Rights \cup {"not", "sent"}]]
      /\ \A t \in Sessions :
            loading_grants[t] # None => asked[t][loading_grants[t]] # "not"
  BY ScreenIs DEF Whole, Screen
<1>3. right \in Rights /\ right # "not"
  BY DEF EditingInv, Informed, Rights
<1> HIDE DEF right
<1>4. /\ asked' \in [Sessions -> [Relations -> Rights \cup {"not", "sent"}]]
      /\ \A t \in Sessions : \A q \in Relations : asked'[t][q] # asked[t][q] => asked'[t][q] = right
  BY <1>1, <1>2, <1>3
<1>5. \A t \in Sessions : loading_grants'[t] # None => asked'[t][loading_grants'[t]] # "not"
  BY <1>1, <1>2, <1>3, <1>4
<1>6. WholeParts(panes', slot', running_pane', loading_grants', asked', Len(typed))
  BY <1>1, <1>2, <1>4, <1>5 DEF WholeParts
<1>7. Screen' = ScreenOf(panes', slot', running_pane', loading_grants', asked')
  BY DEF Screen, ScreenOf
<1>8. Whole(Screen', Len(typed))
  BY ONLY <1>6, <1>7, WholeOf
<1>9. \A p \in DOMAIN panes : Fate(p)
  BY <1>1, SameFate
<1>10. \A t \in Sessions : Undisturbed(slot[t].task, slot'[t].task)
  BY <1>1 DEF Undisturbed
<1>11. DesignWaits'
  BY <1>1, <1>10, DesignStays, EditingAssumption
<1>12. Informed'
  BY <1>1, StaysInformed
<1> QED BY <1>1, <1>8, <1>9, <1>10, <1>11, <1>12, Quietly

\* The tables and privileges of a server, altered by others.
LEMMA ForeignKeeps == ASSUME EditingInv, Foreign PROVE EditingInv'
<1> DEFINE Servers == [tables : [Relations -> Shapes], rights : [Relations -> Rights], design : Nat]
<1>1. UNCHANGED screen /\ UNCHANGED <<active_pane, session, snapshot, grants, design,
                                      pending_structure, pending_object, typed, written, twice,
                                      strayed, unheard, misled>>
  BY DEF Foreign, pending, history
<1>2. server' \in [Sessions -> Servers] /\ server'[Designing].design = server[Designing].design
  <2>1. PICK s \in Sessions, r \in Contested :
          \/ \E shape \in Shapes : server' = [server EXCEPT ![s].tables[r] = shape]
          \/ \E right \in Rights : server' = [server EXCEPT ![s].rights[r] = right]
    BY DEF Foreign
  <2>2. server \in [Sessions -> Servers]
    BY DEF EditingInv, Informed
  <2>3. \A t \in Sessions : server[t] \in Servers
    BY <2>2
  <2>4. CASE \E shape \in Shapes : server' = [server EXCEPT ![s].tables[r] = shape]
    <3>1. PICK shape \in Shapes : server' = [server EXCEPT ![s].tables[r] = shape]
      BY <2>4
    <3>2. [server[s] EXCEPT !.tables[r] = shape] \in Servers
          /\ [server[s] EXCEPT !.tables[r] = shape].design = server[s].design
      BY <2>3
    <3> HIDE DEF Servers
    <3>3. server' = [server EXCEPT ![s] = [server[s] EXCEPT !.tables[r] = shape]]
      BY <3>1
    <3> QED BY <2>2, <3>2, <3>3, EditingAssumption
  <2>5. CASE \E right \in Rights : server' = [server EXCEPT ![s].rights[r] = right]
    <3>1. PICK right \in Rights : server' = [server EXCEPT ![s].rights[r] = right]
      BY <2>5
    <3>2. [server[s] EXCEPT !.rights[r] = right] \in Servers
          /\ [server[s] EXCEPT !.rights[r] = right].design = server[s].design
      BY <2>3
    <3> HIDE DEF Servers
    <3>3. server' = [server EXCEPT ![s] = [server[s] EXCEPT !.rights[r] = right]]
      BY <3>1
    <3> QED BY <2>2, <3>2, <3>3, EditingAssumption
  <2> QED BY <2>1, <2>4, <2>5
<1>3. /\ Whole(Screen', Len(typed)) /\ DOMAIN panes' = DOMAIN panes
      /\ \A p \in DOMAIN panes : Fate(p)
      /\ \A s \in Sessions : Undisturbed(slot[s].task, slot'[s].task)
  BY <1>1, AllSame
<1>4. DesignWaits'
  BY <1>1, <1>2, <1>3, DesignStays, EditingAssumption
<1>5. Informed'
  BY <1>1, <1>2 DEF EditingInv, Informed
<1> QED BY <1>1, <1>3, <1>4, <1>5, Quietly

\* A pane that stays as it is, and its window's session with what is known.
LEMMA SameSteps ==
    ASSUME EditingInv, NEW p \in DOMAIN panes, panes'[p] = panes[p] PROVE Steps(panes[p], panes'[p])
BY DEF EditingInv, Typed, Steps

LEMMA SameJudgements ==
    ASSUME EditingInv, \A p \in DOMAIN panes' : p \in DOMAIN panes /\ panes'[p] = panes[p],
           UNCHANGED <<snapshot, grants, unheard>>, strayed => strayed'
    PROVE  Judgements' /\ (~strayed' => \A p \in DOMAIN panes' : Own(panes'[p]))
BY DEF EditingInv, Judgements, Owned

LEMMA ActivatePaneKeeps == ASSUME EditingInv, NEW p, ActivatePane(p) PROVE EditingInv'
<1>1. /\ p \in DOMAIN panes /\ active_pane' = p /\ session' = Tab(panes[p]).session
      /\ UNCHANGED screen /\ UNCHANGED <<snapshot, grants, design, pending_structure,
                     pending_object, server, typed, written, twice, strayed, unheard, misled>>
  BY DEF ActivatePane, Unsaved, pending, outside, history
<1>2. panes' = panes /\ slot' = slot
  BY <1>1 DEF screen
<1>3. /\ Whole(Screen', Len(typed)) /\ \A s \in Sessions : Undisturbed(slot[s].task, slot'[s].task)
  BY <1>1, AllSame
<1>4. session' \in Sessions
  <2>1. panes[p] \in Panes(Len(typed)) /\ Len(typed) \in Nat
    BY <1>1, ScreenIs
  <2>2. Tab(panes[p]) \in Tabs
    BY <2>1, PaneFields
  <2> QED BY <1>1, <2>2 DEF Tabs
<1>5. Informed'
  BY <1>1, <1>4 DEF EditingInv, Informed
<1>6. DesignWaits'
  BY <1>1, <1>3, DesignStays, EditingAssumption
<1>7. Judgements' /\ (~strayed' => \A q \in DOMAIN panes' : Own(panes'[q]))
  BY <1>1, <1>2, SameJudgements
<1>8. Owned'
  <2>1. SUFFICES ASSUME ~strayed', panes'[p].rows # NoRows PROVE panes'[p].rows.session = session'
    BY <1>1, <1>7 DEF Owned
  <2>2. panes'[p].rows
          = [session |-> Tab(panes'[p]).session, relation |-> panes'[p].editing_relation]
    BY <1>1, <1>2, <1>7, <2>1 DEF Own
  <2>3. panes'[p].rows.session = Tab(panes'[p]).session
    BY ONLY <2>2
  <2> QED BY <1>1, <1>2, <2>3
<1>9. \A q \in DOMAIN panes' : Steps(panes[q], panes'[q])
  BY <1>2, SameSteps
<1> QED BY <1>1, <1>2, <1>3, <1>5, <1>6, <1>7, <1>8, <1>9, Unedited

LEMMA ClosePaneKeeps == ASSUME EditingInv, NEW p, ClosePane(p) PROVE EditingInv'
<1> DEFINE others == DOMAIN panes \ {p}
           right == {q \in others : q > p}
<1>1. /\ p \in DOMAIN panes /\ others # {}
      /\ active_pane' = IF active_pane # p THEN active_pane
                        ELSE IF right # {} THEN Min(right) ELSE Max(others)
      /\ panes' = [q \in others |-> panes[q]]
      /\ running_pane' = IF running_pane = p THEN 0 ELSE running_pane
      /\ UNCHANGED <<session, slot, loading_grants, asked, snapshot, grants, design,
                     pending_structure, pending_object, server, typed, written, twice, unheard,
                     misled>>
      /\ Strays(session, {active_pane'} \ {active_pane})
  BY DEF ClosePane, pending, outside
<1>2. /\ panes \in [DOMAIN panes -> Panes(Len(typed))] /\ DOMAIN panes \subseteq DOMAIN Strips
      /\ slot \in [Sessions -> Slots(Len(typed))] /\ running_pane \in DOMAIN panes \cup {0}
      /\ loading_grants \in [Sessions -> Relations \cup {None}]
      /\ asked \in [Sessions -> [Relations -> Rights \cup {"not", "sent"}]]
      /\ \A t \in Sessions :
            loading_grants[t] # None => asked[t][loading_grants[t]] # "not"
  BY ScreenIs DEF Whole, Screen
<1>3. DOMAIN panes' = others /\ \A q \in DOMAIN panes' : q \in DOMAIN panes /\ panes'[q] = panes[q]
  BY <1>1
<1>4. active_pane' \in others
  <2>1. DOMAIN Strips = 1..Len(Strips) /\ Len(Strips) \in Nat
    BY EditingAssumption
  <2>2. others \in SUBSET (1..Len(Strips)) /\ right \in SUBSET (1..Len(Strips))
    BY <1>2, <2>1
  <2>3. CASE active_pane # p
    BY <1>1, <2>3, ScreenIs
  <2>4. CASE active_pane = p /\ right # {}
    <3>1. \E i \in right : \A j \in right : i <= j
      BY <2>1, <2>2, <2>4, HasEnds
    <3>2. Min(right) \in right
      BY <3>1 DEF Min
    <3>3. active_pane' = Min(right)
      BY <1>1, <2>4
    <3> QED BY <3>2, <3>3
  <2>5. CASE active_pane = p /\ right = {}
    <3>1. Max(others) \in others
      BY <1>1, <2>1, <2>2, HasEnds
    <3>2. active_pane' = Max(others)
      BY <1>1, <2>5
    <3> QED BY <3>1, <3>2
  <2> QED BY <2>3, <2>4, <2>5
<1> HIDE DEF others, right
<1>5. panes' \in [DOMAIN panes' -> Panes(Len(typed))] /\ DOMAIN panes' \subseteq DOMAIN Strips
  BY <1>1, <1>2, <1>3
<1>6. running_pane' \in DOMAIN panes' \cup {0}
  BY <1>1, <1>2, <1>3 DEF others
<1>7. WholeParts(panes', slot', running_pane', loading_grants', asked', Len(typed))
  BY <1>1, <1>2, <1>5, <1>6 DEF WholeParts
<1>8. Screen' = ScreenOf(panes', slot', running_pane', loading_grants', asked')
  BY DEF Screen, ScreenOf
<1>9. Whole(Screen', Len(typed))
  BY ONLY <1>7, <1>8, WholeOf
<1>10. strayed => strayed'
  BY <1>1 DEF Strays
<1>11. Judgements' /\ (~strayed' => \A q \in DOMAIN panes' : Own(panes'[q]))
  BY <1>1, <1>3, <1>10, SameJudgements
<1>12. Owned'
  <2>1. SUFFICES ASSUME ~strayed', panes'[active_pane'].rows # NoRows
                 PROVE  panes'[active_pane'].rows.session = session
    BY <1>1, <1>11 DEF Owned
  <2>2. CASE active_pane' = active_pane
    BY <1>3, <1>4, <1>10, <2>1, <2>2 DEF EditingInv, Owned
  <2>3. CASE active_pane' # active_pane
    <3>1. panes'[active_pane'].rows
            \in {NoRows, [session |-> session, relation |-> Relation(panes'[active_pane'])]}
      BY <1>1, <1>3, <1>4, <2>1, <2>3 DEF Strays, Elsewhere
    <3>2. panes'[active_pane'].rows
            = [session |-> session, relation |-> Relation(panes'[active_pane'])]
      BY <2>1, <3>1
    <3> QED BY ONLY <3>2
  <2> QED BY <2>2, <2>3
<1>13. \A q \in DOMAIN panes' : Steps(panes[q], panes'[q])
  BY <1>3, SameSteps
<1>14. Informed'
  BY <1>1, StaysInformed
<1>15. DesignWaits'
  BY <1>1, DesignStays, EditingAssumption DEF Undisturbed
<1>16. active_pane' \in DOMAIN panes' /\ DOMAIN panes' \subseteq DOMAIN panes
  BY <1>3, <1>4
<1> QED BY <1>1, <1>9, <1>10, <1>11, <1>12, <1>13, <1>14, <1>15, <1>16, Unedited
\* A step that only changes the pane in front, and which session is.
LEMMA Fronted ==
    ASSUME EditingInv, Whole(Screen', Len(typed)), DOMAIN panes' = DOMAIN panes,
           \A p \in DOMAIN panes \ {active_pane} : panes'[p] = panes[p],
           \A s \in Sessions : Undisturbed(slot[s].task, slot'[s].task),
           UNCHANGED <<active_pane, snapshot, grants, design, pending_structure,
                       pending_object, server, typed, written, twice, unheard, misled>>,
           session' \in Sessions, strayed => strayed',
           Steps(panes[active_pane], panes'[active_pane]),
           ~strayed' =>
              /\ Own(panes'[active_pane])
              /\ panes'[active_pane].rows.session \notin unheard
                   => Current(panes'[active_pane], snapshot, grants)
              /\ panes'[active_pane].rows # NoRows
                   => panes'[active_pane].rows.session = session'
    PROVE  EditingInv'
<1>1. \A p \in DOMAIN panes' : Steps(panes[p], panes'[p])
  BY SameSteps
<1>2. \A s \in Sessions : slot'[s].task.kind = "commit" => slot'[s].task = slot[s].task
  BY DEF Undisturbed
<1>3. Owned' /\ Judgements'
  BY DEF EditingInv, Owned, Judgements
<1>4. Informed'
  BY DEF EditingInv, Informed
<1>5. DesignWaits'
  BY DesignStays, EditingAssumption
<1>6. active_pane' \in DOMAIN panes'
  BY ScreenIs
<1> QED BY <1>1, <1>2, <1>3, <1>4, <1>5, <1>6, Unedited

\* The tab in front takes what is shown with it, and another comes to the front.
Turned(pane, i) ==
    [pane EXCEPT !.tabs[pane.active_tab].cached = CacheShown(pane), !.active_tab = i]

LEMMA TurnedIs ==
    ASSUME NEW n \in Nat, NEW pane \in Panes(n), NEW i \in DOMAIN pane.tabs, i # pane.active_tab
    PROVE  /\ Turned(pane, i) \in Panes(n) /\ Tab(Turned(pane, i)) = pane.tabs[i]
           /\ Turned(pane, i).rows = pane.rows /\ Turned(pane, i).staged = pane.staged
           /\ Turned(pane, i).editing_relation = pane.editing_relation
           /\ Turned(pane, i).editable = pane.editable
           /\ Turned(pane, i).tabs[i] = pane.tabs[i]
<1> DEFINE at == pane.active_tab
           taken == [pane.tabs[at] EXCEPT !.cached = CacheShown(pane)]
           all == [pane.tabs EXCEPT ![at] = taken]
           x == PaneOf(all, i, pane.results, pane.rows, pane.editing_relation, pane.identity,
                       pane.editable, pane.staged)
<1>1. /\ pane.tabs \in Seq(Tabs) /\ at \in DOMAIN pane.tabs /\ pane.tabs[at] \in Tabs
      /\ pane.rows \in Found \cup {NoRows}
  BY PaneFields, ElementOfSeq
<1>2. taken \in Tabs
  BY <1>1 DEF Tabs, CacheShown
<1>3. pane = PaneOf(pane.tabs, at, pane.results, pane.rows, pane.editing_relation,
                    pane.identity, pane.editable, pane.staged)
  BY PaneIs
<1>4. [pane.tabs EXCEPT ![at].cached = CacheShown(pane)] = all
  BY <1>1
<1> HIDE DEF taken
<1>5. all \in Seq(Tabs) /\ DOMAIN all = DOMAIN pane.tabs /\ all[i] = pane.tabs[i]
  BY <1>1, <1>2, ExceptSeq
<1> HIDE DEF all
<1>6. [pane EXCEPT !.tabs[at].cached = CacheShown(pane)]
      = PaneOf([pane.tabs EXCEPT ![at].cached = CacheShown(pane)], at, pane.results, pane.rows,
               pane.editing_relation, pane.identity, pane.editable, pane.staged)
  <2> DEFINE shown == CacheShown(pane)
  <2> HIDE DEF shown
  <2>1. [pane EXCEPT !.tabs[at].cached = shown]
      = PaneOf([pane.tabs EXCEPT ![at].cached = shown], at, pane.results, pane.rows,
               pane.editing_relation, pane.identity, pane.editable, pane.staged)
    BY ONLY <1>3 DEF PaneOf
  <2> QED BY <2>1 DEF shown
<1>7. ASSUME NEW y, y = PaneOf(all, at, pane.results, pane.rows, pane.editing_relation,
                               pane.identity, pane.editable, pane.staged)
      PROVE  [y EXCEPT !.active_tab = i] = x
  BY ONLY <1>7 DEF PaneOf
<1> DEFINE v == Turned(pane, i)
<1>8. v = x
  <2> HIDE DEF x
  <2> QED BY ONLY <1>4, <1>6, <1>7 DEF Turned, v
<1>9. x \in Panes(n)
  BY <1>5, PaneFields, PaneTypes
<1>10. /\ x.tabs = all /\ x.active_tab = i /\ x.rows = pane.rows /\ x.staged = pane.staged
       /\ x.editing_relation = pane.editing_relation /\ x.editable = pane.editable
  BY PaneParts
<1> HIDE DEF x, v
<1>11. v \in Panes(n) /\ Tab(v) = pane.tabs[i] /\ v.tabs[i] = pane.tabs[i]
  BY <1>5, <1>8, <1>9, <1>10 DEF Tab
<1> QED BY <1>8, <1>10, <1>11 DEF v

\* Rows are put back, and asked about.
LEMMA RestoredIs ==
    ASSUME NEW n \in Nat, NEW w, Whole(w, n), active_pane \in DOMAIN w.panes,
           NEW s \in Sessions, NEW i \in DOMAIN w.panes[active_pane].tabs
    PROVE  /\ Whole(Restored(w, i, s), n) /\ Restored(w, i, s).slot = w.slot
           /\ DOMAIN Restored(w, i, s).panes = DOMAIN w.panes
           /\ \A p \in DOMAIN w.panes \ {active_pane} : Restored(w, i, s).panes[p] = w.panes[p]
           /\ \E a : /\ a.staged = {} /\ Tab(a) = Tab(w.panes[active_pane])
                     /\ Rated(a, Restored(w, i, s).panes[active_pane], snapshot[s], grants[s])
           /\ Restored(w, i, s).panes[active_pane] \in Panes(n)
<1> DEFINE pane == w.panes[active_pane]
           rows == pane.tabs[i].cached
           x == PaneOf(pane.tabs, pane.active_tab, pane.results, rows, pane.editing_relation,
                       pane.identity, pane.editable, {})
           mid == [w EXCEPT !.panes[active_pane] = x]
           v == Restored(w, i, s)
<1>1. pane \in Panes(n)
  BY DEF Whole
<1> HIDE DEF pane
<1>2. rows \in Found \cup {NoRows}
  <2>1. pane.tabs[i] \in Tabs
    BY <1>1, PaneFields, ElementOfSeq DEF pane
  <2> QED BY <2>1 DEF Tabs
<1> HIDE DEF rows
<1>3. x \in Panes(n)
  <2>1. {} \in SUBSET (1..n)
    OBVIOUS
  <2> QED BY <1>1, <1>2, <2>1, PaneFields, PaneTypes
<1>4. SetData(pane, rows) = x
  BY <1>1, SetDataIs
<1>5. x.staged = {} /\ Tab(x) = Tab(pane)
  BY PaneParts DEF Tab
<1> HIDE DEF x
<1>6. [w EXCEPT !.panes[active_pane] = SetData(@, @.tabs[i].cached)] = mid
  BY <1>4 DEF pane, rows
<1> HIDE DEF mid
<1>7. v = Refresh(mid, {active_pane}, s, snapshot, grants)
  BY <1>6 DEF Restored, RefreshEditability
<1> HIDE DEF v
<1>8. /\ Whole(mid, n) /\ DOMAIN mid.panes = DOMAIN w.panes /\ mid.panes[active_pane] = x
      /\ \A q \in DOMAIN w.panes \ {active_pane} : mid.panes[q] = w.panes[q]
      /\ mid.slot = w.slot
  BY <1>3, PutPane DEF mid
<1>9. Rejudged(mid, v, {active_pane}, snapshot[s], grants[s], n)
  <2>1. {active_pane} \subseteq DOMAIN mid.panes
    BY <1>8
  <2> QED BY <1>7, <1>8, <2>1, RefreshIs
<1>10. v.panes[active_pane] = Judged(x, snapshot[s], grants[s])
  BY <1>8, <1>9 DEF Rejudged
<1>11. v.panes[active_pane] \in Panes(n) /\ Rated(x, v.panes[active_pane], snapshot[s], grants[s])
  BY <1>3, <1>10, JudgedIsRated
<1>12. Whole(v, n) /\ v.slot = w.slot /\ DOMAIN v.panes = DOMAIN w.panes
       /\ \A q \in DOMAIN w.panes \ {active_pane} : v.panes[q] = w.panes[q]
  BY <1>8, <1>9 DEF Rejudged
<1> QED BY <1>5, <1>11, <1>12 DEF v, pane
LEMMA ShowTabKeeps == ASSUME EditingInv, NEW i, ShowTab(i) PROVE EditingInv'
<1> DEFINE n == Len(typed)
           pane == panes[active_pane]
           x == Turned(pane, i)
           w == [Screen EXCEPT !.panes[active_pane] = x]
           v == [panes |-> panes', slot |-> slot', running |-> running_pane',
                 loading |-> loading_grants', asked |-> asked']
<1>1. /\ i \in DOMAIN pane.tabs /\ i # pane.active_tab /\ session' = pane.tabs[i].session
      /\ UNCHANGED <<active_pane, snapshot, grants, design, pending_structure, pending_object,
                     server, typed, written, twice, unheard, misled>>
  BY DEF ShowTab, pending, outside
<1>2. /\ n \in Nat /\ Whole(Screen, n) /\ Screen.panes = panes /\ Screen.slot = slot
      /\ active_pane \in DOMAIN panes /\ pane \in Panes(n)
  BY ScreenIs
<1>3. \/ /\ Becomes(ClearResults(w, session', snapshot, grants)) /\ UNCHANGED strayed
      \/ /\ Becomes(Restored(w, i, session')) /\ Strays(session', {active_pane})
      \/ /\ Becomes(ReloadRelation(w, session', snapshot, grants))
         /\ strayed' = (strayed \/ pane.rows.session \notin {None, session'})
  BY DEF ShowTab, Turned
<1> HIDE DEF pane
<1>4. /\ x \in Panes(n) /\ Tab(x) = pane.tabs[i] /\ x.tabs[i] = pane.tabs[i]
      /\ x.rows = pane.rows /\ x.staged = pane.staged
      /\ x.editing_relation = pane.editing_relation /\ x.editable = pane.editable
  BY <1>1, <1>2, TurnedIs
<1>5. i \in DOMAIN x.tabs /\ session' \in Sessions
  <2>1. x.tabs \in Seq(Tabs) /\ pane.tabs \in Seq(Tabs) /\ pane.tabs[i] \in Tabs
    BY <1>1, <1>2, <1>4, PaneFields, ElementOfSeq
  <2>2. DOMAIN x.tabs = DOMAIN pane.tabs
    BY <1>1, <2>1 DEF Turned
  <2> QED BY <1>1, <2>1, <2>2 DEF Tabs
<1> HIDE DEF x
<1>6. /\ Whole(w, n) /\ DOMAIN w.panes = DOMAIN panes /\ w.panes[active_pane] = x
      /\ \A p \in DOMAIN panes \ {active_pane} : w.panes[p] = panes[p]
      /\ w.slot = slot
  BY <1>2, <1>4, PutPane
<1> HIDE DEF w, n
<1>7. ~strayed => /\ Own(pane)
                  /\ pane.rows.session \notin unheard => Current(pane, snapshot, grants)
                  /\ pane.rows # NoRows => pane.rows.session = session
  BY <1>2 DEF EditingInv, Owned, Judgements, pane
<1>8. pane.editable => pane.rows # NoRows
  BY <1>2 DEF EditingInv, Typed, pane
<1>9. strayed => strayed'
  BY <1>3 DEF Strays
<1>10. ASSUME NEW to, Reread(w, to, n), Becomes(to),
              \/ Blank(to.panes[active_pane])
              \/ strayed' = (strayed \/ pane.rows.session \notin {None, session'})
       PROVE  EditingInv'
  <2> DEFINE b == to.panes[active_pane]
  <2>1. Whole(Screen', n) /\ panes' = to.panes /\ slot' = to.slot
    BY <1>10, BecomesIs DEF Reread
  <2>2. DOMAIN panes' = DOMAIN panes /\ \A p \in DOMAIN panes \ {active_pane} : panes'[p] = panes[p]
    BY <1>6, <1>10, <2>1 DEF Reread
  <2>3. \A s \in Sessions : Undisturbed(slot[s].task, slot'[s].task)
    BY <1>6, <1>10, <2>1, CalmIsUndisturbed DEF Reread
  <2>4. panes'[active_pane] = b /\ Tab(b) = pane.tabs[i] /\ (Blank(b) \/ Kept(x, b))
    BY <1>4, <1>6, <1>10, <2>1 DEF Reread
  <2> HIDE DEF b
  <2>5. CASE Blank(b)
    <3>1. Steps(pane, b) /\ Own(b) /\ Current(b, snapshot, grants) /\ b.rows = NoRows
      BY <2>5 DEF Blank, Steps, Own, Current
    <3> QED BY <1>1, <1>5, <1>9, <2>1, <2>2, <2>3, <2>4, <3>1, Fronted DEF n, pane
  <2>6. CASE Kept(x, b) /\ ~Blank(b)
    <3>1. /\ b.rows = pane.rows /\ b.editing_relation = pane.editing_relation
          /\ b.editable = pane.editable /\ b.staged \subseteq pane.staged
      BY <1>4, <2>6 DEF Kept
    <3>2. Steps(pane, b)
      BY <1>8, <3>1 DEF Steps
    <3>3. strayed' = (strayed \/ pane.rows.session \notin {None, session'})
      BY <1>10, <2>6 DEF b
    <3>4. ASSUME ~strayed'
          PROVE  /\ Own(b) /\ (b.rows # NoRows => b.rows.session = session')
                 /\ b.rows.session \notin unheard => Current(b, snapshot, grants)
      <4>1. ~strayed /\ pane.rows.session \in {None, session'}
        BY <3>3, <3>4
      <4>2. pane.rows.session \notin unheard => Current(pane, snapshot, grants)
        BY <1>7, <4>1
      <4>3. b.rows.session \notin unheard => Current(b, snapshot, grants)
        BY <3>1, <4>2 DEF Current
      <4>4. CASE pane.rows = NoRows
        BY <3>1, <4>3, <4>4 DEF Own
      <4>5. CASE pane.rows # NoRows
        <5>1. pane.rows \in Found
          BY <1>2, <4>5, PaneFields
        <5>2. pane.rows.session \in Sessions
          BY <5>1 DEF Found
        <5>3. pane.rows.session = session'
          BY <4>1, <5>2, EditingAssumption
        <5>4. pane.rows
                = [session |-> Tab(pane).session, relation |-> pane.editing_relation]
          BY <1>7, <4>1, <4>5 DEF Own
        <5>5. Tab(pane).session = pane.rows.session
          BY ONLY <5>4
        <5>6. Tab(b).session = Tab(pane).session
          BY <1>1, <2>4, <5>3, <5>5
        <5>7. b.rows = [session |-> Tab(b).session, relation |-> b.editing_relation]
          BY ONLY <3>1, <5>4, <5>6
        <5> QED BY <3>1, <4>3, <5>3, <5>7 DEF Own
      <4> QED BY <4>4, <4>5
    <3> QED BY <1>1, <1>5, <1>9, <2>1, <2>2, <2>3, <2>4, <3>2, <3>4, Fronted DEF n, pane
  <2> QED BY <2>4, <2>5, <2>6
<1>11. CASE Becomes(ClearResults(w, session', snapshot, grants)) /\ UNCHANGED strayed
  BY <1>2, <1>5, <1>6, <1>10, <1>11, ClearResultsIs
<1>12. CASE /\ Becomes(Restored(w, i, session')) /\ Strays(session', {active_pane})
  <2> DEFINE to == Restored(w, i, session')
             b == to.panes[active_pane]
  <2>1. /\ Whole(to, n) /\ to.slot = w.slot /\ DOMAIN to.panes = DOMAIN w.panes
        /\ \A p \in DOMAIN w.panes \ {active_pane} : to.panes[p] = w.panes[p]
        /\ b \in Panes(n)
    BY <1>2, <1>5, <1>6, RestoredIs
  <2>2. PICK a : /\ a.staged = {} /\ Tab(a) = Tab(w.panes[active_pane])
                 /\ Rated(a, b, snapshot[session'], grants[session'])
    BY <1>2, <1>5, <1>6, RestoredIs
  <2> HIDE DEF b, to
  <2>3. Whole(Screen', n) /\ panes' = to.panes /\ slot' = to.slot
    BY <1>12, <2>1, BecomesIs DEF to
  <2>4. panes'[active_pane] = b
    BY <2>3 DEF b
  <2>5. Tab(a) = pane.tabs[i] /\ Tab(b).session = session'
    BY <1>1, <1>4, <1>6, <2>2 DEF Rated
  <2>6. Steps(pane, b)
    <3>1. b.staged = {}
      BY <2>2 DEF Rated
    <3>2. b.editable => b.rows # NoRows
      BY <2>2 DEF Rated, Editable, Identity, Resolve
    <3> QED BY <3>1, <3>2 DEF Steps
  <2>7. ASSUME ~strayed'
        PROVE  Own(b) /\ Current(b, snapshot, grants) /\ (b.rows # NoRows => b.rows.session = session')
    <3>1. b.rows \in {NoRows, [session |-> session', relation |-> Relation(b)]}
      BY <1>2, <1>6, <1>12, <2>1, <2>3, <2>4, <2>7 DEF Strays, Elsewhere
    <3>2. a.rows # NoRows => a.rows.session = Tab(a).session
      <4>1. CASE b.rows = NoRows
        BY <2>2, <4>1 DEF Rated
      <4>2. CASE b.rows # NoRows
        <5>1. a.rows = [session |-> session', relation |-> Relation(b)]
          BY <2>2, <3>1, <4>2 DEF Rated
        <5>2. a.rows.session = session'
          BY ONLY <5>1
        <5> QED BY <1>1, <2>5, <5>2
      <4> QED BY <4>1, <4>2
    <3> QED BY <1>2, <1>5, <2>1, <2>2, <3>1, <3>2, RatedIsCurrent
  <2>8. \A s \in Sessions : Undisturbed(slot[s].task, slot'[s].task)
    BY <1>6, <2>1, <2>3 DEF Undisturbed
  <2>9. DOMAIN panes' = DOMAIN panes /\ \A p \in DOMAIN panes \ {active_pane} : panes'[p] = panes[p]
    BY <1>6, <2>1, <2>3
  <2> QED BY <1>1, <1>5, <1>9, <2>3, <2>4, <2>6, <2>7, <2>8, <2>9, Fronted DEF n, pane
<1>13. CASE /\ Becomes(ReloadRelation(w, session', snapshot, grants))
            /\ strayed' = (strayed \/ pane.rows.session \notin {None, session'})
  BY <1>2, <1>5, <1>6, <1>10, <1>13, ReloadRelationIs
<1> QED BY <1>3, <1>11, <1>12, <1>13
\* One more edit than there were.
LEMMA OneMore ==
    ASSUME NEW n \in Nat, NEW w, Whole(w, n) PROVE Whole(w, n + 1)
<1>1. SUBSET (1..n) \subseteq SUBSET (1..(n + 1))
  OBVIOUS
<1>2. Panes(n) \subseteq Panes(n + 1)
  BY <1>1 DEF Panes
<1>3. Commits(n) \subseteq Commits(n + 1)
  BY <1>1 DEF Commits
<1>4. Tasks(n) \subseteq Tasks(n + 1)
  BY <1>3 DEF Tasks
<1>5. Slots(n) \subseteq Slots(n + 1)
  BY <1>4 DEF Slots
<1>6. /\ w.panes \in [DOMAIN w.panes -> Panes(n)] /\ w.slot \in [Sessions -> Slots(n)]
  BY DEF Whole
<1>7. /\ w.panes \in [DOMAIN w.panes -> Panes(n + 1)]
      /\ w.slot \in [Sessions -> Slots(n + 1)]
  BY <1>2, <1>5, <1>6
<1> QED BY <1>7 DEF Whole

LEMMA EditKeeps == ASSUME EditingInv, Edit PROVE EditingInv'
<1> DEFINE n == Len(typed)
           pane == panes[active_pane]
           x == PaneOf(pane.tabs, pane.active_tab, pane.results, pane.rows,
                       pane.editing_relation, pane.identity, pane.editable,
                       pane.staged \cup {n + 1})
           v == [Screen EXCEPT !.panes[active_pane] = x]
<1>1. /\ pane.editable /\ typed' = Append(typed, pane.rows)
      /\ Becomes([Screen EXCEPT !.panes[active_pane].staged = @ \cup {n + 1}])
      /\ UNCHANGED <<active_pane, session, snapshot, grants, design, pending_structure,
                     pending_object, server, written, twice, strayed, unheard, misled>>
  BY DEF Edit, pending, outside
<1>2. /\ n \in Nat /\ Whole(Screen, n) /\ Screen.panes = panes /\ Screen.slot = slot
      /\ active_pane \in DOMAIN panes
      /\ \A p \in DOMAIN panes : panes[p] \in Panes(n)
      /\ \A s \in Sessions : slot[s] \in Slots(n)
  BY ScreenIs
<1>3. pane \in Panes(n) /\ pane \in Panes(n + 1) /\ Whole(Screen, n + 1)
  <2>1. Whole(Screen, n + 1)
    BY <1>2, OneMore
  <2>2. panes \in [DOMAIN panes -> Panes(n + 1)]
    BY <1>2, <2>1 DEF Whole
  <2> QED BY <1>2, <2>1, <2>2
<1>4. typed \in Seq(Found) /\ pane.rows \in Found /\ pane.rows # NoRows
      /\ \A p \in DOMAIN panes : \A e \in panes[p].staged : typed[e] = panes[p].rows
  BY <1>1, <1>2, <1>3, PaneFields DEF EditingInv, Typed
<1>5. typed' \in Seq(Found) /\ Len(typed') = n + 1 /\ typed'[n + 1] = pane.rows
      /\ \A e \in 1..n : typed'[e] = typed[e]
  BY <1>1, <1>4
<1>6. [pane EXCEPT !.staged = @ \cup {n + 1}] = x
  <2>1. pane = PaneOf(pane.tabs, pane.active_tab, pane.results, pane.rows,
                      pane.editing_relation, pane.identity, pane.editable, pane.staged)
    BY <1>3, PaneIs
  <2> HIDE DEF pane, n
  <2> QED BY ONLY <2>1 DEF PaneOf
<1>7. x \in Panes(n + 1)
  <2> DEFINE more == n + 1
             staged == pane.staged \cup {more}
  <2>1. staged \in SUBSET (1..more) /\ more \in Nat
    BY <1>2, <1>3, PaneFields
  <2>2. /\ pane.tabs \in Seq(Tabs) /\ pane.active_tab \in DOMAIN pane.tabs
        /\ pane.results \in 0..2 /\ pane.rows \in Found \cup {NoRows}
        /\ pane.editing_relation \in Relations \cup {None} /\ pane.identity \in BOOLEAN
        /\ pane.editable \in BOOLEAN
    BY <1>2, <1>3, PaneFields
  <2> HIDE DEF pane, n, more, staged
  <2>3. PaneOf(pane.tabs, pane.active_tab, pane.results, pane.rows, pane.editing_relation,
               pane.identity, pane.editable, staged) \in Panes(more)
    BY <2>1, <2>2, PaneTypes
  <2> QED BY <2>3 DEF more, staged
<1>8. /\ x.rows = pane.rows /\ x.editing_relation = pane.editing_relation
      /\ x.editable = pane.editable /\ x.staged = pane.staged \cup {n + 1}
      /\ Tab(x) = Tab(pane)
  <2>1. x.tabs = pane.tabs /\ x.active_tab = pane.active_tab
    BY DEF PaneOf
  <2> QED BY <2>1 DEF PaneOf, Tab
<1> HIDE DEF x
<1>9. Becomes(v)
  <2>1. [Screen EXCEPT !.panes[active_pane].staged = @ \cup {n + 1}] = v
    BY <1>2, <1>6
  <2> QED BY <1>1, <2>1
<1>10. /\ Whole(v, n + 1) /\ DOMAIN v.panes = DOMAIN panes /\ v.panes[active_pane] = x
       /\ \A p \in DOMAIN panes \ {active_pane} : v.panes[p] = panes[p]
       /\ v.slot = slot
  BY <1>2, <1>3, <1>7, PutPane
<1> HIDE DEF v
<1>11. Whole(Screen', n + 1) /\ panes' = v.panes /\ slot' = slot
  BY <1>9, <1>10, BecomesIs
<1>12. DOMAIN panes' = DOMAIN panes /\ panes'[active_pane] = x
       /\ \A p \in DOMAIN panes \ {active_pane} : panes'[p] = panes[p]
  BY <1>10, <1>11
<1>13. ASSUME NEW p \in DOMAIN panes
       PROVE  /\ panes'[p].rows = panes[p].rows /\ panes'[p].editable = panes[p].editable
              /\ panes'[p].editing_relation = panes[p].editing_relation
              /\ Tab(panes'[p]) = Tab(panes[p])
              /\ panes'[p].staged \subseteq panes[p].staged \cup {n + 1}
              /\ n + 1 \in panes'[p].staged => p = active_pane
              /\ panes[p].staged \in SUBSET (1..n) /\ n + 1 \notin panes[p].staged
  <2>1. panes[p].staged \in SUBSET (1..n)
    BY <1>2, PaneFields
  <2>2. n + 1 \notin panes[p].staged
    BY <1>2, <2>1
  <2> QED BY <1>8, <1>12, <2>1, <2>2
<1>14. ASSUME NEW s \in Sessions, slot[s].task.kind = "commit"
       PROVE  slot[s].task.edits \in SUBSET (1..n) /\ n + 1 \notin slot[s].task.edits
  <2>1. slot[s].task \in Tasks(n)
    BY <1>2 DEF Slots
  <2>2. slot[s].task \in Commits(n)
    BY <1>14, <2>1 DEF Tasks, Asking, Reads, Idle
  <2>3. slot[s].task.edits \in SUBSET (1..n)
    BY <2>2 DEF Commits
  <2> QED BY <1>2, <2>3
<1>15. \A e \in written : e.edit \in 1..n /\ e.edit # n + 1
  BY <1>2 DEF EditingInv, Taken
<1> HIDE DEF pane
<1>16. Typed'
  <2>1. ASSUME NEW p \in DOMAIN panes', NEW e \in panes'[p].staged
        PROVE  typed'[e] = panes'[p].rows
    <3>1. CASE e = n + 1
      BY <1>5, <1>12, <1>13, <2>1, <3>1 DEF pane
    <3>2. CASE e # n + 1
      <4>1. e \in panes[p].staged /\ e \in 1..n
        BY <1>12, <1>13, <2>1, <3>2
      <4> QED BY <1>4, <1>5, <1>12, <1>13, <4>1
    <3> QED BY <3>1, <3>2
  <2>2. \A p \in DOMAIN panes' : panes'[p].editable => panes'[p].rows # NoRows
    BY <1>12, <1>13 DEF EditingInv, Typed
  <2> QED BY <1>5, <2>1, <2>2 DEF Typed
<1>17. Owned'
  BY <1>1, <1>2, <1>12, <1>13 DEF EditingInv, Owned, Own
<1>18. Judgements'
  BY <1>1, <1>12, <1>13 DEF EditingInv, Judgements, Current
<1>19. Sent'
  <2>1. ASSUME ~strayed, NEW s \in Sessions, slot[s].task.kind = "commit",
               NEW e \in slot[s].task.edits
        PROVE  typed'[e] = [session |-> s, relation |-> slot[s].task.relation]
    <3>1. typed[e] = [session |-> s, relation |-> slot[s].task.relation]
      BY <2>1 DEF EditingInv, Sent
    <3>2. typed'[e] = typed[e]
      BY <1>5, <1>14, <2>1
    <3> QED BY ONLY <3>1, <3>2
  <2> QED BY <1>1, <1>11, <2>1 DEF Sent
<1>20. Taken'
  <2>1. written \in SUBSET [edit : 1..(n + 1), session : Sessions,
                            relation : Relations \cup {None}]
    <3>1. 1..n \subseteq 1..(n + 1)
      BY <1>2
    <3> QED BY <3>1 DEF EditingInv, Taken, n
  <2>2. ~strayed => \A e \in written :
                      typed'[e.edit] = [session |-> e.session, relation |-> e.relation]
    BY <1>5, <1>15 DEF EditingInv, Taken, EditsGoHomeUnlessStrayed, EditsGoHome
  <2> QED BY <1>1, <1>5, <2>1, <2>2 DEF Taken, EditsGoHomeUnlessStrayed, EditsGoHome
<1>21. Apart'
  <2>1. ASSUME NEW p \in DOMAIN panes', NEW q \in DOMAIN panes', p # q
        PROVE  panes'[p].staged \cap panes'[q].staged = {}
    <3>1. panes[p].staged \cap panes[q].staged = {}
      BY <1>12, <2>1 DEF EditingInv, Apart
    <3> QED BY <1>12, <1>13, <2>1, <3>1
  <2>2. ASSUME NEW s \in Sessions, slot[s].task.kind = "commit",
               NEW p \in DOMAIN panes' \ {slot[s].task.pane}
        PROVE  panes'[p].staged \cap slot[s].task.edits = {}
    <3>1. panes[p].staged \cap slot[s].task.edits = {}
      BY <1>12, <2>2 DEF EditingInv, Apart
    <3> QED BY <1>12, <1>13, <1>14, <2>2, <3>1
  <2> QED BY <1>11, <2>1, <2>2 DEF Apart
<1>22. Unwritten'
  <2>1. SUFFICES ASSUME ~strayed, ~misled
        PROVE  ~twice /\ \A e \in written :
                 /\ \A p \in DOMAIN panes' : e.edit \notin panes'[p].staged
                 /\ \A s \in Sessions : slot[s].task.kind = "commit"
                                        => e.edit \notin slot[s].task.edits
    BY <1>1, <1>11 DEF Unwritten
  <2>2. ~twice /\ \A e \in written :
                 /\ \A p \in DOMAIN panes : e.edit \notin panes[p].staged
                 /\ \A s \in Sessions : slot[s].task.kind = "commit"
                                        => e.edit \notin slot[s].task.edits
    BY <2>1 DEF EditingInv, Unwritten
  <2> QED BY <1>12, <1>13, <1>15, <2>2
<1>23. DesignWaits'
  BY <1>1, <1>11, DesignStays, EditingAssumption DEF Undisturbed
<1>24. Informed'
  BY <1>1, StaysInformed
<1> QED BY <1>1, <1>2, <1>5, <1>11, <1>12, <1>16, <1>17, <1>18, <1>19, <1>20, <1>21, <1>22, <1>23,
           <1>24 DEF EditingInv

LEMMA CommitChangesKeeps == ASSUME EditingInv, CommitChanges PROVE EditingInv'
<1> DEFINE n == Len(typed)
           pane == panes[active_pane]
           task == [kind |-> "commit", pane |-> active_pane, edits |-> pane.staged,
                    relation |-> pane.editing_relation]
<1>1. /\ pane.staged # {} /\ ~Busy(Screen, session) /\ Becomes(Started(Screen, session, task))
      /\ UNCHANGED <<active_pane, session, snapshot, grants, design, pending_structure,
                     pending_object, server, typed, written, twice, strayed, unheard, misled>>
  BY DEF CommitChanges, Unsaved, pending, outside, history
<1>2. /\ n \in Nat /\ active_pane \in DOMAIN panes /\ active_pane \in Nat
      /\ session \in Sessions /\ pane \in Panes(n)
  BY ScreenIs
<1>3. /\ task.kind = "commit" /\ task.pane = active_pane /\ task.edits = pane.staged
      /\ task.relation = pane.editing_relation
  OBVIOUS
<1>4. task \in Tasks(n)
  <2>1. pane.staged \in SUBSET (1..n) /\ pane.editing_relation \in Relations \cup {None}
    BY <1>2, PaneFields
  <2> HIDE DEF n, pane
  <2> QED BY <1>2, <2>1 DEF Tasks, Commits
<1> HIDE DEF task
<1>5. /\ Whole(Screen', n) /\ panes' = panes /\ slot[session].task = Idle
      /\ slot'[session].task = task
      /\ \A s \in Sessions \ {session} : slot'[s] = slot[s]
  BY <1>1, <1>4, StartsIs
<1> HIDE DEF n
<1>6. Typed' /\ Taken'
  BY <1>1, <1>5 DEF EditingInv, Typed, Taken, EditsGoHomeUnlessStrayed, EditsGoHome
<1>7. Owned' /\ Judgements'
  BY <1>1, <1>5 DEF EditingInv, Owned, Judgements
<1>8. ASSUME ~strayed, NEW e \in pane.staged
      PROVE  typed[e] = [session |-> session, relation |-> pane.editing_relation]
  <2>1. typed[e] = pane.rows /\ typed \in Seq(Found)
    BY <1>2, <1>8 DEF EditingInv, Typed
  <2>2. e \in 1..Len(typed)
    BY <1>2, <1>8, PaneFields DEF n
  <2>3. pane.rows # NoRows
    BY <2>1, <2>2, NoRowsIsNoFound, ElementOfSeq
  <2>4. pane.rows = [session |-> Tab(pane).session, relation |-> pane.editing_relation]
        /\ pane.rows.session = session
    BY <1>2, <1>8, <2>3 DEF EditingInv, Owned, Own
  <2>5. Tab(pane).session = session
    BY ONLY <2>4
  <2> QED BY ONLY <2>1, <2>4, <2>5
<1>9. Sent'
  <2>1. ASSUME ~strayed, NEW s \in Sessions, slot'[s].task.kind = "commit",
               NEW e \in slot'[s].task.edits
        PROVE  typed[e] = [session |-> s, relation |-> slot'[s].task.relation]
    <3>1. CASE s = session
      <4>1. slot'[s].task.edits = pane.staged /\ slot'[s].task.relation = pane.editing_relation
        BY <1>3, <1>5, <3>1
      <4>2. typed[e] = [session |-> session, relation |-> pane.editing_relation]
        BY <1>8, <2>1, <4>1
      <4> QED BY ONLY <3>1, <4>1, <4>2
    <3>2. CASE s # session
      BY <1>5, <2>1, <3>2 DEF EditingInv, Sent
    <3> QED BY <3>1, <3>2
  <2> QED BY <1>1, <2>1 DEF Sent
<1>10. Apart'
  <2>1. ASSUME NEW s \in Sessions, slot'[s].task.kind = "commit",
               NEW p \in DOMAIN panes \ {slot'[s].task.pane}
        PROVE  panes[p].staged \cap slot'[s].task.edits = {}
    <3>1. CASE s = session
      <4>1. slot'[s].task.edits = pane.staged /\ p # active_pane
        BY <1>3, <1>5, <2>1, <3>1
      <4> QED BY <1>2, <4>1 DEF EditingInv, Apart, pane
    <3>2. CASE s # session
      BY <1>5, <2>1, <3>2 DEF EditingInv, Apart
    <3> QED BY <3>1, <3>2
  <2> QED BY <1>5, <2>1 DEF EditingInv, Apart
<1>11. Unwritten'
  <2>1. SUFFICES ASSUME ~strayed, ~misled
        PROVE  ~twice /\ \A e \in written :
                 /\ \A p \in DOMAIN panes : e.edit \notin panes[p].staged
                 /\ \A s \in Sessions : slot'[s].task.kind = "commit"
                                        => e.edit \notin slot'[s].task.edits
    BY <1>1, <1>5 DEF Unwritten
  <2>2. ~twice /\ \A e \in written :
                 /\ \A p \in DOMAIN panes : e.edit \notin panes[p].staged
                 /\ \A s \in Sessions : slot[s].task.kind = "commit"
                                        => e.edit \notin slot[s].task.edits
    BY <2>1 DEF EditingInv, Unwritten
  <2>3. \A e \in written : e.edit \notin task.edits
    BY <1>2, <1>3, <2>2
  <2> QED BY <1>5, <2>2, <2>3
<1>12. DesignWaits'
  <2>1. slot[Designing].task.kind # "ddl" \/ Designing # session
    BY <1>5 DEF Idle
  <2>2. slot'[Designing].task.kind = "ddl" <=> slot[Designing].task.kind = "ddl"
    BY <1>3, <1>5, EditingAssumption DEF Idle
  <2>3. slot[Designing].task.kind = "ddl" => slot'[Designing].task = slot[Designing].task
    BY <1>5, <2>1, EditingAssumption
  <2> QED BY <1>1, <2>2, <2>3 DEF EditingInv, DesignWaits
<1>13. Informed'
  BY <1>1, StaysInformed
<1> QED BY <1>1, <1>2, <1>5, <1>6, <1>7, <1>9, <1>10, <1>11, <1>12, <1>13 DEF EditingInv, n
-----------------------------------------------------------------------------
\* What lands.
LEMMA OwnSource == ASSUME EditingInv, NEW p \in DOMAIN panes PROVE Source(panes[p], panes[p])
<1>1. SUFFICES ASSUME ~strayed, panes[p].rows # NoRows
               PROVE  panes[p].rows.session = Tab(panes[p]).session
  BY DEF Source
<1>2. panes[p].rows = [session |-> Tab(panes[p]).session, relation |-> panes[p].editing_relation]
  BY <1>1 DEF EditingInv, Owned, Own
<1> QED BY ONLY <1>2

\* Every pane is judged over rows of its own, or new ones.
LEMMA SettledFate ==
    ASSUME NEW n, NEW w, NEW v, DOMAIN w.panes = DOMAIN panes,
           \A p \in DOMAIN panes : Source(panes[p], w.panes[p]),
           AtRest(w, v, snapshot'[session], grants'[session], n), panes' = v.panes,
           Strays(session, DOMAIN panes)
    PROVE  DOMAIN panes' = DOMAIN panes /\ \A p \in DOMAIN panes : Fate(p)
<1>1. DOMAIN panes' = DOMAIN panes
  BY DEF AtRest
<1>2. ASSUME NEW p \in DOMAIN panes PROVE Fate(p)
  <2>1. Rated(w.panes[p], panes'[p], snapshot'[session], grants'[session])
    BY DEF AtRest
  <2>2. ~strayed' => panes'[p].rows \in
                       {NoRows, [session |-> session, relation |-> Relation(panes'[p])]}
    BY <1>1 DEF Strays, Elsewhere
  <2>3. \E a : Source(panes[p], a) /\ Rated(a, panes'[p], snapshot'[session], grants'[session])
    BY <2>1
  <2> QED BY <2>2, <2>3 DEF Fate
<1> QED BY <1>1, <1>2

Draws(w, p, rows) == [w EXCEPT !.panes[p] = Drawn(@, rows)]

LEMMA DrawsIs ==
    ASSUME NEW n \in Nat, NEW w, Whole(w, n), NEW p \in DOMAIN w.panes, NEW rows \in Found
    PROVE  /\ Whole(Draws(w, p, rows), n) /\ DOMAIN Draws(w, p, rows).panes = DOMAIN w.panes
           /\ Draws(w, p, rows).panes[p].rows = rows /\ Draws(w, p, rows).panes[p].staged = {}
           /\ Tab(Draws(w, p, rows).panes[p]) = Tab(w.panes[p])
           /\ \A q \in DOMAIN w.panes \ {p} : Draws(w, p, rows).panes[q] = w.panes[q]
           /\ Draws(w, p, rows).slot = w.slot
<1> DEFINE pane == w.panes[p]
           more == IF pane.results < 2 THEN pane.results + 1 ELSE pane.results
           x == PaneOf(pane.tabs, pane.active_tab, more, rows, pane.editing_relation,
                       pane.identity, pane.editable, {})
           v == Draws(w, p, rows)
<1>1. pane \in Panes(n)
  BY DEF Whole
<1> HIDE DEF pane
<1>2. more \in 0..2
  <2>1. pane.results \in 0..2
    BY <1>1, PaneFields
  <2> QED BY <2>1
<1>3. Drawn(pane, rows) = x
  <2>1. SetData(pane, rows) = PaneOf(pane.tabs, pane.active_tab, pane.results, rows,
                                     pane.editing_relation, pane.identity, pane.editable, {})
    BY <1>1, SetDataIs
  <2>2. ASSUME NEW z, z = PaneOf(pane.tabs, pane.active_tab, pane.results, rows,
                                 pane.editing_relation, pane.identity, pane.editable, {})
        PROVE  [z EXCEPT !.results = IF @ < 2 THEN @ + 1 ELSE @] = x
    <3>1. z.results = pane.results
      BY ONLY <2>2 DEF PaneOf
    <3>2. (IF z.results < 2 THEN z.results + 1 ELSE z.results) = more
      BY <3>1
    <3> HIDE DEF more
    <3>3. [z EXCEPT !.results = more] = x
      BY ONLY <2>2 DEF PaneOf
    <3> HIDE DEF x
    <3> QED BY ONLY <3>2, <3>3
  <2> HIDE DEF x
  <2> QED BY ONLY <2>1, <2>2 DEF Drawn
<1> HIDE DEF more
<1>4. x \in Panes(n)
  <2>1. {} \in SUBSET (1..n)
    OBVIOUS
  <2> QED BY <1>1, <1>2, <2>1, PaneFields, PaneTypes
<1>5. x.rows = rows /\ x.staged = {} /\ Tab(x) = Tab(pane)
  BY PaneParts DEF Tab
<1> HIDE DEF x
<1>6. v = [w EXCEPT !.panes[p] = x]
  BY <1>3 DEF Draws, pane
<1> HIDE DEF v
<1>7. /\ Whole(v, n) /\ DOMAIN v.panes = DOMAIN w.panes /\ v.panes[p] = x
      /\ \A q \in DOMAIN w.panes \ {p} : v.panes[q] = w.panes[q]
      /\ v.slot = w.slot
  BY <1>4, <1>6, PutPane
<1> QED BY ONLY <1>5, <1>7 DEF v, pane

\* A task comes back that is no save, and what the slot is at then.
LEMMA Lands ==
    ASSUME EditingInv, NEW s \in Sessions,
           slot[s].task.kind \notin {"ddl", "commit"}, NEW v,
           \A t \in Sessions \ {s} : v.slot[t].task = slot[t].task,
           v.slot[s].task \in Reads \cup {Idle},
           NEW u, \A t \in Sessions : Calm(v.slot[t], u.slot[t])
    PROVE  \A t \in Sessions : Undisturbed(slot[t].task, u.slot[t].task)
<1>1. \A t \in Sessions : Undisturbed(slot[t].task, v.slot[t].task)
  BY DEF Undisturbed, Reads, Idle
<1> QED BY <1>1, UndisturbedThenCalm

LEMMA CalmItself ==
    ASSUME NEW n, NEW w, Whole(w, n) PROVE \A t \in Sessions : Calm(w.slot[t], w.slot[t])
BY SameIsCalm
Loosed(s) == Resting(Freed(Screen, s))

LEMMA LoosedIs ==
    ASSUME EditingInv, NEW s \in Sessions
    PROVE  /\ Whole(Loosed(s), Len(typed)) /\ Loosed(s).panes = panes
           /\ \A t \in Sessions \ {s} : Loosed(s).slot[t].task = slot[t].task
           /\ Loosed(s).slot[s].task \in Reads \cup {Idle}
           /\ Target \in DOMAIN panes
<1>1. /\ Whole(Freed(Screen, s), Len(typed)) /\ Freed(Screen, s).panes = panes
      /\ \A t \in Sessions \ {s} : Freed(Screen, s).slot[t] = slot[t]
      /\ Freed(Screen, s).slot[s].task = Idle
  <2>1. Whole(Screen, Len(typed)) /\ Screen.panes = panes /\ Screen.slot = slot
    BY ScreenIs
  <2> QED BY <2>1, FreedIs
<1>2. /\ Whole(Loosed(s), Len(typed)) /\ Loosed(s).panes = Freed(Screen, s).panes
      /\ Loosed(s).slot = Freed(Screen, s).slot
  BY <1>1, RestingIs DEF Loosed
<1>3. Target \in DOMAIN panes
  <2>1. running_pane \in DOMAIN panes \cup {0}
    BY ScreenIs DEF Whole, Screen
  <2> QED BY <2>1, ScreenIs DEF Target
<1> QED BY <1>1, <1>2, <1>3

\* What comes back with nothing for the panes, or lets what was held go.
LEMMA LandsUnseen ==
    ASSUME EditingInv, NEW s \in Sessions, slot[s].task.kind \notin {"ddl", "commit"},
           Becomes(HeldGoes(Screen, s)) \/ Becomes(Loosed(s)),
           UNCHANGED <<active_pane, session, snapshot, grants, design, pending_structure, typed,
                       written, twice, unheard, misled>>,
           strayed => strayed', Informed', server'[Designing].design = server[Designing].design
    PROVE  EditingInv'
<1>1. PICK w : /\ Becomes(w) /\ Whole(w, Len(typed)) /\ w.panes = panes
               /\ \A t \in Sessions \ {s} : w.slot[t].task = slot[t].task
               /\ w.slot[s].task \in Reads \cup {Idle}
  <2>1. /\ Whole(HeldGoes(Screen, s), Len(typed)) /\ HeldGoes(Screen, s).panes = panes
        /\ \A t \in Sessions \ {s} : HeldGoes(Screen, s).slot[t] = slot[t]
        /\ HeldGoes(Screen, s).slot[s].task = slot[s].held
    BY ScreenIs, HeldGoesIs
  <2>2. slot[s].held \in Reads \cup {Idle}
    BY ScreenIs, SlotIs
  <2> QED BY <2>1, <2>2, LoosedIs
<1>2. Whole(Screen', Len(typed)) /\ panes' = panes /\ slot' = w.slot
  BY <1>1, BecomesIs
<1>3. \A p \in DOMAIN panes : Fate(p)
  BY <1>2, SameFate
<1>4. \A t \in Sessions : Undisturbed(slot[t].task, slot'[t].task)
  BY <1>1, <1>2, Lands, CalmItself
<1>5. DesignWaits'
  BY <1>4, DesignStays, EditingAssumption
<1> QED BY <1>2, <1>3, <1>4, <1>5, Quietly

\* What a statement about an object leaves behind, and the rows that came first.
LEMMA LandsFinished ==
    ASSUME EditingInv, NEW s \in Sessions, slot[s].task.kind \notin {"ddl", "commit"}, NEW w,
           Whole(w, Len(typed)), DOMAIN w.panes = DOMAIN panes,
           \A p \in DOMAIN panes : Source(panes[p], w.panes[p]),
           \A t \in Sessions \ {s} : w.slot[t].task = slot[t].task,
           w.slot[s].task \in Reads \cup {Idle},
           Becomes(FinishObject(w, FALSE)), pending_object # None, Strays(session, DOMAIN panes),
           UNCHANGED <<active_pane, session, snapshot, grants, design, pending_structure, typed,
                       written, twice, unheard, misled>>,
           Informed', server'[Designing].design = server[Designing].design
    PROVE  EditingInv'
<1> DEFINE v == FinishObject(w, FALSE)
<1>1. AtRest(w, v, snapshot[session], grants[session], Len(typed))
  BY ScreenIs, FinishObjectIs
<1> HIDE DEF v
<1>2. Whole(Screen', Len(typed)) /\ panes' = v.panes /\ slot' = v.slot
  BY <1>1, BecomesIs DEF v, AtRest
<1>3. AtRest(w, v, snapshot'[session], grants'[session], Len(typed))
  BY <1>1
<1>4. DOMAIN panes' = DOMAIN panes /\ \A p \in DOMAIN panes : Fate(p)
  BY <1>2, <1>3, SettledFate
<1>5. \A t \in Sessions : Undisturbed(slot[t].task, slot'[t].task)
  BY <1>1, <1>2, Lands DEF AtRest
<1>6. DesignWaits'
  BY <1>5, DesignStays, EditingAssumption
<1>7. strayed => strayed'
  BY DEF Strays
<1> QED BY <1>2, <1>4, <1>5, <1>6, <1>7, Quietly

LEMMA LandRowsKeeps ==
    ASSUME EditingInv, NEW s \in Sessions, NEW failed \in BOOLEAN, LandRows(s, failed) PROVE EditingInv'
<1> DEFINE n == Len(typed)
           rows == [session |-> s, relation |-> slot[s].task.relation]
           drawn == Draws(Loosed(s), Target, rows)
           shown == RefreshEditability(drawn, Target, session, snapshot, grants)
<1>1. /\ slot[s].task.kind = "rows"
      /\ UNCHANGED <<active_pane, session, snapshot, grants, design, pending_structure, server,
                     typed, written, twice, unheard, misled>>
      /\ \/ Becomes(HeldGoes(Screen, s)) /\ UNCHANGED <<pending_object, strayed>>
         \/ Becomes(Loosed(s)) /\ UNCHANGED <<pending_object, strayed>>
         \/ /\ ~NowhereToLand(s) /\ pending_object' = None
            /\ Becomes(FinishObject(IF failed THEN Loosed(s) ELSE shown, failed))
            /\ Strays(session, {Target} \cup Refreshed(failed))
  BY DEF LandRows, Loosed, Resting, Draws, outside
<1>2. Informed' /\ (strayed => strayed')
  <2>1. pending_object' \in {pending_object, None}
    BY <1>1
  <2>2. Informed'
    BY <1>1, <2>1 DEF EditingInv, Informed
  <2>3. strayed => strayed'
    BY <1>1 DEF Strays
  <2> QED BY <2>2, <2>3
<1>3. n \in Nat /\ session \in Sessions /\ (\A p \in DOMAIN panes : panes[p] \in Panes(n))
  BY ScreenIs
<1>4. /\ Whole(Loosed(s), n) /\ Loosed(s).panes = panes
      /\ \A t \in Sessions \ {s} : Loosed(s).slot[t].task = slot[t].task
      /\ Loosed(s).slot[s].task \in Reads \cup {Idle}
      /\ Target \in DOMAIN panes
  BY LoosedIs
<1>5. CASE \/ Becomes(HeldGoes(Screen, s)) \/ Becomes(Loosed(s))
  BY <1>1, <1>2, <1>5, LandsUnseen
<1>6. CASE /\ ~NowhereToLand(s) /\ ~failed
           /\ Becomes(FinishObject(shown, FALSE))
           /\ Strays(session, {Target} \cup Refreshed(FALSE))
  <2>1. rows \in Found /\ rows.session = s
    <3>1. slot[s].task \in Tasks(n)
      BY ScreenIs, SlotIs
    <3>2. slot[s].task \in Reads
      BY <1>1, <3>1 DEF Tasks, Asking, Commits, Idle
    <3> QED BY <3>2 DEF Reads, Found
  <2> HIDE DEF rows, n
  <2>2. /\ Whole(drawn, n) /\ DOMAIN drawn.panes = DOMAIN panes
        /\ drawn.panes[Target].rows = rows /\ drawn.panes[Target].staged = {}
        /\ Tab(drawn.panes[Target]) = Tab(panes[Target])
        /\ \A q \in DOMAIN panes \ {Target} : drawn.panes[q] = panes[q]
        /\ drawn.slot = Loosed(s).slot
    BY <1>3, <1>4, <2>1, DrawsIs
  <2> HIDE DEF drawn
  <2>3. Rejudged(drawn, shown, {Target}, snapshot[session], grants[session], n)
    <3>1. {Target} \subseteq DOMAIN drawn.panes
      BY <1>4, <2>2
    <3> QED BY <1>3, <2>2, <3>1, RefreshIs DEF RefreshEditability
  <2> HIDE DEF shown
  <2>4. Rated(drawn.panes[Target], shown.panes[Target], snapshot[session], grants[session])
    <3>1. drawn.panes[Target] \in Panes(n)
      BY <1>4, <2>2 DEF Whole
    <3>2. shown.panes[Target] = Judged(drawn.panes[Target], snapshot[session], grants[session])
      BY <2>3 DEF Rejudged
    <3> QED BY <1>3, <3>1, <3>2, JudgedIsRated
  <2>5. Source(panes[Target], drawn.panes[Target])
    <3>1. Tab(panes[Target]).session = s
      BY <1>6 DEF NowhereToLand
    <3> QED BY <2>1, <2>2, <3>1 DEF Source
  <2>6. Source(panes[Target], shown.panes[Target])
    <3>1. /\ shown.panes[Target].staged = {} /\ shown.panes[Target].rows = rows
          /\ Tab(shown.panes[Target]).session = Tab(panes[Target]).session
      BY <2>2, <2>4 DEF Rated
    <3>2. Tab(panes[Target]).session = s
      BY <1>6 DEF NowhereToLand
    <3> QED BY <2>1, <3>1, <3>2 DEF Source
  <2>7. /\ Whole(shown, n) /\ DOMAIN shown.panes = DOMAIN panes
        /\ \A q \in DOMAIN panes \ {Target} : shown.panes[q] = panes[q]
        /\ shown.slot = Loosed(s).slot
    BY <2>2, <2>3 DEF Rejudged
  <2>8. CASE pending_object = None
    <3>1. Becomes(shown)
      BY <1>6, <2>8 DEF FinishObject
    <3>2. Whole(Screen', n) /\ panes' = shown.panes /\ slot' = shown.slot
      BY <2>7, <3>1, BecomesIs
    <3>3. ~strayed' => panes'[Target].rows \in
                         {NoRows, [session |-> session, relation |-> Relation(panes'[Target])]}
      BY <1>4, <1>6, <2>7, <3>2 DEF Strays, Elsewhere
    <3>4. Rated(drawn.panes[Target], panes'[Target], snapshot'[session], grants'[session])
      BY <1>1, <2>4, <3>2
    <3>5. Fate(Target)
      BY <2>5, <3>3, <3>4 DEF Fate
    <3>6. \A p \in DOMAIN panes : Fate(p)
      BY <1>1, <2>7, <3>2, <3>5, SameFate
    <3>7. \A t \in Sessions : Undisturbed(slot[t].task, slot'[t].task)
      BY <1>1, <1>4, <2>7, <3>2, Lands, CalmItself
    <3>8. DesignWaits'
      BY <1>1, <3>7, DesignStays, EditingAssumption
    <3> QED BY <1>1, <1>2, <2>7, <3>2, <3>6, <3>7, <3>8, Quietly DEF n
  <2>9. CASE pending_object # None
    <3>1. \A p \in DOMAIN panes : Source(panes[p], shown.panes[p])
      BY <2>6, <2>7, OwnSource
    <3>2. {Target} \cup Refreshed(FALSE) = DOMAIN panes
      BY <1>4, <2>9 DEF Refreshed
    <3>3. Strays(session, DOMAIN panes)
      BY <1>6, <3>2
    <3>4. slot[s].task.kind \notin {"ddl", "commit"}
      BY <1>1
    <3>5. /\ \A t \in Sessions \ {s} : shown.slot[t].task = slot[t].task
          /\ shown.slot[s].task \in Reads \cup {Idle}
      BY <1>4, <2>7
    <3> QED BY <1>1, <1>2, <1>6, <2>7, <2>9, <3>1, <3>3, <3>4, <3>5, LandsFinished DEF n
  <2> QED BY <2>8, <2>9
<1>7. CASE failed /\ Becomes(FinishObject(Loosed(s), failed))
  <2>1. Becomes(Loosed(s))
    BY <1>7 DEF FinishObject
  <2> QED BY <1>1, <1>2, <2>1, LandsUnseen
<1> QED BY <1>1, <1>5, <1>6, <1>7

LEMMA LandDropKeeps ==
    ASSUME EditingInv, NEW s \in Sessions, NEW failed \in BOOLEAN, LandDrop(s, failed) PROVE EditingInv'
<1>1. /\ slot[s].task.kind = "drop"
      /\ server' = IF failed THEN server
                   ELSE [server EXCEPT ![s].tables[slot[s].task.relation] = "absent"]
      /\ UNCHANGED <<active_pane, session, snapshot, grants, design, pending_structure,
                     typed, written, twice, unheard, misled>>
      /\ \/ Becomes(HeldGoes(Screen, s)) /\ UNCHANGED <<pending_object, strayed>>
         \/ Becomes(Loosed(s)) /\ UNCHANGED <<pending_object, strayed>>
         \/ /\ pending_object' = None /\ Becomes(FinishObject(Loosed(s), failed))
            /\ Strays(session, Refreshed(failed))
  BY DEF LandDrop, Loosed, Resting
<1> DEFINE Servers == [tables : [Relations -> Shapes], rights : [Relations -> Rights], design : Nat]
<1>2. server' \in [Sessions -> Servers] /\ server'[Designing].design = server[Designing].design
  <2>1. server \in [Sessions -> Servers] /\ \A t \in Sessions : server[t] \in Servers
    BY DEF EditingInv, Informed
  <2>2. CASE failed
    BY <1>1, <2>1, <2>2
  <2>3. CASE ~failed
    <3> DEFINE r == slot[s].task.relation
    <3> HIDE DEF r
    <3>1. server' = [server EXCEPT ![s].tables[r] = "absent"]
      BY <1>1, <2>3 DEF r
    <3>2. [server[s] EXCEPT !.tables[r] = "absent"] \in Servers
          /\ [server[s] EXCEPT !.tables[r] = "absent"].design = server[s].design
      BY <2>1 DEF Shapes
    <3> HIDE DEF Servers
    <3>3. server' = [server EXCEPT ![s] = [server[s] EXCEPT !.tables[r] = "absent"]]
      BY <3>1
    <3> QED BY <2>1, <3>2, <3>3, EditingAssumption
  <2> QED BY <2>2, <2>3
<1>3. Informed' /\ (strayed => strayed')
  <2>1. pending_object' \in {pending_object, None}
    BY <1>1
  <2>2. Informed'
    BY <1>1, <1>2, <2>1 DEF EditingInv, Informed
  <2>3. strayed => strayed'
    BY <1>1 DEF Strays
  <2> QED BY <2>2, <2>3
<1> HIDE DEF Servers
<1>4. CASE \/ Becomes(HeldGoes(Screen, s)) \/ Becomes(Loosed(s))
  BY <1>1, <1>2, <1>3, <1>4, LandsUnseen
<1>5. CASE /\ Becomes(FinishObject(Loosed(s), failed)) /\ Strays(session, Refreshed(failed))
  <2>1. CASE failed \/ pending_object = None
    <3>1. Becomes(Loosed(s))
      BY <1>5, <2>1 DEF FinishObject
    <3> QED BY <1>4, <3>1
  <2>2. CASE ~failed /\ pending_object # None
    <3>1. /\ Whole(Loosed(s), Len(typed)) /\ Loosed(s).panes = panes
          /\ \A t \in Sessions \ {s} : Loosed(s).slot[t].task = slot[t].task
          /\ Loosed(s).slot[s].task \in Reads \cup {Idle}
      BY LoosedIs
    <3>2. Becomes(FinishObject(Loosed(s), FALSE)) /\ Strays(session, DOMAIN panes)
      BY <1>5, <2>2 DEF Refreshed
    <3>3. \A p \in DOMAIN panes : Source(panes[p], Loosed(s).panes[p])
      BY <3>1, OwnSource
    <3>4. slot[s].task.kind \notin {"ddl", "commit"}
      BY <1>1
    <3> QED BY <1>1, <1>2, <1>3, <2>2, <3>1, <3>2, <3>3, <3>4, LandsFinished
  <2> QED BY <2>1, <2>2
<1> QED BY <1>1, <1>4, <1>5
LEMMA LandCatalogKeeps ==
    ASSUME EditingInv, NEW s \in Sessions, NEW failed \in BOOLEAN, LandCatalog(s, failed) PROVE EditingInv'
<1> DEFINE n == Len(typed)
           free == Freed(Screen, s)
           catalogs == [snapshot EXCEPT ![s] = server[s].tables]
           told == RefreshAll(free, session, catalogs, grants)
<1>1. /\ slot[s].task.kind = "catalog" /\ snapshot' = (IF failed THEN snapshot ELSE catalogs)
      /\ IF failed THEN UNCHANGED unheard ELSE Hears(s)
      /\ UNCHANGED <<active_pane, session, grants, pending_object, server, typed, written, twice,
                     misled>>
      /\ \/ /\ failed \/ s # session
            /\ Becomes(free) /\ UNCHANGED <<design, pending_structure, strayed>>
         \/ /\ ~failed /\ s = session
            /\ Becomes(told) \/ (/\ told.panes[active_pane].results = 0
                                 /\ Becomes(ReloadRelation(told, session, catalogs, grants)))
            /\ design' = Adopted(s) /\ pending_structure' = FALSE
            /\ Strays(session, DOMAIN panes)
  BY DEF LandCatalog, outside
<1>2. n \in Nat /\ session \in Sessions /\ active_pane \in DOMAIN panes
  BY ScreenIs
<1>3. /\ Whole(free, n) /\ free.panes = panes
      /\ \A t \in Sessions \ {s} : free.slot[t] = slot[t]
      /\ free.slot[s].task = Idle
  <2>1. Whole(Screen, Len(typed)) /\ Screen.panes = panes /\ Screen.slot = slot
    BY ScreenIs
  <2> QED BY <2>1, FreedIs
<1>4. catalogs \in [Sessions -> [Relations -> Shapes]]
      /\ \A t \in Sessions \ {s} : catalogs[t] = snapshot[t]
  <2>1. server[s].tables \in [Relations -> Shapes] /\ snapshot \in [Sessions -> [Relations -> Shapes]]
    BY DEF EditingInv, Informed
  <2> QED BY <2>1
<1> HIDE DEF n, free, catalogs
<1>5. Informed'
  <2>1. snapshot' \in [Sessions -> [Relations -> Shapes]]
    BY <1>1, <1>4 DEF EditingInv, Informed
  <2>2. design' \in [draft : Nat, original : Nat]
    <3>1. server[s].design \in Nat
      BY DEF EditingInv, Informed
    <3> QED BY <1>1, <3>1 DEF EditingInv, Informed, Adopted
  <2>3. pending_structure' \in BOOLEAN
    BY <1>1 DEF EditingInv, Informed
  <2> QED BY <1>1, <2>1, <2>2, <2>3 DEF EditingInv, Informed
<1>6. strayed => strayed'
  BY <1>1 DEF Strays
<1>7. ASSUME NEW w, \A t \in Sessions : Calm(free.slot[t], w.slot[t]), slot' = w.slot
      PROVE  \A t \in Sessions : Undisturbed(slot[t].task, slot'[t].task)
  <2>1. \A t \in Sessions \ {s} : free.slot[t].task = slot[t].task
    BY <1>3
  <2>2. free.slot[s].task \in Reads \cup {Idle}
    BY <1>3
  <2>3. slot[s].task.kind \notin {"ddl", "commit"}
    BY <1>1
  <2> QED BY <1>7, <2>1, <2>2, <2>3, Lands
<1>8. CASE /\ failed \/ s # session
           /\ Becomes(free) /\ UNCHANGED <<design, pending_structure, strayed>>
  <2>1. Whole(Screen', n) /\ panes' = panes /\ slot' = free.slot
    BY <1>3, <1>8, BecomesIs
  <2>2. ASSUME NEW t \in Sessions PROVE Unmoved(t)
    <3>1. CASE failed
      BY <1>1, <3>1 DEF Unmoved
    <3>2. CASE ~failed
      <4>1. unheard' = unheard \cup {s} /\ snapshot' = catalogs
        BY <1>1, <1>8, <3>2 DEF Hears
      <4> QED BY <1>1, <1>4, <4>1 DEF Unmoved
    <3> QED BY <3>1, <3>2
  <2>3. ASSUME NEW p \in DOMAIN panes PROVE Fate(p)
    <3>1. Kept(panes[p], panes'[p])
      BY <2>1 DEF Kept
    <3>2. panes[p].rows # NoRows => panes[p].rows.session \in Sessions
      <4>1. panes[p].rows \in Found \cup {NoRows}
        BY <1>2, ScreenIs, PaneFields
      <4> QED BY <4>1 DEF Found
    <3> QED BY <2>2, <3>1, <3>2 DEF Fate
  <2>4. \A t \in Sessions : Undisturbed(slot[t].task, slot'[t].task)
    BY <1>3, <1>7, <2>1, CalmItself
  <2>5. DesignWaits'
    BY <1>1, <1>8, <2>4, DesignStays, EditingAssumption
  <2> QED BY <1>1, <1>5, <1>6, <2>1, <2>3, <2>4, <2>5, Quietly DEF n
<1>9. CASE /\ ~failed /\ s = session
           /\ Becomes(told) \/ (/\ told.panes[active_pane].results = 0
                                /\ Becomes(ReloadRelation(told, session, catalogs, grants)))
           /\ pending_structure' = FALSE /\ Strays(session, DOMAIN panes)
  <2> DEFINE next == ReloadRelation(told, session, catalogs, grants)
  <2>1. AtRest(free, told, catalogs[session], grants[session], n) /\ told.slot = free.slot
    BY <1>2, <1>3, RefreshAllIs
  <2> HIDE DEF told
  <2>2. Whole(told, n) /\ DOMAIN told.panes = DOMAIN panes
        /\ \A p \in DOMAIN panes : Rated(panes[p], told.panes[p], catalogs[session], grants[session])
    BY <1>3, <2>1 DEF AtRest
  <2>3. Reread(told, next, n)
    BY <1>2, <2>2, ReloadRelationIs
  <2> HIDE DEF next
  <2>4. PICK v : /\ Becomes(v) /\ Whole(v, n) /\ DOMAIN v.panes = DOMAIN panes
                 /\ \A p \in DOMAIN panes : v.panes[p] = told.panes[p] \/ Blank(v.panes[p])
                 /\ \A t \in Sessions : Calm(told.slot[t], v.slot[t])
    <3>1. CASE Becomes(told)
      BY <2>2, <3>1, CalmItself
    <3>2. CASE told.panes[active_pane].results = 0 /\ Becomes(next)
      BY <2>2, <2>3, <3>2 DEF Reread
    <3> QED BY <1>9, <3>1, <3>2 DEF next
  <2>5. Whole(Screen', n) /\ panes' = v.panes /\ slot' = v.slot
    BY <2>4, BecomesIs
  <2>6. ASSUME NEW p \in DOMAIN panes PROVE Fate(p)
    <3>1. CASE Blank(v.panes[p])
      BY <2>5, <3>1 DEF Fate
    <3>2. CASE v.panes[p] = told.panes[p]
      <4>1. Rated(panes[p], panes'[p], snapshot'[session], grants'[session])
        BY <1>1, <1>9, <2>2, <2>5, <3>2
      <4>2. ~strayed' => panes'[p].rows \in
                           {NoRows, [session |-> session, relation |-> Relation(panes'[p])]}
        BY <1>9, <2>4, <2>5 DEF Strays, Elsewhere
      <4> QED BY <4>1, <4>2, OwnSource DEF Fate
    <3> QED BY <2>4, <3>1, <3>2
  <2>7. \A t \in Sessions : Undisturbed(slot[t].task, slot'[t].task)
    BY <1>7, <2>1, <2>4, <2>5
  <2>8. DesignWaits'
    BY <1>9 DEF DesignWaits
  <2> QED BY <1>1, <1>5, <1>6, <2>4, <2>5, <2>6, <2>7, <2>8, Quietly DEF n
<1> QED BY <1>1, <1>8, <1>9

\* An answer about privileges is taken off what is asked.
LEMMA AnsweredIs ==
    ASSUME EditingInv, NEW s \in Sessions, NEW r \in Relations
    PROVE  /\ Whole(Answered(s, r), Len(typed)) /\ Answered(s, r).panes = panes
           /\ Answered(s, r).slot = slot
<1> DEFINE n == Len(typed)
           kept == IF Screen.loading[s] = r THEN None ELSE Screen.loading[s]
           reads == [t \in Sessions |-> [q \in Relations |->
                       IF t = s /\ q = r THEN "not" ELSE asked[t][q]]]
           loads == [t \in Sessions |-> IF t = s THEN kept ELSE loading_grants[t]]
<1>1. Screen = ScreenOf(panes, slot, running_pane, loading_grants, asked)
  BY DEF Screen, ScreenOf
<1>2. WholeParts(panes, slot, running_pane, loading_grants, asked, n)
  BY ONLY <1>1, EditingInv, WholeOf DEF EditingInv
<1>3. /\ loading_grants \in [Sessions -> Relations \cup {None}]
      /\ asked \in [Sessions -> [Relations -> Rights \cup {"not", "sent"}]]
      /\ \A t \in Sessions :
            loading_grants[t] # None => asked[t][loading_grants[t]] # "not"
  BY <1>2 DEF WholeParts
<1>4. [asked EXCEPT ![s][r] = "not"] = reads
  BY <1>3
<1>5. [loading_grants EXCEPT ![s] = kept] = loads
  BY <1>3
<1>6. kept = IF loading_grants[s] = r THEN None ELSE loading_grants[s]
  BY DEF Screen
<1> HIDE DEF kept
<1>7. /\ loads \in [Sessions -> Relations \cup {None}]
      /\ reads \in [Sessions -> [Relations -> Rights \cup {"not", "sent"}]]
  BY <1>3, <1>6
<1>8. ASSUME NEW t \in Sessions, loads[t] # None PROVE reads[t][loads[t]] # "not"
  <2>1. loads[t] \in Relations /\ loads[t] = loading_grants[t] /\ ~(t = s /\ loads[t] = r)
    BY <1>3, <1>6, <1>7, <1>8
  <2>2. asked[t][loads[t]] # "not"
    BY <1>3, <1>8, <2>1
  <2> QED BY <2>1, <2>2
<1> HIDE DEF reads, loads
<1>9. WholeParts(panes, slot, running_pane, loads, reads, n)
  BY <1>2, <1>7, <1>8 DEF WholeParts
<1> DEFINE more == [asked EXCEPT ![s][r] = "not"]
           less == [loading_grants EXCEPT ![s] = kept]
           v == Answered(s, r)
<1>10. v = ScreenOf(panes, slot, running_pane, less, more)
  <2>1. [Screen EXCEPT !.asked[s][r] = "not"]
        = ScreenOf(panes, slot, running_pane, loading_grants, more)
    BY ONLY <1>1 DEF ScreenOf
  <2> HIDE DEF more
  <2>2. ASSUME NEW y, y = ScreenOf(panes, slot, running_pane, loading_grants, more)
        PROVE  [y EXCEPT !.loading[s] = kept]
               = ScreenOf(panes, slot, running_pane, less, more)
    BY ONLY <2>2 DEF ScreenOf
  <2> HIDE DEF less
  <2>3. v = [Screen EXCEPT !.asked[s][r] = "not", !.loading[s] = kept]
    BY DEF Answered, kept
  <2> HIDE DEF v
  <2> QED BY ONLY <2>1, <2>2, <2>3
<1> HIDE DEF v
<1>11. v = ScreenOf(panes, slot, running_pane, loads, reads)
  BY ONLY <1>4, <1>5, <1>10
<1>12. Whole(v, n)
  BY ONLY <1>9, <1>11, WholeOf
<1> QED BY ONLY <1>11, <1>12, ScreenParts DEF v, n

LEMMA LandGrantsKeeps ==
    ASSUME EditingInv, NEW s \in Sessions, NEW r \in Relations, LandGrants(s, r) PROVE EditingInv'
<1> DEFINE n == Len(typed)
           known == Told(s, r)
           w == Answered(s, r)
           v == PrivilegesChanged(w, s, known)
<1>1. /\ asked[s][r] \in Rights /\ Becomes(v) /\ grants' = known
      /\ UNCHANGED <<active_pane, session, snapshot, design, pending_structure, pending_object,
                     server, typed, written, twice, misled>>
      /\ Strays(session, IF s = session THEN DOMAIN panes ELSE {}) /\ Hears(s)
  BY DEF LandGrants, pending, outside
<1>2. n \in Nat /\ session \in Sessions /\ active_pane \in DOMAIN panes
      /\ \A p \in DOMAIN panes : panes[p] \in Panes(n)
  BY ScreenIs
<1>3. /\ Whole(w, n) /\ w.panes = panes /\ w.slot = slot
  BY AnsweredIs
<1>4. known \in [Sessions -> [Relations -> {"write", "read", "unknown"}]]
      /\ \A t \in Sessions \ {s} : known[t] = grants[t]
  <2>1. grants \in [Sessions -> [Relations -> {"write", "read", "unknown"}]]
    BY DEF EditingInv, Informed
  <2>2. CASE asked[s][r] = "untold"
    BY <2>1, <2>2 DEF Told
  <2>3. CASE asked[s][r] # "untold"
    <3>1. known = [grants EXCEPT ![s][r] = asked[s][r]]
      BY <2>3 DEF Told
    <3>2. asked[s][r] \in {"write", "read"}
      BY <1>1, <2>3 DEF Rights
    <3> HIDE DEF known
    <3> QED BY <2>1, <3>1, <3>2
  <2> QED BY <2>2, <2>3
<1> HIDE DEF n, known, w
<1>5. Informed'
  BY <1>1, <1>4 DEF EditingInv, Informed
<1>6. strayed => strayed'
  BY <1>1 DEF Strays
<1>7. Whole(v, n) /\ v.slot = slot /\ DOMAIN v.panes = DOMAIN panes
      /\ (s # session => v.panes = panes)
      /\ (s = session => AtRest(w, v, snapshot[session], known[session], n))
  <2>1. CASE s = session
    <3>1. v = RefreshAll(w, s, snapshot, known)
      BY <2>1 DEF PrivilegesChanged
    <3> HIDE DEF v
    <3>2. AtRest(w, v, snapshot[s], known[s], n) /\ v.slot = w.slot
      BY <1>2, <1>3, <3>1, RefreshAllIs
    <3> QED BY <1>3, <2>1, <3>2 DEF AtRest
  <2>2. CASE s # session
    BY <1>3, <2>2 DEF PrivilegesChanged
  <2> QED BY <2>1, <2>2
<1> HIDE DEF v
<1>8. Whole(Screen', n) /\ panes' = v.panes /\ slot' = slot
  BY <1>1, <1>7, BecomesIs
<1>9. DOMAIN panes' = DOMAIN panes /\ \A p \in DOMAIN panes : Fate(p)
  <2>1. CASE s = session
    <3>1. AtRest(w, v, snapshot'[session], grants'[session], n)
      BY <1>1, <1>7, <2>1
    <3>2. \A p \in DOMAIN panes : Source(panes[p], w.panes[p])
      BY <1>3, OwnSource
    <3>3. Strays(session, DOMAIN panes)
      BY <1>1, <2>1
    <3> QED BY <1>3, <1>8, <3>1, <3>2, <3>3, SettledFate
  <2>2. CASE s # session
    <3>1. unheard' = unheard \cup {s} /\ panes' = panes
      BY <1>1, <1>7, <1>8, <2>2 DEF Hears
    <3>2. ASSUME NEW t \in Sessions PROVE Unmoved(t)
      BY <1>1, <1>4, <3>1 DEF Unmoved
    <3>3. ASSUME NEW p \in DOMAIN panes PROVE Fate(p)
      <4>1. Kept(panes[p], panes'[p])
        BY <3>1 DEF Kept
      <4>2. panes[p].rows # NoRows => panes[p].rows.session \in Sessions
        <5>1. panes[p].rows \in Found \cup {NoRows}
          BY <1>2, PaneFields
        <5> QED BY <5>1 DEF Found
      <4> QED BY <3>2, <4>1, <4>2 DEF Fate
    <3> QED BY <3>1, <3>3
  <2> QED BY <2>1, <2>2
<1>10. \A t \in Sessions : Undisturbed(slot[t].task, slot'[t].task)
  BY <1>8 DEF Undisturbed
<1>11. DesignWaits'
  BY <1>1, <1>10, DesignStays, EditingAssumption
<1> QED BY <1>1, <1>5, <1>6, <1>8, <1>9, <1>10, <1>11, Quietly DEF n
\* A commit's outcome, whatever it was of.
LEMMA AbsorbIs ==
    ASSUME EditingInv, NEW s \in Sessions, NEW failed \in BOOLEAN,
           AbsorbApply(Freed(Screen, s), failed),
           UNCHANGED <<active_pane, session, snapshot, grants, unheard>>
    PROVE  /\ Whole(Screen', Len(typed)) /\ DOMAIN panes' = DOMAIN panes
           /\ \A p \in DOMAIN panes : Fate(p)
           /\ \A t \in Sessions \ {s} : Undisturbed(slot[t].task, slot'[t].task)
           /\ slot'[s].task.kind \notin {"ddl", "commit"}
           /\ ~failed /\ ~pending_structure => panes'[active_pane].staged = {}
<1> DEFINE n == Len(typed)
           free == Freed(Screen, s)
           clear == Cleared(free)
           next == RefreshResults(clear, session)
           later == RefreshSchemaOn(free, session)
<1>1. n \in Nat /\ session \in Sessions /\ active_pane \in DOMAIN panes
  BY ScreenIs
<1>2. /\ Whole(free, n) /\ free.panes = panes
      /\ \A t \in Sessions \ {s} : free.slot[t] = slot[t]
      /\ free.slot[s].task = Idle
  <2>1. Whole(Screen, Len(typed)) /\ Screen.panes = panes /\ Screen.slot = slot
    BY ScreenIs
  <2> QED BY <2>1, FreedIs
<1>3. \/ Becomes(free) /\ failed
      \/ Becomes(later) /\ ~failed /\ pending_structure
      \/ Becomes(next) /\ ~failed /\ ~pending_structure
  BY DEF AbsorbApply, EditingInv, Informed
<1> HIDE DEF free, n
<1>4. /\ Whole(later, n) /\ later.panes = free.panes
      /\ \A t \in Sessions : Calm(free.slot[t], later.slot[t])
  BY <1>1, <1>2, RefreshSchemaOnIs
<1>5. /\ Whole(clear, n) /\ DOMAIN clear.panes = DOMAIN panes
      /\ Kept(panes[active_pane], clear.panes[active_pane])
      /\ clear.panes[active_pane].staged = {}
      /\ \A p \in DOMAIN panes \ {active_pane} : clear.panes[p] = panes[p]
      /\ clear.slot = free.slot
  BY <1>1, <1>2, ClearedIs
<1> HIDE DEF clear
<1>6. Reread(clear, next, n)
  BY <1>1, <1>5, RefreshResultsIs
<1> HIDE DEF next, later
<1>7. Kept(panes[active_pane], next.panes[active_pane]) \/ Blank(next.panes[active_pane])
  BY <1>5, <1>6 DEF Reread, Kept
<1>8. next.panes[active_pane].staged = {}
  BY <1>5, <1>6 DEF Reread, Kept, Blank
<1>9. PICK w : /\ Becomes(w) /\ Whole(w, n) /\ DOMAIN w.panes = DOMAIN panes
               /\ \A p \in DOMAIN panes \ {active_pane} : w.panes[p] = panes[p]
               /\ Kept(panes[active_pane], w.panes[active_pane]) \/ Blank(w.panes[active_pane])
               /\ \A t \in Sessions : Calm(free.slot[t], w.slot[t])
               /\ ~failed /\ ~pending_structure => w.panes[active_pane].staged = {}
  <2>1. Kept(panes[active_pane], panes[active_pane])
    BY DEF Kept
  <2>2. CASE Becomes(free) /\ failed
    BY <1>2, <2>1, <2>2, CalmItself
  <2>3. CASE Becomes(later) /\ ~failed /\ pending_structure
    BY <1>2, <1>4, <2>1, <2>3
  <2>4. CASE Becomes(next) /\ ~failed /\ ~pending_structure
    <3>1. /\ Whole(next, n) /\ DOMAIN next.panes = DOMAIN panes
          /\ \A p \in DOMAIN panes \ {active_pane} : next.panes[p] = panes[p]
          /\ \A t \in Sessions : Calm(free.slot[t], next.slot[t])
      BY <1>5, <1>6 DEF Reread
    <3> QED BY <1>7, <1>8, <2>4, <3>1
  <2> QED BY <1>3, <2>2, <2>3, <2>4
<1>10. Whole(Screen', n) /\ panes' = w.panes /\ slot' = w.slot
  BY <1>9, BecomesIs
<1>11. ASSUME NEW p \in DOMAIN panes PROVE Fate(p)
  <2>1. CASE p = active_pane
    BY <1>9, <1>10, <2>1, KeptFate DEF Fate
  <2>2. CASE p # active_pane
    BY <1>9, <1>10, <2>2, SameFate
  <2> QED BY <2>1, <2>2
<1>12. \A t \in Sessions \ {s} : Undisturbed(slot[t].task, slot'[t].task)
  BY <1>2, <1>9, <1>10, CalmIsUndisturbed
<1>13. slot'[s].task.kind \notin {"ddl", "commit"}
  <2>1. Calm(free.slot[s], slot'[s]) /\ free.slot[s].task = Idle
    BY <1>2, <1>9, <1>10
  <2> QED BY <2>1 DEF Calm, Asking, Reads, Idle
<1> QED BY <1>9, <1>10, <1>11, <1>12, <1>13 DEF n

LEMMA LandStructureKeeps ==
    ASSUME EditingInv, NEW s \in Sessions, NEW failed \in BOOLEAN, LandStructure(s, failed) PROVE EditingInv'
<1>1. /\ slot[s].task.kind = "ddl" /\ AbsorbApply(Freed(Screen, s), failed)
      /\ pending_structure' = (pending_structure /\ ~failed)
      /\ server' = IF failed THEN server ELSE [server EXCEPT ![s].design = slot[s].task.draft]
      /\ UNCHANGED <<active_pane, session, snapshot, grants, design, pending_object, typed,
                     written, twice, strayed, unheard, misled>>
  BY DEF LandStructure, AbsorbApply, history
<1>2. /\ Whole(Screen', Len(typed)) /\ DOMAIN panes' = DOMAIN panes
      /\ \A p \in DOMAIN panes : Fate(p)
      /\ \A t \in Sessions \ {s} : Undisturbed(slot[t].task, slot'[t].task)
      /\ slot'[s].task.kind \notin {"ddl", "commit"}
  BY <1>1, AbsorbIs
<1> DEFINE draft == slot[s].task.draft
           Servers == [tables : [Relations -> Shapes], rights : [Relations -> Rights], design : Nat]
<1>3. draft \in Nat
  <2>1. slot[s].task \in Tasks(Len(typed))
    BY ScreenIs, SlotIs
  <2>2. slot[s].task \in [kind : {"ddl"}, draft : Nat]
    BY <1>1, <2>1 DEF Tasks, Asking, Reads, Commits, Idle
  <2> QED BY <2>2
<1> HIDE DEF draft
<1>4. /\ server' \in [Sessions -> Servers]
      /\ ~failed => /\ server'[s].design = draft
                    /\ \A t \in Sessions \ {s} : server'[t] = server[t]
  <2>1. server \in [Sessions -> Servers] /\ \A t \in Sessions : server[t] \in Servers
    BY DEF EditingInv, Informed
  <2>2. CASE failed
    BY <1>1, <2>1, <2>2
  <2>3. CASE ~failed
    <3>1. server' = [server EXCEPT ![s].design = draft]
      BY <1>1, <2>3 DEF draft
    <3>2. [server[s] EXCEPT !.design = draft] \in Servers
          /\ [server[s] EXCEPT !.design = draft].design = draft
      BY <1>3, <2>1
    <3> HIDE DEF Servers
    <3>3. server' = [server EXCEPT ![s] = [server[s] EXCEPT !.design = draft]]
      BY <3>1
    <3> QED BY <2>1, <3>2, <3>3
  <2> QED BY <2>2, <2>3
<1>5. Informed'
  BY <1>1, <1>4 DEF EditingInv, Informed
<1>6. DesignWaits'
  <2>1. SUFFICES ASSUME pending_structure, ~failed PROVE DesignWaits'
    BY <1>1 DEF DesignWaits
  <2>2. CASE s = Designing
    BY <1>1, <1>2, <1>4, <2>1, <2>2 DEF EditingInv, DesignWaits, draft
  <2>3. CASE s # Designing
    <3>1. Undisturbed(slot[Designing].task, slot'[Designing].task)
          /\ server'[Designing].design = server[Designing].design
      BY <1>2, <1>4, <2>1, <2>3, EditingAssumption
    <3> QED BY <1>1, <3>1, DesignStays
  <2> QED BY <2>2, <2>3
<1>7. \A t \in Sessions : Undisturbed(slot[t].task, slot'[t].task)
                          \/ slot'[t].task.kind # "commit"
  BY <1>2
<1> QED BY <1>1, <1>2, <1>5, <1>6, <1>7, Quietly

LEMMA LandCommitKeeps ==
    ASSUME EditingInv, NEW s \in Sessions, NEW failed \in BOOLEAN, LandCommit(s, failed) PROVE EditingInv'
<1> DEFINE task == slot[s].task
           took == {[edit |-> e, session |-> s, relation |-> task.relation] : e \in task.edits}
<1>1. /\ task.kind = "commit" /\ AbsorbApply(Freed(Screen, s), failed)
      /\ pending_structure' = (pending_structure /\ ~failed)
      /\ written' = IF failed THEN written ELSE written \cup took
      /\ twice' = (twice \/ (~failed /\ \E w \in written : w.edit \in task.edits))
      /\ misled' = (misled \/ (~failed /\ (pending_structure \/ task.pane # active_pane)))
      /\ UNCHANGED <<active_pane, session, snapshot, grants, design, pending_object, server, typed,
                     strayed, unheard>>
  BY DEF LandCommit, AbsorbApply, outside
<1>2. /\ Whole(Screen', Len(typed)) /\ DOMAIN panes' = DOMAIN panes
      /\ \A p \in DOMAIN panes : Fate(p)
      /\ \A t \in Sessions \ {s} : Undisturbed(slot[t].task, slot'[t].task)
      /\ slot'[s].task.kind \notin {"ddl", "commit"}
      /\ ~failed /\ ~pending_structure => panes'[active_pane].staged = {}
  BY <1>1, AbsorbIs
<1>3. /\ Len(typed) \in Nat /\ active_pane \in DOMAIN panes
      /\ panes' \in [DOMAIN panes' -> Panes(Len(typed))]
  BY <1>2, ScreenIs DEF Whole, Screen
<1>4. Owned' /\ Judgements' /\ \A p \in DOMAIN panes' : Steps(panes[p], panes'[p])
  BY <1>1, <1>2, <1>3, Fates
<1>5. \A t \in Sessions : slot'[t].task.kind = "commit" => t # s /\ slot'[t].task = slot[t].task
  BY <1>2 DEF Undisturbed
<1>6. Typed' /\ Sent' /\ Apart'
  BY <1>1, <1>2, <1>4, <1>5, Steady
<1>7. Informed'
  BY <1>1 DEF EditingInv, Informed
<1>8. DesignWaits'
  <2>1. SUFFICES ASSUME pending_structure' PROVE DesignWaits'
    BY DEF DesignWaits
  <2>2. Undisturbed(slot[Designing].task, slot'[Designing].task)
    BY <1>1, <1>2, EditingAssumption DEF Undisturbed
  <2> QED BY <1>1, <2>1, <2>2, DesignStays
<1>9. task \in Commits(Len(typed))
  <2>1. slot[s].task \in Tasks(Len(typed))
    BY ScreenIs, SlotIs
  <2> QED BY <1>1, <2>1 DEF Tasks, Asking, Reads, Idle
<1>10. \A e \in task.edits : e \in 1..Len(typed)
  BY <1>9 DEF Commits
<1>11. ~strayed => \A e \in task.edits :
                     typed[e] = [session |-> s, relation |-> task.relation]
  BY <1>1 DEF EditingInv, Sent
<1>12. Taken'
  <2>1. written' \in SUBSET [edit : 1..Len(typed), session : Sessions,
                             relation : Relations \cup {None}]
    <3>1. task.relation \in Relations \cup {None}
      BY <1>9 DEF Commits
    <3>2. took \in SUBSET [edit : 1..Len(typed), session : Sessions,
                           relation : Relations \cup {None}]
      <4> HIDE DEF task
      <4> QED BY <1>10, <3>1
    <3> HIDE DEF took
    <3> QED BY <1>1, <3>2 DEF EditingInv, Taken
  <2>2. ASSUME ~strayed, NEW w \in written'
        PROVE  typed[w.edit] = [session |-> w.session, relation |-> w.relation]
    <3>1. CASE w \in written
      BY <2>2, <3>1 DEF EditingInv, Taken, EditsGoHomeUnlessStrayed, EditsGoHome
    <3>2. CASE w \in took
      <4>1. PICK e \in task.edits : w = [edit |-> e, session |-> s, relation |-> task.relation]
        BY <3>2
      <4>2. typed[e] = [session |-> s, relation |-> task.relation]
        BY <1>11, <2>2
      <4>3. w.edit = e /\ w.session = s /\ w.relation = task.relation
        BY ONLY <4>1
      <4> QED BY ONLY <4>2, <4>3
    <3> QED BY <1>1, <2>2, <3>1, <3>2
  <2> QED BY <1>1, <2>1, <2>2 DEF Taken, EditsGoHomeUnlessStrayed, EditsGoHome
<1>13. Unwritten'
  <2>1. SUFFICES ASSUME ~strayed, ~misled'
        PROVE  ~twice' /\ \A w \in written' :
                 /\ \A p \in DOMAIN panes' : w.edit \notin panes'[p].staged
                 /\ \A t \in Sessions : slot'[t].task.kind = "commit"
                                        => w.edit \notin slot'[t].task.edits
    BY <1>1 DEF Unwritten
  <2>2. ~misled /\ (~failed => ~pending_structure /\ task.pane = active_pane)
    BY <1>1, <2>1
  <2>3. ~twice /\ \A w \in written :
                 /\ \A p \in DOMAIN panes : w.edit \notin panes[p].staged
                 /\ \A t \in Sessions : slot[t].task.kind = "commit"
                                        => w.edit \notin slot[t].task.edits
    BY <2>1, <2>2 DEF EditingInv, Unwritten
  <2>4. ~twice'
    BY <1>1, <2>3
  <2>5. \A p \in DOMAIN panes' : panes'[p].staged \subseteq panes[p].staged
    BY <1>4 DEF Steps
  <2>6. ASSUME NEW w \in written
        PROVE  /\ \A p \in DOMAIN panes' : w.edit \notin panes'[p].staged
               /\ \A t \in Sessions : slot'[t].task.kind = "commit"
                                      => w.edit \notin slot'[t].task.edits
    BY <1>2, <1>5, <2>3, <2>5
  <2>7. ASSUME ~failed, NEW w \in took
        PROVE  /\ \A p \in DOMAIN panes' : w.edit \notin panes'[p].staged
               /\ \A t \in Sessions : slot'[t].task.kind = "commit"
                                      => w.edit \notin slot'[t].task.edits
    <3>1. PICK e \in task.edits : w = [edit |-> e, session |-> s, relation |-> task.relation]
      BY <2>7
    <3>2. w.edit = e
      BY ONLY <3>1
    <3>3. ASSUME NEW p \in DOMAIN panes' PROVE e \notin panes'[p].staged
      <4>1. CASE p = active_pane
        BY <1>2, <2>2, <2>7, <4>1
      <4>2. CASE p # active_pane
        <5>1. panes[p].staged \cap task.edits = {}
          BY <1>1, <1>2, <2>2, <2>7, <4>2 DEF EditingInv, Apart
        <5> QED BY <2>5, <5>1
      <4> QED BY <4>1, <4>2
    <3>4. ASSUME NEW t \in Sessions, slot'[t].task.kind = "commit"
          PROVE  e \notin slot'[t].task.edits
      <4>1. SUFFICES ASSUME e \in slot[t].task.edits PROVE FALSE
        BY <1>5, <3>4
      <4>2. t # s /\ slot[t].task.kind = "commit"
        BY <1>5, <3>4
      <4>3. typed[e] = [session |-> t, relation |-> slot[t].task.relation]
        BY <2>1, <4>1, <4>2 DEF EditingInv, Sent
      <4>4. typed[e] = [session |-> s, relation |-> task.relation]
        BY <1>11, <2>1
      <4>5. typed[e].session = t /\ typed[e].session = s
        BY ONLY <4>3, <4>4
      <4> QED BY <4>2, <4>5
    <3> QED BY <3>2, <3>3, <3>4
  <2>8. ASSUME NEW w \in written' PROVE w \in written \/ (~failed /\ w \in took)
    BY <1>1
  <2> QED BY <2>4, <2>6, <2>7, <2>8
<1>14. active_pane' \in DOMAIN panes' /\ Whole(Screen, Len(typed))'
  BY <1>1, <1>2, <1>3
<1> QED BY <1>4, <1>6, <1>7, <1>8, <1>12, <1>13, <1>14 DEF EditingInv
-----------------------------------------------------------------------------
\* At first every pane has read its first tab, and knows what may be done.
LEMMA InitIInv == ASSUME Init PROVE EditingInv
<1>1. /\ DOMAIN Strips = 1..Len(Strips) /\ Len(Strips) \in Nat /\ 1 \in DOMAIN Strips
      /\ \A p \in DOMAIN Strips : /\ Strips[p] \in Seq(Found) /\ 1 \in DOMAIN Strips[p]
                                  /\ DOMAIN Strips[p] = 1..Len(Strips[p])
                                  /\ Len(Strips[p]) \in Nat
  <2>1. Strips \in Seq(Seq(Found)) /\ Strips # <<>>
        /\ \A p \in DOMAIN Strips : Strips[p] # <<>>
    BY EditingAssumption DEF Found
  <2>2. \A p \in DOMAIN Strips : Strips[p] \in Seq(Found)
    BY <2>1, ElementOfSeq
  <2> QED BY <2>1, <2>2
<1>2. \A p \in DOMAIN Strips : Opened(p) \in Found /\ Opened(p) # NoRows
  BY <1>1, ElementOfSeq, NoRowsIsNoFound DEF Opened
<1>3. typed = <<>> /\ Len(typed) = 0 /\ written = {} /\ ~twice /\ strayed = FALSE /\ unheard = {}
      /\ pending_structure = FALSE /\ pending_object = None /\ design = [draft |-> 0, original |-> 0]
      /\ active_pane = 1 /\ session = Strips[1][1].session /\ running_pane = 0
  BY DEF Init
<1> DEFINE strip(p) == [i \in DOMAIN Strips[p] |-> Fresh(Strips[p][i])]
           x(p) == PaneOf(strip(p), 1, 1, Opened(p), Opened(p).relation, TRUE,
                          Initially[Opened(p).relation] # "read", {})
<1>4. ASSUME NEW p \in DOMAIN Strips
      PROVE  /\ strip(p) \in Seq(Tabs) /\ 1 \in DOMAIN strip(p)
             /\ strip(p)[1].session = Opened(p).session
  <2>1. \A i \in DOMAIN Strips[p] : Strips[p][i] \in Found
    BY <1>1, ElementOfSeq
  <2>2. \A i \in DOMAIN Strips[p] : Fresh(Strips[p][i]) \in Tabs
    BY <2>1 DEF Fresh, Tabs, Found
  <2> DEFINE len == Len(Strips[p])
  <2>3. strip(p) \in [1..len -> Tabs] /\ len \in Nat
    BY <1>1, <2>2
  <2> HIDE DEF len
  <2>4. strip(p)[1].session = Opened(p).session
    BY <1>1 DEF Fresh, Opened
  <2>5. 1 \in DOMAIN strip(p)
    BY <1>1
  <2> HIDE DEF strip
  <2>6. strip(p) \in Seq(Tabs)
    BY <2>3
  <2> QED BY <2>4, <2>5, <2>6
<1>5. panes = [p \in DOMAIN Strips |-> x(p)] /\ DOMAIN panes = DOMAIN Strips
      /\ \A p \in DOMAIN panes : panes[p] = x(p)
  BY DEF Init, PaneOf
<1> HIDE DEF strip
<1>6. ASSUME NEW p \in DOMAIN Strips
      PROVE  /\ x(p) \in Panes(0) /\ x(p).rows = Opened(p) /\ x(p).staged = {}
             /\ x(p).editable = (Initially[Opened(p).relation] # "read")
             /\ x(p).editing_relation = Opened(p).relation
             /\ Tab(x(p)).session = Opened(p).session
  <2>1. /\ strip(p) \in Seq(Tabs) /\ 1 \in DOMAIN strip(p) /\ 1 \in 0..2
        /\ Opened(p) \in Found \cup {NoRows} /\ Opened(p).relation \in Relations \cup {None}
        /\ TRUE \in BOOLEAN /\ (Initially[Opened(p).relation] # "read") \in BOOLEAN
        /\ {} \in SUBSET (1..0) /\ 0 \in Nat
    BY <1>2, <1>4 DEF Found
  <2>2. x(p) \in Panes(0)
    BY <2>1, PaneTypes
  <2>3. /\ x(p).tabs = strip(p) /\ x(p).active_tab = 1 /\ x(p).rows = Opened(p)
        /\ x(p).editable = (Initially[Opened(p).relation] # "read")
        /\ x(p).editing_relation = Opened(p).relation /\ x(p).staged = {}
    BY ONLY DEF PaneOf
  <2>4. Tab(x(p)).session = Opened(p).session
    BY <1>4, <2>3 DEF Tab
  <2> HIDE DEF x
  <2> QED BY <2>2, <2>3, <2>4
<1> HIDE DEF x
<1>7. panes \in [DOMAIN panes -> Panes(0)]
  BY <1>5, <1>6
<1>8. Informed
  <2>1. server \in [Sessions -> [tables : [Relations -> Shapes], rights : [Relations -> Rights],
                                 design : Nat]]
    BY EditingAssumption DEF Init, Shapes, Rights
  <2>2. snapshot \in [Sessions -> [Relations -> Shapes]]
    BY <2>1 DEF Init
  <2>3. grants \in [Sessions -> [Relations -> {"write", "read", "unknown"}]]
    <3>1. \A r \in Relations : Initially[r] # "untold" => Initially[r] \in {"write", "read"}
      BY EditingAssumption
    <3>2. ASSUME NEW s \in Sessions, NEW r \in Relations
          PROVE  (IF Heard(s, r) THEN Initially[r] ELSE "unknown") \in {"write", "read", "unknown"}
      BY <3>1 DEF Heard
    <3> QED BY <3>2 DEF Init
  <2>4. session \in Sessions
    <3>1. Strips[1][1] \in Found
      BY <1>1, ElementOfSeq
    <3> QED BY <1>3, <3>1 DEF Found
  <2>5. design \in [draft : Nat, original : Nat]
    BY <1>3
  <2> QED BY <1>3, <2>1, <2>2, <2>3, <2>4, <2>5 DEF Informed
<1>9. slot \in [Sessions -> Slots(0)] /\ \A s \in Sessions : slot[s].task = Idle
  BY DEF Init, Slots, Tasks
<1>10. Whole(Screen, 0)
  <2>1. /\ loading_grants \in [Sessions -> Relations \cup {None}]
        /\ \A s \in Sessions : loading_grants[s] = None
        /\ asked \in [Sessions -> [Relations -> Rights \cup {"not", "sent"}]]
    BY DEF Init
  <2>2. WholeParts(panes, slot, running_pane, loading_grants, asked, 0)
    BY <1>3, <1>5, <1>7, <1>9, <2>1 DEF WholeParts
  <2>3. Screen = ScreenOf(panes, slot, running_pane, loading_grants, asked)
    BY DEF Screen, ScreenOf
  <2> QED BY ONLY <2>2, <2>3, WholeOf
<1>11. active_pane \in DOMAIN panes
  BY <1>1, <1>3, <1>5
<1>12. Typed
  BY <1>2, <1>3, <1>5, <1>6 DEF Typed
<1>13. Owned
  <2>1. ASSUME NEW p \in DOMAIN panes PROVE Own(panes[p])
    <3>1. Opened(p) = [session |-> Opened(p).session, relation |-> Opened(p).relation]
      BY <1>2, <1>5 DEF Found
    <3> QED BY <1>5, <1>6, <3>1 DEF Own
  <2>2. panes[active_pane].rows.session = session
    BY <1>3, <1>5, <1>6, <1>11 DEF Opened
  <2> QED BY <2>1, <2>2 DEF Owned
<1>14. Judgements
  <2>1. ASSUME NEW p \in DOMAIN panes PROVE Current(panes[p], snapshot, grants)
    <3> DEFINE s == Opened(p).session
               r == Opened(p).relation
    <3>1. s \in Sessions /\ r \in Relations /\ Opened(p) = [session |-> s, relation |-> r]
      BY <1>2, <1>5 DEF Found
    <3>2. snapshot[s][r] = "table"
      BY <3>1 DEF Init
    <3>3. grants[s][r] = IF Heard(s, r) THEN Initially[r] ELSE "unknown"
      BY <3>1 DEF Init
    <3>4. Initially[r] # "untold" => Heard(s, r)
      BY <1>5, <3>1 DEF Heard
    <3>5. Heard(s, r) => Initially[r] # "untold"
      BY DEF Heard
    <3> HIDE DEF s, r
    <3>6. (grants[s][r] # "read") <=> (Initially[r] # "read")
      BY <3>3, <3>4, <3>5
    <3>7. panes[p].rows.session = s /\ panes[p].rows.relation = r
          /\ (panes[p].editable <=> Initially[r] # "read")
      BY <1>5, <1>6 DEF s, r
    <3> QED BY <3>2, <3>6, <3>7 DEF Current
  <2> QED BY <2>1 DEF Judgements
<1>15. Sent /\ Taken /\ Apart /\ Unwritten /\ DesignWaits
  <2>1. \A s \in Sessions : slot[s].task.kind # "commit"
    BY <1>9 DEF Idle
  <2>2. \A p \in DOMAIN panes : panes[p].staged = {}
    BY <1>5, <1>6
  <2> QED BY <1>3, <2>1, <2>2
          DEF Sent, Taken, Apart, Unwritten, DesignWaits, EditsGoHomeUnlessStrayed, EditsGoHome
<1> QED BY <1>3, <1>8, <1>10, <1>11, <1>12, <1>13, <1>14, <1>15 DEF EditingInv

LEMMA NextIInv == ASSUME EditingInv, [Next]_vars PROVE EditingInv'
<1>1. CASE UNCHANGED vars
  <2>1. UNCHANGED screen /\ UNCHANGED <<active_pane, session, snapshot, grants, design,
              pending_structure, pending_object, server, typed, written, twice, strayed, unheard,
              misled>>
    BY <1>1 DEF vars, pending, outside, history
  <2>2. /\ Whole(Screen', Len(typed)) /\ DOMAIN panes' = DOMAIN panes
        /\ \A p \in DOMAIN panes : Fate(p)
        /\ \A s \in Sessions : Undisturbed(slot[s].task, slot'[s].task)
    BY <2>1, AllSame
  <2>3. DesignWaits'
    BY <2>1, <2>2, DesignStays, EditingAssumption
  <2>4. Informed'
    BY <2>1, StaysInformed
  <2> QED BY <2>1, <2>2, <2>3, <2>4, Quietly
<1>2. CASE Next
  <2>1. CASE Reload \/ Edit \/ DiscardChanges \/ CommitChanges \/ RefreshSchema
    BY <2>1, ReloadKeeps, EditKeeps, DiscardChangesKeeps, CommitChangesKeeps, RefreshSchemaKeeps
  <2>2. CASE TypeDraft \/ RevertDraft \/ CommitStructure
    BY <2>2, DraftKeeps, CommitStructureKeeps
  <2>3. ASSUME NEW i, ShowTab(i) PROVE EditingInv'
    BY <2>3, ShowTabKeeps
  <2>4. ASSUME NEW p, ActivatePane(p) \/ ClosePane(p) PROVE EditingInv'
    BY <2>4, ActivatePaneKeeps, ClosePaneKeeps
  <2>5. ASSUME NEW r \in Relations, DropObject(r) PROVE EditingInv'
    BY <2>5, DropObjectKeeps
  <2>6. ASSUME NEW s \in Sessions, NEW failed \in BOOLEAN, Land(s, failed) PROVE EditingInv'
    BY <2>6, LandRowsKeeps, LandDropKeeps, LandCommitKeeps, LandStructureKeeps, LandCatalogKeeps
       DEF Land
  <2>7. ASSUME NEW s \in Sessions, NEW r \in Relations, AnswerGrants(s, r) \/ LandGrants(s, r)
        PROVE  EditingInv'
    BY <2>7, AnswerGrantsKeeps, LandGrantsKeeps
  <2>8. CASE Foreign
    BY <2>8, ForeignKeeps
  <2> QED BY <1>2, <2>1, <2>2, <2>3, <2>4, <2>5, <2>6, <2>7, <2>8 DEF Next
<1> QED BY <1>1, <1>2
-----------------------------------------------------------------------------
LEMMA IInvIsInOrder == ASSUME EditingInv PROVE EditsInOrder
<1>1. TypeOK
  <2>1. Found \cup {NoRows} \subseteq Rows /\ Tabs \subseteq Open
    BY DEF Found, NoRows, Rows, Tabs, Open
  <2>2. ASSUME NEW p \in DOMAIN panes
        PROVE  panes[p] \in [tabs : Seq(Open), active_tab : Nat, results : 0..2, rows : Rows,
                             editing_relation : Relations \cup {None}, identity : BOOLEAN,
                             editable : BOOLEAN, staged : SUBSET (1..Len(typed))]
    <3>1. panes[p] \in Panes(Len(typed)) /\ Len(typed) \in Nat
      BY ScreenIs
    <3>2. panes[p].tabs \in Seq(Tabs) /\ panes[p].rows \in Rows
      BY <2>1, <3>1, PaneFields
    <3>3. \A i \in 1..Len(panes[p].tabs) : panes[p].tabs[i] \in Open
      BY <2>1, <3>2, ElementOfSeq
    <3>4. panes[p].tabs \in Seq(Open)
      BY <3>2, <3>3
    <3> HIDE DEF Open, Rows
    <3>5. panes[p] \in [tabs : Seq(Tabs), active_tab : Nat, results : 0..2,
                        rows : Found \cup {NoRows}, editing_relation : Relations \cup {None},
                        identity : BOOLEAN, editable : BOOLEAN, staged : SUBSET (1..Len(typed))]
      BY <3>1 DEF Panes
    <3> QED BY <3>2, <3>4, <3>5
  <2>3. typed \in Seq(Rows)
    <3>1. typed \in Seq(Found) /\ \A i \in 1..Len(typed) : typed[i] \in Rows
      BY <2>1, ElementOfSeq DEF EditingInv, Typed
    <3> QED BY <3>1
  <2>4. /\ active_pane \in DOMAIN panes /\ running_pane \in DOMAIN panes \cup {0}
        /\ loading_grants \in [Sessions -> Relations \cup {None}]
        /\ \A s \in Sessions : loading_grants[s] # None => asked[s][loading_grants[s]] # "not"
        /\ asked \in [Sessions -> [Relations -> Rights \cup {"not", "sent"}]]
    BY ScreenIs DEF Whole, Screen
  <2> QED BY <2>2, <2>3, <2>4 DEF EditingInv, Informed, TypeOK
<1> QED BY <1>1 DEF EditingInv, Taken, Unwritten, WrittenOnce, EditsInOrder

LEMMA IInvIsCurrent == ASSUME EditingInv PROVE EditabilityIsCurrent
<1>1. SUFFICES ASSUME ~strayed, session \notin unheard, NEW p \in DOMAIN panes,
                      panes[p].rows = [session |-> session, relation |-> Relation(panes[p])]
               PROVE  panes[p].editable
                        <=> Editable(panes[p], snapshot[session], grants[session])
  BY DEF EditabilityIsCurrent
<1>2. panes[p].rows.session = session /\ panes[p].rows.relation = Relation(panes[p])
  BY ONLY <1>1
<1>3. session # None /\ panes[p].rows # NoRows
  BY <1>2, ScreenIs, NoRowsIsNoFound, EditingAssumption
<1>4. Relation(panes[p]) \in Relations /\ Relation(panes[p]) # None
  <2>1. panes[p].rows \in Found
    BY <1>3, ScreenIs, PaneFields
  <2> QED BY <1>2, <2>1, EditingAssumption DEF Found
<1>5. Current(panes[p], snapshot, grants)
  BY <1>1, <1>2 DEF EditingInv, Judgements
<1>6. panes[p].editable <=> /\ snapshot[session][Relation(panes[p])] = "table"
                            /\ grants[session][Relation(panes[p])] # "read"
  BY <1>2, <1>3, <1>5 DEF Current
<1> QED BY <1>3, <1>4, <1>6 DEF Editable, Identity, Resolve, Shape, WriteDenied

\* Only a catalog that a save waits for replaces a draft and frees a slot at once.
LEMMA DesignIsKept ==
    ASSUME EditingInv, [Next]_vars, design' # design, slot' # slot, session = Designing
    PROVE  server[Designing].design # design.original
<1>1. Next
  BY DEF vars, pending
<1>2. PICK s \in Sessions, failed \in BOOLEAN : LandCatalog(s, failed)
  <2>1. ~(Reload \/ Edit \/ DiscardChanges \/ CommitChanges \/ RefreshSchema \/ TypeDraft
          \/ RevertDraft \/ CommitStructure \/ Foreign)
    BY DEF Reload, Edit, DiscardChanges, CommitChanges, RefreshSchema, TypeDraft, RevertDraft,
           CommitStructure, Foreign, Unsaved, pending, screen
  <2>2. \A i : ~ShowTab(i) /\ ~ActivatePane(i) /\ ~ClosePane(i)
    BY DEF ShowTab, ActivatePane, ClosePane, Unsaved, pending
  <2>3. \A r \in Relations : ~DropObject(r)
    BY DEF DropObject
  <2>4. \A s \in Sessions, r \in Relations : ~AnswerGrants(s, r) /\ ~LandGrants(s, r)
    BY DEF AnswerGrants, LandGrants, pending
  <2>5. \A s \in Sessions, failed \in BOOLEAN :
          ~LandRows(s, failed) /\ ~LandDrop(s, failed) /\ ~LandCommit(s, failed)
          /\ ~LandStructure(s, failed)
    BY DEF LandRows, LandDrop, LandCommit, LandStructure
  <2> QED BY <1>1, <2>1, <2>2, <2>3, <2>4, <2>5 DEF Next, Land
<1>3. slot[s].task.kind = "catalog" /\ s = session /\ design' = Adopted(s)
  BY <1>2 DEF LandCatalog
<1>4. pending_structure
  BY <1>3 DEF Adopted
<1> QED BY <1>3, <1>4 DEF EditingInv, DesignWaits

\* The invariant, strengthened until every step keeps it.
THEOREM Invariance == Spec => []EditingInv
BY InitIInv, NextIInv, PTL DEF Spec

\* Whatever tabs are shown, panes closed, answers lost sight of and commits
\* taken for others', the window stays well formed; edits reach the table and
\* the server whose rows they were typed over, and reach them once, under the
\* conditions EditsGoHomeUnlessStrayed and WrittenOnce name (commit_changes,
\* refresh_editability, absorb_apply).
THEOREM EditsStayInOrder == Spec => []EditsInOrder
BY Invariance, IInvIsInOrder, PTL

\* Whether a grid can be edited is what is known of its table now, unless the
\* pane strayed or the server in front had news unheard (refresh_editability's
\* callers).
THEOREM EditabilityStaysCurrent == Spec => []EditabilityIsCurrent
BY Invariance, IInvIsCurrent, PTL

\* A design that is not saved gives way to a catalog only when the table was
\* saved since it was drawn (adopt_structure).
THEOREM UnsavedDesignStays == Spec => UnsavedDesignIsKept
<1>1. EditingInv /\ [Next]_vars
        => [design' # design /\ slot' # slot /\ session = Designing =>
              server[Designing].design # design.original]_vars
  BY DesignIsKept
<1> QED BY <1>1, Invariance, PTL DEF Spec, UnsavedDesignIsKept
-----------------------------------------------------------------------------
(***************************************************************************)
(* Browsing.  The clause of a filter is followed row by row (ClausesSay): it*)
(* means what the rows read so far mean, and is of one join or one piece.  *)
(* The rest needs that what was asked, or came, is of the tab in front     *)
(* (Asked), that what is written is over its own row (Over), and that any  *)
(* statement for a later page of a table with a key names the key (Askable).*)
(***************************************************************************)
LEMMA Least == ASSUME NEW S \in SUBSET Nat, S # {} PROVE \E n \in S : \A m \in S : n <= m
<1>1. PICK n \in S : \A m \in S : <<m, n>> \notin OpToRel(<, Nat)
  BY WFMin, NatLessThanWellFounded
<1>2. \A m \in S : ~(m < n)
  BY <1>1, Zenon DEF OpToRel
<1> QED BY <1>2

(* The filter.                                                             *)
Piece == [join : {"and", "or"}, rows : SUBSET TableRows]

LEMMA ToSqlIs ==
    ASSUME NEW chip \in Chip, Complete(chip)
    PROVE  ToSql(chip) \in SUBSET TableRows
<1>1. TakesValue(chip) => chip.value \in DOMAIN Meaning
  BY DEF Chip, Complete
<1>2. Null \in DOMAIN Meaning
  BY BrowseAssumption
<1> QED BY <1>1, <1>2, BrowseAssumption DEF ToSql

\* The clauses of a filter, one by one.
ClausesTo(chips, n, f) ==
    /\ f = [i \in 0..n |-> f[i]]
    /\ f[0] = [out |-> <<>>, joined |-> Nothing]
    /\ \A i \in 1..n : f[i] = IF InForce(chips[i]) THEN Joined(f[i - 1], chips[i]) ELSE f[i - 1]

LEMMA ClausesExist ==
    ASSUME NEW chips \in Seq(Chip)
    PROVE  \E f : ClausesTo(chips, Len(chips), f)
<1> DEFINE Bad == {n \in 0..Len(chips) : ~\E f : ClausesTo(chips, n, f)}
<1>0. Len(chips) \in Nat /\ Len(chips) \in 0..Len(chips)
  OBVIOUS
<1>1. SUFFICES ASSUME Bad # {} PROVE FALSE
  BY <1>0
<1>2. PICK n \in Bad : \A m \in Bad : n <= m
  <2>1. Bad \in SUBSET Nat
    OBVIOUS
  <2> HIDE DEF Bad
  <2> QED BY <1>1, <2>1, Least
<1>3. n # 0
  <2>1. ClausesTo(chips, 0, [i \in 0..0 |-> [out |-> <<>>, joined |-> Nothing]])
    BY DEF ClausesTo
  <2> QED BY <2>1
<1>4. n - 1 \in 0..Len(chips) /\ n - 1 \notin Bad
  BY <1>2, <1>3
<1>5. PICK f : ClausesTo(chips, n - 1, f)
  BY <1>4
<1> DEFINE next == IF InForce(chips[n]) THEN Joined(f[n - 1], chips[n]) ELSE f[n - 1]
           g == [i \in 0..n |-> IF i = n THEN next ELSE f[i]]
<1>6. /\ f[0] = [out |-> <<>>, joined |-> Nothing]
      /\ \A i \in 1..(n - 1) : f[i] = IF InForce(chips[i]) THEN Joined(f[i - 1], chips[i]) ELSE f[i - 1]
  BY <1>5 DEF ClausesTo
<1>7. n \in Nat \ {0}
  BY <1>3
<1>8. \A i \in 0..n : g[i] = IF i = n THEN next ELSE f[i]
  OBVIOUS
<1>9. g = [i \in 0..n |-> g[i]]
  OBVIOUS
<1> HIDE DEF g
<1>10. g[n - 1] = f[n - 1] /\ g[n] = next /\ g[0] = f[0]
  BY <1>7, <1>8
<1>11. ASSUME NEW i \in 1..n
       PROVE  g[i] = IF InForce(chips[i]) THEN Joined(g[i - 1], chips[i]) ELSE g[i - 1]
  <2>1. CASE i = n
    BY <2>1, <1>10
  <2>2. CASE i # n
    <3>1. i \in 1..(n - 1) /\ i \in 0..n /\ i - 1 \in 0..n /\ i - 1 # n
      BY <2>2, <1>7
    <3>2. g[i] = f[i] /\ g[i - 1] = f[i - 1]
      BY <3>1, <2>2, <1>8
    <3> QED BY <3>1, <3>2, <1>6
  <2> QED BY <2>1, <2>2
<1>12. ClausesTo(chips, n, g)
  BY <1>6, <1>9, <1>10, <1>11 DEF ClausesTo
<1> QED BY <1>12

LEMMA ClausesAre ==
    ASSUME NEW chips \in Seq(Chip)
    PROVE  /\ Clauses(chips)[0] = [out |-> <<>>, joined |-> Nothing]
           /\ \A i \in 1..Len(chips) :
                 Clauses(chips)[i] = IF InForce(chips[i]) THEN Joined(Clauses(chips)[i - 1], chips[i])
                                                          ELSE Clauses(chips)[i - 1]
<1> DEFINE Equals(f) == f = [n \in 0..Len(chips) |->
                                IF n = 0 THEN [out |-> <<>>, joined |-> Nothing]
                                ELSE IF InForce(chips[n]) THEN Joined(f[n - 1], chips[n]) ELSE f[n - 1]]
<1>1. PICK f : ClausesTo(chips, Len(chips), f)
  BY ClausesExist
<1>2. Equals(f)
  <2> DEFINE g == [n \in 0..Len(chips) |->
                     IF n = 0 THEN [out |-> <<>>, joined |-> Nothing]
                     ELSE IF InForce(chips[n]) THEN Joined(f[n - 1], chips[n]) ELSE f[n - 1]]
  <2>1. Len(chips) \in Nat
    OBVIOUS
  <2>2. \A n \in 0..Len(chips) : f[n] = g[n]
    BY <1>1, <2>1 DEF ClausesTo
  <2>3. g = [n \in 0..Len(chips) |-> g[n]]
    OBVIOUS
  <2>4. f = [n \in 0..Len(chips) |-> f[n]]
    BY <1>1 DEF ClausesTo
  <2> HIDE DEF g
  <2>5. f = g
    BY <2>2, <2>3, <2>4
  <2> QED BY <2>5 DEF g
<1>3. Clauses(chips) = CHOOSE g : Equals(g)
  BY Zenon DEF Clauses
<1>4. Equals(Clauses(chips))
  BY <1>2, <1>3, Zenon
<1> DEFINE c == Clauses(chips)
<1>5. c = [n \in 0..Len(chips) |->
                                IF n = 0 THEN [out |-> <<>>, joined |-> Nothing]
                                ELSE IF InForce(chips[n]) THEN Joined(c[n - 1], chips[n]) ELSE c[n - 1]]
  BY <1>4
<1> HIDE DEF c
<1>6. Len(chips) \in Nat
  OBVIOUS
<1>7. \A n \in 0..Len(chips) :
        c[n] = IF n = 0 THEN [out |-> <<>>, joined |-> Nothing]
               ELSE IF InForce(chips[n]) THEN Joined(c[n - 1], chips[n]) ELSE c[n - 1]
  BY <1>5
<1>8. c[0] = [out |-> <<>>, joined |-> Nothing]
  BY <1>6, <1>7
<1>9. \A i \in 1..Len(chips) : i \in 0..Len(chips) /\ i # 0
  BY <1>6
<1>10. \A i \in 1..Len(chips) : c[i] = IF InForce(chips[i]) THEN Joined(c[i - 1], chips[i]) ELSE c[i - 1]
  BY <1>7, <1>9
<1> QED BY <1>8, <1>10 DEF c

\* A clause of one join.
LEMMA MeantAnd ==
    ASSUME NEW out \in Seq(Piece), out # <<>>, \A i \in 2..Len(out) : out[i].join = "and"
    PROVE  Meant(out) = {row \in TableRows : \A i \in 1..Len(out) : row \in out[i].rows}
<1>1. Len(out) \in Nat \ {0} /\ DOMAIN out = 1..Len(out)
  BY EmptySeq, LenProperties
<1>2. ASSUME NEW row \in TableRows PROVE row \in Meant(out) <=> \A i \in 1..Len(out) : row \in out[i].rows
  <2>1. ASSUME row \in Meant(out), NEW j \in 1..Len(out) PROVE row \in out[j].rows
    <3>1. PICK i \in 1..Len(out) :
            /\ i = 1 \/ out[i].join = "or"
            /\ \A k \in i..Len(out) :
                  (\A l \in (i + 1)..k : out[l].join = "and") => row \in out[k].rows
      BY <2>1, <1>1 DEF Meant
    <3>2. i = 1
      <4>1. i # 1 => i \in 2..Len(out)
        BY <1>1
      <4> QED BY <4>1, <3>1
    <3>3. \A l \in 2..j : l \in 2..Len(out)
      BY <1>1
    <3>4. j \in 1..Len(out) /\ 1 + 1 = 2
      OBVIOUS
    <3> QED BY <3>1, <3>2, <3>3, <3>4
  <2>2. ASSUME \A j \in 1..Len(out) : row \in out[j].rows PROVE row \in Meant(out)
    <3>1. 1 \in 1..Len(out)
      BY <1>1
    <3> QED BY <3>1, <2>2, <1>1 DEF Meant
  <2> QED BY <2>1, <2>2
<1>3. Meant(out) \subseteq TableRows
  BY DEF Meant
<1> QED BY <1>2, <1>3

LEMMA MeantOr ==
    ASSUME NEW out \in Seq(Piece), out # <<>>, \A i \in 2..Len(out) : out[i].join = "or"
    PROVE  Meant(out) = {row \in TableRows : \E i \in 1..Len(out) : row \in out[i].rows}
<1>1. Len(out) \in Nat \ {0} /\ DOMAIN out = 1..Len(out)
  BY EmptySeq, LenProperties
<1>2. ASSUME NEW row \in TableRows PROVE row \in Meant(out) <=> \E i \in 1..Len(out) : row \in out[i].rows
  <2>1. ASSUME row \in Meant(out) PROVE \E i \in 1..Len(out) : row \in out[i].rows
    <3>1. PICK i \in 1..Len(out) :
            \A k \in i..Len(out) : (\A l \in (i + 1)..k : out[l].join = "and") => row \in out[k].rows
      BY <2>1, <1>1 DEF Meant
    <3>2. i \in i..Len(out) /\ \A l \in (i + 1)..i : FALSE
      BY <1>1
    <3> QED BY <3>1, <3>2
  <2>2. ASSUME NEW i \in 1..Len(out), row \in out[i].rows PROVE row \in Meant(out)
    <3>1. i = 1 \/ out[i].join = "or"
      <4>1. i # 1 => i \in 2..Len(out)
        BY <1>1
      <4> QED BY <4>1
    <3>2. ASSUME NEW j \in i..Len(out), \A k \in (i + 1)..j : out[k].join = "and"
          PROVE  row \in out[j].rows
      <4>1. CASE j = i
        BY <4>1, <2>2
      <4>2. CASE j # i
        <5>1. i + 1 \in (i + 1)..j /\ i + 1 \in 2..Len(out)
          BY <4>2, <1>1
        <5>2. out[i + 1].join = "and" /\ out[i + 1].join = "or"
          BY <5>1, <3>2
        <5> QED BY <5>2
      <4> QED BY <4>1, <4>2
    <3> QED BY <3>1, <3>2, <1>1 DEF Meant
  <2> QED BY <2>1, <2>2
<1>3. Meant(out) \subseteq TableRows
  BY DEF Meant
<1> QED BY <1>2, <1>3

\* One more piece, of the same join.
LEMMA MeantMore ==
    ASSUME NEW out \in Seq(Piece), out # <<>>, NEW piece \in Piece,
           \A i \in 2..Len(out) : out[i].join = piece.join
    PROVE  /\ piece.join = "and" => Meant(Append(out, piece)) = Meant(out) \intersect piece.rows
           /\ piece.join = "or" => Meant(Append(out, piece)) = Meant(out) \union piece.rows
<1> DEFINE more == Append(out, piece)
<1>0. Len(out) \in Nat \ {0}
  BY EmptySeq, LenProperties
<1>1. /\ more \in Seq(Piece) /\ more # <<>> /\ Len(more) = Len(out) + 1
      /\ \A i \in 1..Len(out) : more[i] = out[i]
      /\ more[Len(out) + 1] = piece
  BY AppendProperties
<1> HIDE DEF more
<1>2. ASSUME NEW i \in 1..Len(more) PROVE i \in 1..Len(out) \/ i = Len(out) + 1
  BY <1>0, <1>1
<1>3. \A i \in 1..Len(out) : i \in 1..Len(more)
  BY <1>0, <1>1
<1>4. Len(out) + 1 \in 1..Len(more)
  BY <1>0, <1>1
<1>5. ASSUME NEW i \in 2..Len(more) PROVE more[i].join = piece.join
  <2>1. i \in 2..Len(out) \/ i = Len(out) + 1
    BY <1>0, <1>1
  <2>2. \A k \in 2..Len(out) : k \in 1..Len(out)
    BY <1>0
  <2> QED BY <2>1, <2>2, <1>1
<1>6. piece.rows \subseteq TableRows
  BY DEF Piece
<1>7. ASSUME piece.join = "and" PROVE Meant(more) = Meant(out) \intersect piece.rows
  <2>1. Meant(out) = {row \in TableRows : \A i \in 1..Len(out) : row \in out[i].rows}
    BY <1>7, MeantAnd
  <2>2. Meant(more) = {row \in TableRows : \A i \in 1..Len(more) : row \in more[i].rows}
    BY <1>7, <1>1, <1>5, MeantAnd
  <2> QED BY <2>1, <2>2, <1>1, <1>2, <1>3, <1>4
<1>8. ASSUME piece.join = "or" PROVE Meant(more) = Meant(out) \union piece.rows
  <2>1. Meant(out) = {row \in TableRows : \E i \in 1..Len(out) : row \in out[i].rows}
    BY <1>8, MeantOr
  <2>2. Meant(more) = {row \in TableRows : \E i \in 1..Len(more) : row \in more[i].rows}
    BY <1>8, <1>1, <1>5, MeantOr
  <2> QED BY <2>1, <2>2, <1>1, <1>2, <1>3, <1>4, <1>6
<1> QED BY <1>7, <1>8 DEF more

LEMMA MeantOne ==
    ASSUME NEW piece \in Piece
    PROVE  <<piece>> \in Seq(Piece) /\ Len(<<piece>>) = 1 /\ Meant(<<piece>>) = piece.rows
<1>1. <<piece>> \in Seq(Piece) /\ Len(<<piece>>) = 1 /\ <<piece>>[1] = piece /\ <<piece>> # <<>>
  OBVIOUS
<1>2. \A i \in 2..1 : FALSE
  OBVIOUS
<1>3. Meant(<<piece>>) = {row \in TableRows : \A i \in 1..1 : row \in <<piece>>[i].rows}
  BY <1>1, <1>2, MeantAnd
<1>4. \A i \in 1..1 : i = 1
  OBVIOUS
<1>5. 1 \in 1..1 /\ piece.rows \subseteq TableRows
  BY DEF Piece
<1> QED BY <1>1, <1>3, <1>4, <1>5

\* One more row of the stack, read from the top.
Said(chips, n) == {i \in 1..n : InForce(chips[i])}

LEMMA ReadMore ==
    ASSUME NEW chips \in Seq(Chip), NEW n \in 1..Len(chips)
    PROVE  /\ ~InForce(chips[n]) => /\ Said(chips, n) = Said(chips, n - 1)
                                    /\ ReadTo(chips, n) = ReadTo(chips, n - 1)
           /\ InForce(chips[n]) =>
                /\ Said(chips, n) = Said(chips, n - 1) \union {n}
                /\ Said(chips, n - 1) = {} => ReadTo(chips, n) = ToSql(chips[n])
                /\ Said(chips, n - 1) # {} /\ chips[n].join = "and" =>
                     ReadTo(chips, n) = ReadTo(chips, n - 1) \intersect ToSql(chips[n])
                /\ Said(chips, n - 1) # {} /\ chips[n].join = "or" =>
                     ReadTo(chips, n) = ReadTo(chips, n - 1) \union ToSql(chips[n])
<1> DEFINE before == Said(chips, n - 1)
           read(said, row) == \E i \in said :
                /\ chips[i].join = "or" \/ \A j \in said : i <= j
                /\ row \in ToSql(chips[i])
                /\ \A k \in said : k > i /\ chips[k].join = "and" => row \in ToSql(chips[k])
<1>1. n \in Nat \ {0} /\ n - 1 \in Nat
  OBVIOUS
<1>2. \A i \in 1..(n - 1) : i \in 1..n /\ i < n
  BY <1>1
<1>3. \A i \in 1..n : i \in 1..(n - 1) \/ i = n
  BY <1>1
<1>4. n \in 1..n /\ n \notin 1..(n - 1)
  BY <1>1
<1>5. \A m \in {n - 1, n} : ReadTo(chips, m) = IF Said(chips, m) = {} THEN TableRows
                                  ELSE {row \in TableRows : read(Said(chips, m), row)}
  BY DEF ReadTo, Said
<1>6. ~InForce(chips[n]) => Said(chips, n) = before
  BY <1>2, <1>3 DEF Said
<1>7. InForce(chips[n]) => Said(chips, n) = before \union {n}
  BY <1>2, <1>3, <1>4 DEF Said
<1>8. \A i \in before : i \in Nat /\ i < n
  BY <1>2 DEF Said
<1> HIDE DEF before
<1>9. ~InForce(chips[n]) => ReadTo(chips, n) = ReadTo(chips, n - 1)
  <2>1. Said(chips, n - 1) = before /\ n - 1 \in {n - 1, n} /\ n \in {n - 1, n}
    BY DEF before
  <2> DEFINE rows(said) == {row \in TableRows : read(said, row)}
  <2> HIDE DEF read
  <2>2. ReadTo(chips, n) = IF Said(chips, n) = {} THEN TableRows ELSE rows(Said(chips, n))
    BY <1>5, <2>1
  <2>3. ReadTo(chips, n - 1) = IF before = {} THEN TableRows ELSE rows(before)
    BY <1>5, <2>1
  <2> HIDE DEF rows
  <2> QED BY <2>2, <2>3, <1>6
<1>10. ASSUME InForce(chips[n]) PROVE ToSql(chips[n]) \subseteq TableRows
  <2>1. chips[n] \in Chip
    BY ElementOfSeq
  <2> QED BY <1>10, <2>1, ToSqlIs DEF InForce
<1>11. InForce(chips[n]) => ReadTo(chips, n) = {row \in TableRows : read(before \union {n}, row)}
  BY <1>5, <1>7
<1>12. before # {} => ReadTo(chips, n - 1) = {row \in TableRows : read(before, row)}
  BY <1>5 DEF before
<1>13. ASSUME InForce(chips[n]), before = {} PROVE ReadTo(chips, n) = ToSql(chips[n])
  <2>1. \A row : read({n}, row) <=> row \in ToSql(chips[n])
    BY <1>1
  <2>2. before \union {n} = {n}
    BY <1>13
  <2> HIDE DEF read
  <2>3. ReadTo(chips, n) = {row \in TableRows : read({n}, row)}
    BY <1>11, <1>13, <2>2
  <2> QED BY <2>1, <2>3, <1>13, <1>10
<1>14. ASSUME before # {}, chips[n].join = "and", NEW row
       PROVE  read(before \union {n}, row) <=> read(before, row) /\ row \in ToSql(chips[n])
  <2>1. ASSUME read(before \union {n}, row) PROVE read(before, row) /\ row \in ToSql(chips[n])
    <3>1. PICK i \in before \union {n} :
            /\ chips[i].join = "or" \/ \A j \in before \union {n} : i <= j
            /\ row \in ToSql(chips[i])
            /\ \A k \in before \union {n} : k > i /\ chips[k].join = "and" => row \in ToSql(chips[k])
      BY <2>1
    <3>2. i # n
      BY <3>1, <1>8, <1>1, <1>14
    <3>3. i \in before /\ n > i
      BY <3>2, <1>8, <1>1
    <3>4. row \in ToSql(chips[n])
      BY <3>1, <3>3, <1>14
    <3> QED BY <3>1, <3>3, <3>4
  <2>2. ASSUME read(before, row), row \in ToSql(chips[n]) PROVE read(before \union {n}, row)
    <3>1. PICK i \in before :
            /\ chips[i].join = "or" \/ \A j \in before : i <= j
            /\ row \in ToSql(chips[i])
            /\ \A k \in before : k > i /\ chips[k].join = "and" => row \in ToSql(chips[k])
      BY <2>2
    <3>2. i <= n
      BY <1>8, <1>1
    <3> QED BY <3>1, <3>2, <2>2
  <2> QED BY <2>1, <2>2
<1>15. ASSUME before # {}, chips[n].join = "or", NEW row
       PROVE  read(before \union {n}, row) <=> read(before, row) \/ row \in ToSql(chips[n])
  <2>1. ASSUME read(before \union {n}, row) PROVE read(before, row) \/ row \in ToSql(chips[n])
    <3>1. PICK i \in before \union {n} :
            /\ chips[i].join = "or" \/ \A j \in before \union {n} : i <= j
            /\ row \in ToSql(chips[i])
            /\ \A k \in before \union {n} : k > i /\ chips[k].join = "and" => row \in ToSql(chips[k])
      BY <2>1
    <3> QED BY <3>1
  <2>2. ASSUME read(before, row) PROVE read(before \union {n}, row)
    <3>1. PICK i \in before :
            /\ chips[i].join = "or" \/ \A j \in before : i <= j
            /\ row \in ToSql(chips[i])
            /\ \A k \in before : k > i /\ chips[k].join = "and" => row \in ToSql(chips[k])
      BY <2>2
    <3>2. i <= n
      BY <1>8, <1>1
    <3> QED BY <3>1, <3>2, <1>15
  <2>3. ASSUME row \in ToSql(chips[n]) PROVE read(before \union {n}, row)
    <3>1. \A k \in before \union {n} : ~(k > n)
      BY <1>8, <1>1
    <3> QED BY <3>1, <2>3, <1>15
  <2> QED BY <2>1, <2>2, <2>3
<1> HIDE DEF read
<1>16. ASSUME InForce(chips[n]), before # {}, chips[n].join = "and"
       PROVE  ReadTo(chips, n) = ReadTo(chips, n - 1) \intersect ToSql(chips[n])
  BY <1>16, <1>11, <1>12, <1>14
<1>17. ASSUME InForce(chips[n]), before # {}, chips[n].join = "or"
       PROVE  ReadTo(chips, n) = ReadTo(chips, n - 1) \union ToSql(chips[n])
  BY <1>17, <1>11, <1>12, <1>15, <1>10
<1> QED BY <1>6, <1>7, <1>9, <1>13, <1>16, <1>17 DEF before

\* A clause says what the first n rows do.
SaysTo(chips, n, clause) ==
    /\ clause = [out |-> clause.out, joined |-> clause.joined]
    /\ clause.out \in Seq(Piece)
    /\ clause.out = <<>> <=> Said(chips, n) = {}
    /\ clause.out = <<>> => clause.joined = Nothing
    /\ clause.joined \in {Nothing, "and", "or"}
    /\ clause.joined = Nothing => Len(clause.out) <= 1
    /\ \A i \in 2..Len(clause.out) : clause.out[i].join = clause.joined
    /\ clause.out # <<>> => Meant(clause.out) = ReadTo(chips, n)

LEMMA JoinedSays ==
    ASSUME NEW chips \in Seq(Chip), NEW n \in 1..Len(chips), InForce(chips[n]),
           NEW clause, SaysTo(chips, n - 1, clause)
    PROVE  SaysTo(chips, n, Joined(clause, chips[n]))
<1> DEFINE piece == [join |-> chips[n].join, rows |-> ToSql(chips[n])]
           next == Joined(clause, chips[n])
<1>1. piece \in Piece /\ piece.join = chips[n].join /\ piece.rows = ToSql(chips[n])
      /\ piece.join \in {"and", "or"}
  <2>1. chips[n] \in Chip
    BY ElementOfSeq
  <2>2. ToSql(chips[n]) \in SUBSET TableRows
    BY <2>1, ToSqlIs DEF InForce
  <2> QED BY <2>1, <2>2 DEF Chip, Piece
<1>2. n \in Said(chips, n)
  BY DEF Said
<1> HIDE DEF piece
<1>3. CASE clause.out = <<>>
  <2>1. next = [clause EXCEPT !.out = <<piece>>]
    BY <1>3 DEF Joined, piece
  <2>2. next.out = <<piece>> /\ next.joined = Nothing /\ next = [out |-> <<piece>>, joined |-> Nothing]
    BY <2>1, <1>3 DEF SaysTo
  <2>3. <<piece>> \in Seq(Piece) /\ Len(<<piece>>) = 1 /\ Meant(<<piece>>) = piece.rows /\ <<piece>> # <<>>
    BY <1>1, MeantOne
  <2>4. ReadTo(chips, n) = ToSql(chips[n])
    BY <1>3, ReadMore DEF SaysTo
  <2>5. \A i \in 2..1 : FALSE
    OBVIOUS
  <2> QED BY <2>2, <2>3, <2>4, <2>5, <1>1, <1>2 DEF SaysTo
<1>4. CASE clause.out # <<>>
  <2> DEFINE base == IF clause.joined \in {Nothing, piece.join} THEN clause.out ELSE Bracketed(clause.out)
  <2>1. next = [out |-> Append(base, piece), joined |-> piece.join]
    BY <1>1, <1>4 DEF Joined, piece
  <2>2. clause.out \in Seq(Piece) /\ Len(clause.out) \in Nat \ {0} /\ Meant(clause.out) = ReadTo(chips, n - 1)
        /\ Said(chips, n - 1) # {}
    BY <1>4, EmptySeq DEF SaysTo
  <2>3. base \in Seq(Piece) /\ base # <<>> /\ Meant(base) = Meant(clause.out)
        /\ \A i \in 2..Len(base) : base[i].join = piece.join
    <3>1. CASE clause.joined \in {Nothing, piece.join}
      <4>1. base = clause.out
        BY <3>1
      <4> HIDE DEF base
      <4>2. \A i \in 2..Len(base) : base[i].join = piece.join
        <5>1. CASE clause.joined = Nothing
          BY <5>1, <4>1, <2>2 DEF SaysTo
        <5>2. CASE clause.joined = piece.join
          BY <5>2, <4>1 DEF SaysTo
        <5> QED BY <5>1, <5>2, <3>1
      <4> QED BY <4>1, <4>2, <2>2, <1>4
    <3>2. CASE clause.joined \notin {Nothing, piece.join}
      <4> DEFINE whole == [join |-> "and", rows |-> Meant(clause.out)]
      <4>1. base = <<whole>>
        BY <3>2 DEF Bracketed
      <4>2. whole \in Piece /\ whole.rows = Meant(clause.out)
        BY DEF Piece, Meant
      <4> HIDE DEF whole, base
      <4>3. <<whole>> \in Seq(Piece) /\ Len(<<whole>>) = 1 /\ Meant(<<whole>>) = whole.rows /\ <<whole>> # <<>>
        BY <4>2, MeantOne
      <4>4. \A i \in 2..1 : FALSE
        OBVIOUS
      <4> QED BY <4>1, <4>2, <4>3, <4>4
    <3> QED BY <3>1, <3>2
  <2> HIDE DEF base
  <2>4. /\ Append(base, piece) \in Seq(Piece) /\ Append(base, piece) # <<>>
        /\ Len(Append(base, piece)) = Len(base) + 1 /\ Len(base) \in Nat
        /\ \A i \in 1..Len(base) : Append(base, piece)[i] = base[i]
        /\ Append(base, piece)[Len(base) + 1] = piece
    BY <1>1, <2>3, AppendProperties
  <2>5. /\ piece.join = "and" => Meant(Append(base, piece)) = Meant(base) \intersect piece.rows
        /\ piece.join = "or" => Meant(Append(base, piece)) = Meant(base) \union piece.rows
    BY <1>1, <2>3, MeantMore
  <2>6. Meant(Append(base, piece)) = ReadTo(chips, n)
    <3>1. CASE piece.join = "and"
      <4>1. ReadTo(chips, n) = ReadTo(chips, n - 1) \intersect ToSql(chips[n])
        BY <3>1, <1>1, <2>2, ReadMore
      <4> QED BY <4>1, <3>1, <1>1, <2>2, <2>3, <2>5
    <3>2. CASE piece.join = "or"
      <4>1. ReadTo(chips, n) = ReadTo(chips, n - 1) \union ToSql(chips[n])
        BY <3>2, <1>1, <2>2, ReadMore
      <4> QED BY <4>1, <3>2, <1>1, <2>2, <2>3, <2>5
    <3> QED BY <3>1, <3>2, <1>1
  <2>7. \A i \in 2..Len(Append(base, piece)) : Append(base, piece)[i].join = piece.join
    <3> TAKE i \in 2..Len(Append(base, piece))
    <3>1. CASE i = Len(base) + 1
      BY <3>1, <2>4
    <3>2. CASE i # Len(base) + 1
      <4>1. i \in 2..Len(base) /\ i \in 1..Len(base)
        BY <3>2, <2>4
      <4> QED BY <4>1, <2>3, <2>4
    <3> QED BY <3>1, <3>2
  <2>8. piece.join # Nothing
    BY <1>1, BrowseAssumption
  <2>9. next.out = Append(base, piece) /\ next.joined = piece.join
        /\ next = [out |-> next.out, joined |-> next.joined]
    BY <2>1
  <2> HIDE DEF next
  <2>10. SaysTo(chips, n, next)
    BY <2>4, <2>6, <2>7, <2>8, <2>9, <1>1, <1>2 DEF SaysTo
  <2> QED BY <2>10 DEF next
<1> QED BY <1>3, <1>4

LEMMA ClausesSay ==
    ASSUME NEW chips \in Seq(Chip)
    PROVE  \A n \in 0..Len(chips) : SaysTo(chips, n, Clauses(chips)[n])
<1> DEFINE Bad == {n \in 0..Len(chips) : ~SaysTo(chips, n, Clauses(chips)[n])}
<1>1. SUFFICES ASSUME Bad # {} PROVE FALSE
  OBVIOUS
<1>2. PICK n \in Bad : \A m \in Bad : n <= m
  <2>1. Bad \in SUBSET Nat
    OBVIOUS
  <2> HIDE DEF Bad
  <2> QED BY <1>1, <2>1, Least
<1>3. n # 0
  <2>1. Clauses(chips)[0] = [out |-> <<>>, joined |-> Nothing]
    BY ClausesAre
  <2>2. Said(chips, 0) = {}
    BY DEF Said
  <2>3. <<>> \in Seq(Piece) /\ Len(<<>>) = 0
    BY EmptySeq
  <2>4. \A i \in 2..0 : FALSE
    OBVIOUS
  <2>5. SaysTo(chips, 0, Clauses(chips)[0])
    BY <2>1, <2>2, <2>3, <2>4 DEF SaysTo
  <2> QED BY <2>5
<1>4. n \in 1..Len(chips) /\ n - 1 \in 0..Len(chips)
  BY <1>3
<1>5. n - 1 \notin Bad
  BY <1>2, <1>4
<1>6. SaysTo(chips, n - 1, Clauses(chips)[n - 1])
  BY <1>4, <1>5
<1>7. Clauses(chips)[n] = IF InForce(chips[n]) THEN Joined(Clauses(chips)[n - 1], chips[n])
                                               ELSE Clauses(chips)[n - 1]
  BY <1>4, ClausesAre
<1>8. SaysTo(chips, n, Clauses(chips)[n])
  <2>1. CASE InForce(chips[n])
    BY <2>1, <1>4, <1>6, <1>7, JoinedSays
  <2>2. CASE ~InForce(chips[n])
    <3>1. Said(chips, n) = Said(chips, n - 1) /\ ReadTo(chips, n) = ReadTo(chips, n - 1)
      BY <2>2, <1>4, ReadMore
    <3> QED BY <3>1, <2>2, <1>6, <1>7 DEF SaysTo
  <2> QED BY <2>1, <2>2
<1> QED BY <1>8

LEMMA PredicateReads ==
    ASSUME NEW chips \in Seq(Chip)
    PROVE  Predicate(chips) = ReadDown(chips) /\ Predicate(chips) \in SUBSET TableRows
<1>1. SaysTo(chips, Len(chips), Clauses(chips)[Len(chips)])
  BY ClausesSay
<1>2. ReadTo(chips, Len(chips)) = IF Said(chips, Len(chips)) = {} THEN TableRows
                                  ELSE ReadTo(chips, Len(chips))
  BY DEF ReadTo, Said
<1>3. Predicate(chips) = ReadDown(chips)
  BY <1>1, <1>2 DEF Predicate, ReadDown, SaysTo
<1>4. Predicate(chips) \in SUBSET TableRows
  BY DEF Predicate, Meant
<1> QED BY <1>3, <1>4
-----------------------------------------------------------------------------
(* The pages.                                                              *)
LEMMA FollowsIs ==
    ASSUME NEW stmt \in Statements, stmt.keyed, NEW a \in TableRows, NEW b \in TableRows,
           Follows(stmt, a, b), Follows(stmt, b, a)
    PROVE  FALSE
<1>1. a \in Nat /\ b \in Nat /\ Rank[a] \in Nat /\ Rank[b] \in Nat
  BY BrowseAssumption
<1>2. CASE stmt.order = Nothing
  BY <1>1, <1>2 DEF Follows
<1>3. CASE stmt.order # Nothing
  BY <1>1, <1>3 DEF Follows
<1> QED BY <1>2, <1>3

\* The rows of a statement, in an order they may come in.
Orders(stmt) ==
    {o \in SetToSeqs(stmt.where) : \A i, j \in DOMAIN o : i < j => Follows(stmt, o[i], o[j])}

LEMMA OrderIs ==
    ASSUME NEW stmt \in Statements, NEW o \in Orders(stmt)
    PROVE  /\ Cardinality(stmt.where) \in Nat
           /\ o \in [1..Cardinality(stmt.where) -> stmt.where]
           /\ o \in Seq(stmt.where) /\ Len(o) = Cardinality(stmt.where)
           /\ \A i, j \in 1..Len(o) : o[i] = o[j] => i = j
           /\ \A i, j \in 1..Len(o) : i < j => Follows(stmt, o[i], o[j])
           /\ \A row \in stmt.where : \E i \in 1..Len(o) : o[i] = row
<1> DEFINE n == Cardinality(stmt.where)
<1>1. stmt.where \subseteq TableRows
  BY DEF Statements
<1>2. IsFiniteSet(stmt.where) /\ n \in Nat
  BY <1>1, BrowseAssumption, FS_Subset, FS_CardinalityType
<1>3. o \in [1..n -> stmt.where] /\ \A i, j \in 1..n : i # j => o[i] # o[j]
  BY DEF Orders, SetToSeqs
<1>4. \A i, j \in DOMAIN o : i < j => Follows(stmt, o[i], o[j])
  BY DEF Orders
<1>5. 1..n = DOMAIN o
  BY <1>3
<1>6. o \in Injection(1..n, stmt.where)
  BY <1>3, <1>5 DEF Injection, IsInjective
<1>7. IsFiniteSet(1..n) /\ Cardinality(1..n) = n
  <2>1. 1 \in Int /\ n \in Int
    BY <1>2
  <2>2. IsFiniteSet(1..n) /\ Cardinality(1..n) = IF 1 > n THEN 0 ELSE n - 1 + 1
    BY <2>1, FS_Interval
  <2> QED BY <1>2, <2>2
<1> HIDE DEF n
<1>8. o \in Surjection(1..n, stmt.where)
  BY <1>6, <1>7, <1>2, FS_Injection DEF n
<1>9. \A row \in stmt.where : \E i \in 1..n : o[i] = row
  BY <1>8 DEF Surjection
<1>10. o \in Seq(stmt.where) /\ Len(o) = n
  BY <1>2, <1>3
<1> QED BY <1>2, <1>3, <1>4, <1>5, <1>9, <1>10 DEF n

\* Ordered by the key there is but one order.
LEMMA OneOrder ==
    ASSUME NEW stmt \in Statements, stmt.keyed, NEW o \in Orders(stmt), NEW p \in Orders(stmt)
    PROVE  o = p
<1> DEFINE n == Cardinality(stmt.where)
           Bad == {i \in 1..n : o[i] # p[i]}
<1>1. /\ n \in Nat /\ o \in [1..n -> stmt.where] /\ Len(o) = n
      /\ \A i, j \in 1..n : o[i] = o[j] => i = j
      /\ \A i, j \in 1..n : i < j => Follows(stmt, o[i], o[j])
      /\ \A row \in stmt.where : \E i \in 1..n : o[i] = row
  <2>1. n \in Nat /\ o \in [1..n -> stmt.where] /\ Len(o) = n
    BY OrderIs
  <2>2. \A i, j \in 1..n : o[i] = o[j] => i = j
    BY <2>1, OrderIs
  <2>3. \A i, j \in 1..n : i < j => Follows(stmt, o[i], o[j])
    BY <2>1, OrderIs
  <2>4. \A row \in stmt.where : \E i \in 1..n : o[i] = row
    BY <2>1, OrderIs
  <2> QED BY <2>1, <2>2, <2>3, <2>4
<1>2. /\ p \in [1..n -> stmt.where] /\ Len(p) = n
      /\ \A i, j \in 1..n : p[i] = p[j] => i = j
      /\ \A i, j \in 1..n : i < j => Follows(stmt, p[i], p[j])
      /\ \A row \in stmt.where : \E i \in 1..n : p[i] = row
  <2>1. n \in Nat /\ p \in [1..n -> stmt.where] /\ Len(p) = n
    BY OrderIs
  <2>2. \A i, j \in 1..n : p[i] = p[j] => i = j
    BY <2>1, OrderIs
  <2>3. \A i, j \in 1..n : i < j => Follows(stmt, p[i], p[j])
    BY <2>1, OrderIs
  <2>4. \A row \in stmt.where : \E i \in 1..n : p[i] = row
    BY <2>1, OrderIs
  <2> QED BY <2>1, <2>2, <2>3, <2>4
<1> HIDE DEF n
<1>3. SUFFICES ASSUME Bad # {} PROVE FALSE
  BY <1>1, <1>2
<1>4. PICK k \in Bad : \A m \in Bad : k <= m
  <2>1. Bad \in SUBSET Nat
    BY <1>1
  <2> HIDE DEF Bad
  <2> QED BY <1>3, <2>1, Least
<1>5. k \in 1..n /\ o[k] # p[k] /\ \A m \in 1..n : m < k => o[m] = p[m]
  <2>1. \A m \in 1..n : m < k => ~(k <= m)
    BY <1>4
  <2> QED BY <1>4, <2>1
<1>6. o[k] \in stmt.where /\ p[k] \in stmt.where
  BY <1>1, <1>2, <1>5
<1>7. PICK i \in 1..n : o[i] = p[k]
  BY <1>1, <1>6
<1>8. PICK j \in 1..n : p[j] = o[k]
  BY <1>2, <1>6
<1>9. k < i
  <2>1. i # k
    BY <1>5, <1>7
  <2>2. ~(i < k)
    BY <1>2, <1>5, <1>7
  <2> QED BY <2>1, <2>2, <1>1, <1>5
<1>10. k < j
  <2>1. j # k
    BY <1>5, <1>8
  <2>2. ~(j < k)
    BY <1>1, <1>5, <1>8
  <2> QED BY <2>1, <2>2, <1>1, <1>5
<1>11. Follows(stmt, o[k], p[k]) /\ Follows(stmt, p[k], o[k])
  BY <1>1, <1>2, <1>5, <1>7, <1>8, <1>9, <1>10
<1>12. stmt.where \subseteq TableRows
  BY DEF Statements
<1> QED BY <1>6, <1>11, <1>12, FollowsIs

LEMMA PagesApart ==
    ASSUME NEW p \in Nat, NEW q \in Nat, p < q
    PROVE  (p + 1) * PageSize <= q * PageSize
<1> DEFINE d == q - (p + 1)
<1>1. d \in Nat /\ q = (p + 1) + d /\ PageSize \in Nat /\ p + 1 \in Nat
  BY BrowseAssumption
<1> HIDE DEF d
<1>2. q * PageSize = (p + 1) * PageSize + d * PageSize
  BY <1>1, SMT
<1>3. d * PageSize \in Nat /\ (p + 1) * PageSize \in Nat
  BY <1>1, SMT
<1> QED BY <1>2, <1>3

\* A page is a stretch of an order.
LEMMA PageIs ==
    ASSUME NEW stmt \in Statements, NEW rows \in Answers(stmt)
    PROVE  \E o \in Orders(stmt) : \A row \in Range(rows) : \E i \in 1..Len(o) :
              /\ o[i] = row /\ stmt.page * PageSize < i /\ i <= (stmt.page + 1) * PageSize
<1> DEFINE from == stmt.page * PageSize
           upto == (stmt.page + 1) * PageSize
<1>1. PICK o \in Orders(stmt) : rows = Page(o, stmt.page)
  BY DEF Answers, Orders
<1>2. stmt.page \in Nat /\ from \in Nat /\ upto \in Nat
  BY BrowseAssumption, SMT DEF Statements
<1>3. o \in Seq(stmt.where) /\ Len(o) \in Nat
  BY OrderIs
<1> DEFINE first == from + 1
           last == IF upto < Len(o) THEN upto ELSE Len(o)
<1>4. rows = SubSeq(o, first, last)
  BY <1>1 DEF Page
<1>5. first \in Nat /\ last \in Nat /\ last <= upto /\ last <= Len(o) /\ from < first /\ 1 <= first
  BY <1>2, <1>3
<1> HIDE DEF from, upto, first, last
<1>6. \A i \in first..last : i \in 1..Len(o)
  BY <1>5, <1>3
<1>7. CASE first <= last
  <2>1. \A i \in first..last : o[i] \in stmt.where
    BY <1>3, <1>6
  <2>2. /\ rows \in Seq(stmt.where) /\ Len(rows) = last - first + 1
        /\ \A i \in 1..(last - first + 1) : rows[i] = o[first + i - 1]
    <3> DEFINE page == SubSeq(o, first, last)
    <3>1. first \in Int /\ last \in Int
      BY <1>5
    <3>2. page \in Seq(stmt.where)
      BY <2>1, <3>1, SubSeqProperties
    <3>3. Len(page) = IF first <= last THEN last - first + 1 ELSE 0
      BY <2>1, <3>1, SubSeqProperties
    <3>4. \A i \in 1..(last - first + 1) : page[i] = o[first + i - 1]
      BY <2>1, <3>1, SubSeqProperties
    <3> HIDE DEF page
    <3>5. rows = page
      BY <1>4 DEF page
    <3> QED BY <3>2, <3>3, <3>4, <3>5, <1>7
  <2>3. DOMAIN rows = 1..(last - first + 1)
    BY <2>2
  <2>4. ASSUME NEW row \in Range(rows)
        PROVE  \E i \in 1..Len(o) : o[i] = row /\ from < i /\ i <= upto
    <3>1. PICK j \in 1..(last - first + 1) : rows[j] = row
      BY <2>3 DEF Range
    <3>2. first + j - 1 \in 1..Len(o) /\ from < first + j - 1 /\ first + j - 1 <= upto
      BY <1>5, <1>3, <1>2
    <3> QED BY <3>1, <3>2, <2>2
  <2> QED BY <2>4 DEF from, upto
<1>8. CASE ~(first <= last)
  <2>1. rows = <<>>
    BY <1>4, <1>5, <1>8, SubSeqEmpty
  <2>2. <<>> \in Seq({})
    OBVIOUS
  <2>3. DOMAIN rows = 1..0
    BY <2>1, <2>2, LenProperties, EmptySeq
  <2>4. Range(rows) = {}
    BY <2>3 DEF Range
  <2> QED BY <2>4
<1> QED BY <1>7, <1>8

\* Two pages of one order have no row in common.
LEMMA NoneTwice ==
    ASSUME NEW was \in Statements, NEW is \in Statements,
           [was EXCEPT !.page = is.page] = is, was.page # is.page, is.keyed,
           NEW rows \in Answers(was), NEW more \in Answers(is)
    PROVE  Range(rows) \intersect Range(more) = {}
<1>1. /\ was.relation = is.relation /\ was.where = is.where /\ was.order = is.order
      /\ was.keyed = is.keyed /\ was.page \in Nat /\ is.page \in Nat
  BY DEF Statements
<1>2. Orders(was) = Orders(is)
  BY <1>1 DEF Orders, Follows
<1>3. PICK o \in Orders(was) : \A row \in Range(rows) : \E i \in 1..Len(o) :
              /\ o[i] = row /\ was.page * PageSize < i /\ i <= (was.page + 1) * PageSize
  BY PageIs
<1>4. PICK q \in Orders(is) : \A row \in Range(more) : \E i \in 1..Len(q) :
              /\ q[i] = row /\ is.page * PageSize < i /\ i <= (is.page + 1) * PageSize
  BY PageIs
<1>5. o = q
  BY <1>1, <1>2, OneOrder
<1>6. \A i, j \in 1..Len(o) : o[i] = o[j] => i = j
  BY OrderIs
<1> SUFFICES ASSUME NEW row \in Range(rows), row \in Range(more) PROVE FALSE
  OBVIOUS
<1> DEFINE a == was.page * PageSize
           aa == (was.page + 1) * PageSize
           b == is.page * PageSize
           bb == (is.page + 1) * PageSize
<1>7. PICK i \in 1..Len(o) : o[i] = row /\ a < i /\ i <= aa
  BY <1>3
<1>8. PICK j \in 1..Len(o) : o[j] = row /\ b < j /\ j <= bb
  BY <1>4, <1>5
<1>9. i = j
  BY <1>6, <1>7, <1>8
<1>10. a \in Nat /\ aa \in Nat /\ b \in Nat /\ bb \in Nat
  <2>1. PageSize \in Nat /\ was.page + 1 \in Nat /\ is.page + 1 \in Nat
    BY <1>1, BrowseAssumption
  <2>2. \A k \in Nat : k * PageSize \in Nat
    BY ONLY <2>1, SMT
  <2> QED BY <1>1, <2>1, <2>2
<1>11. aa <= b \/ bb <= a
  <2>1. CASE was.page < is.page
    BY <2>1, <1>1, PagesApart
  <2>2. CASE is.page < was.page
    BY <2>2, <1>1, PagesApart
  <2> QED BY <2>1, <2>2, <1>1
<1> HIDE DEF a, aa, b, bb
<1>12. Len(o) \in Nat
  BY OrderIs
<1> QED BY <1>7, <1>8, <1>9, <1>10, <1>11, <1>12
-----------------------------------------------------------------------------
(* The stack of conditions.                                                *)
\* A sequence with one of its elements taken out.
LEMMA TakenOut ==
    ASSUME NEW S, NEW s \in Seq(S), NEW n \in 1..Len(s)
    PROVE  /\ RemoveAt(s, n) \in Seq(S) /\ Len(RemoveAt(s, n)) = Len(s) - 1
           /\ \A i \in 1..(Len(s) - 1) : RemoveAt(s, n)[i] = s[IF i < n THEN i ELSE i + 1]
<1> DEFINE before == n - 1
           after == n + 1
           last == Len(s)
           a == SubSeq(s, 1, before)
           b == SubSeq(s, after, last)
<1>1. last \in Nat /\ n \in 1..last /\ before \in 0..last /\ after \in 1..(last + 1) /\ last = Len(s)
  OBVIOUS
<1>2. before = n - 1 /\ after = n + 1
  OBVIOUS
<1>3. RemoveAt(s, n) = a \o b
  BY DEF RemoveAt
<1> HIDE DEF before, after, last
<1>4. a \in Seq(S) /\ Len(a) = before /\ \A i \in 1..before : a[i] = s[i]
  <2>1. \A i \in 1..before : s[i] \in S
    BY <1>1
  <2> QED BY <1>1, <2>1
<1>5. /\ b \in Seq(S) /\ Len(b) = (last + 1) - after
      /\ \A i \in 1..((last + 1) - after) : b[i] = s[after + i - 1]
  BY <1>1, SubSeqProperties
<1> HIDE DEF a, b
<1>6. /\ a \o b \in Seq(S) /\ Len(a \o b) = Len(a) + Len(b)
      /\ \A i \in 1..(Len(a) + Len(b)) : (a \o b)[i] = IF i <= Len(a) THEN a[i] ELSE b[i - Len(a)]
  BY <1>4, <1>5, ConcatProperties
<1>7. Len(a) + Len(b) = last - 1
  BY <1>1, <1>2, <1>4, <1>5
<1>8. ASSUME NEW i \in 1..(last - 1) PROVE (a \o b)[i] = s[IF i < n THEN i ELSE i + 1]
  <2>1. (a \o b)[i] = IF i <= Len(a) THEN a[i] ELSE b[i - Len(a)]
    BY <1>6, <1>7
  <2>2. CASE i < n
    <3>1. i \in 1..before /\ i <= Len(a)
      BY <2>2, <1>1, <1>2, <1>4
    <3>2. a[i] = s[i]
      BY <3>1, <1>4
    <3> QED BY <2>1, <2>2, <3>1, <3>2
  <2>3. CASE ~(i < n)
    <3> DEFINE k == i - Len(a)
    <3>1. ~(i <= Len(a)) /\ k \in 1..((last + 1) - after) /\ after + k - 1 = i + 1
      BY <2>3, <1>1, <1>2, <1>4
    <3> HIDE DEF k
    <3>2. b[k] = s[after + k - 1]
      BY <3>1, <1>5
    <3>3. (a \o b)[i] = b[k]
      BY <2>1, <3>1 DEF k
    <3> QED BY <2>3, <3>1, <3>2, <3>3
  <2> QED BY <2>2, <2>3
<1> QED BY <1>1, <1>3, <1>6, <1>7, <1>8

\* A sequence with one more element in the middle.
LEMMA PutIn ==
    ASSUME NEW S, NEW s \in Seq(S), NEW n \in 1..Len(s), NEW e \in S
    PROVE  /\ InsertAt(s, n, e) \in Seq(S) /\ Len(InsertAt(s, n, e)) = Len(s) + 1
           /\ \A i \in 1..(n - 1) : InsertAt(s, n, e)[i] = s[i]
           /\ InsertAt(s, n, e)[n] = e
           /\ \A i \in n..Len(s) : InsertAt(s, n, e)[i + 1] = s[i]
<1> DEFINE before == n - 1
           last == Len(s)
           a == SubSeq(s, 1, before)
           b == SubSeq(s, n, last)
           c == a \o <<e>>
<1>1. last \in Nat /\ n \in 1..last /\ before \in 0..last /\ before = n - 1 /\ last = Len(s)
  OBVIOUS
<1>2. InsertAt(s, n, e) = c \o b
  BY DEF InsertAt
<1> HIDE DEF before, last
<1>3. a \in Seq(S) /\ Len(a) = before /\ \A i \in 1..before : a[i] = s[i]
  <2>1. \A i \in 1..before : s[i] \in S
    BY <1>1
  <2> QED BY <1>1, <2>1
<1>4. b \in Seq(S) /\ Len(b) = (last + 1) - n /\ \A i \in 1..((last + 1) - n) : b[i] = s[n + i - 1]
  BY <1>1, SubSeqProperties
<1> HIDE DEF a, b
<1>5. c = Append(a, e)
  BY <1>3, AppendIsConcat
<1>6. c \in Seq(S) /\ Len(c) = n /\ c[n] = e /\ \A i \in 1..before : c[i] = s[i]
  BY <1>1, <1>3, <1>5
<1> HIDE DEF c
<1>7. /\ c \o b \in Seq(S) /\ Len(c \o b) = Len(c) + Len(b)
      /\ \A i \in 1..(Len(c) + Len(b)) : (c \o b)[i] = IF i <= Len(c) THEN c[i] ELSE b[i - Len(c)]
  BY <1>4, <1>6, ConcatProperties
<1>8. Len(c) + Len(b) = last + 1
  BY <1>1, <1>4, <1>6
<1>9. ASSUME NEW i \in 1..(last + 1)
      PROVE  (c \o b)[i] = IF i < n THEN s[i] ELSE IF i = n THEN e ELSE s[i - 1]
  <2>1. (c \o b)[i] = IF i <= n THEN c[i] ELSE b[i - n]
    BY <1>6, <1>7, <1>8
  <2>2. CASE i < n
    <3>1. i \in 1..before
      BY <2>2, <1>1
    <3> QED BY <2>1, <2>2, <3>1, <1>1, <1>6
  <2>3. CASE i = n
    BY <2>1, <2>3, <1>1, <1>6
  <2>4. CASE i > n
    <3> DEFINE k == i - n
    <3>1. k \in 1..((last + 1) - n) /\ n + k - 1 = i - 1 /\ ~(i <= n)
      BY <2>4, <1>1
    <3> HIDE DEF k
    <3>2. b[k] = s[n + k - 1]
      BY <3>1, <1>4
    <3>3. (c \o b)[i] = b[k]
      BY <2>1, <3>1 DEF k
    <3> QED BY <2>4, <3>1, <3>2, <3>3, <1>1
  <2>5. i < n \/ i = n \/ i > n
    BY <1>1
  <2> QED BY <2>2, <2>3, <2>4, <2>5
<1>10. (c \o b)[n] = e
  <2>1. n \in 1..(last + 1) /\ ~(n < n)
    BY <1>1
  <2> QED BY <2>1, <1>9
<1>11. ASSUME NEW i \in 1..(n - 1) PROVE (c \o b)[i] = s[i]
  <2>1. i \in 1..(last + 1) /\ i < n
    BY <1>1
  <2> QED BY <2>1, <1>9
<1>12. ASSUME NEW i \in n..last PROVE (c \o b)[i + 1] = s[i]
  <2>1. i + 1 \in 1..(last + 1) /\ ~(i + 1 < n) /\ i + 1 # n /\ (i + 1) - 1 = i
    BY <1>1
  <2> QED BY <2>1, <1>9
<1> QED BY <1>1, <1>2, <1>7, <1>8, <1>10, <1>11, <1>12

LEMMA NewIs ==
    ASSUME NEW join \in {"and", "or"}
    PROVE  NewChip(join) \in Chip /\ ~InForce(NewChip(join))
BY DEF NewChip, Chip, InForce, Complete, TakesValue

\* A row that is not in force says nothing, wherever it is put.
LEMMA NewSaysNothing ==
    ASSUME NEW chips \in Seq(Chip), NEW p \in 1..Len(chips), NEW chip \in Chip, ~InForce(chip)
    PROVE  Predicate(InsertAt(chips, p, chip)) = Predicate(chips)
<1> DEFINE more == InsertAt(chips, p, chip)
           c == Clauses(chips)
           d == Clauses(more)
           at(n) == IF n < p THEN n ELSE n + 1
           Bad == {n \in 0..Len(chips) : d[at(n)] # c[n]}
<1>1. /\ more \in Seq(Chip) /\ Len(more) = Len(chips) + 1 /\ more[p] = chip
      /\ \A i \in 1..(p - 1) : more[i] = chips[i]
      /\ \A i \in p..Len(chips) : more[i + 1] = chips[i]
  <2>1. more \in Seq(Chip)
    BY PutIn
  <2>2. Len(more) = Len(chips) + 1
    BY PutIn
  <2>3. more[p] = chip
    BY PutIn
  <2>4. \A i \in 1..(p - 1) : more[i] = chips[i]
    BY PutIn
  <2>5. \A i \in p..Len(chips) : more[i + 1] = chips[i]
    BY PutIn
  <2> QED BY <2>1, <2>2, <2>3, <2>4, <2>5
<1>2. Len(chips) \in Nat /\ p \in 1..Len(chips)
  OBVIOUS
<1> HIDE DEF more
<1>3. /\ c[0] = [out |-> <<>>, joined |-> Nothing]
      /\ \A i \in 1..Len(chips) : c[i] = IF InForce(chips[i]) THEN Joined(c[i - 1], chips[i]) ELSE c[i - 1]
  BY ClausesAre
<1>4. /\ d[0] = [out |-> <<>>, joined |-> Nothing]
      /\ \A i \in 1..(Len(chips) + 1) : d[i] = IF InForce(more[i]) THEN Joined(d[i - 1], more[i]) ELSE d[i - 1]
  BY <1>1, ClausesAre
<1>8. Len(more) = Len(chips) + 1
  BY <1>1
<1> HIDE DEF c, d
<1>5. d[p] = d[p - 1]
  <2>1. more[p] = chip /\ p \in 1..(Len(chips) + 1)
    BY <1>1, <1>2
  <2> QED BY <2>1, <1>4
<1>6. Bad = {}
  <2>1. SUFFICES ASSUME Bad # {} PROVE FALSE
    OBVIOUS
  <2>2. PICK n \in Bad : \A m \in Bad : n <= m
    <3>1. Bad \in SUBSET Nat
      BY <1>2
    <3> HIDE DEF Bad
    <3> QED BY <2>1, <3>1, Least
  <2>3. n \in 0..Len(chips) /\ d[at(n)] # c[n]
    BY <2>2
  <2>4. n # 0
    BY <2>3, <1>2, <1>3, <1>4
  <2>5. n \in 1..Len(chips) /\ n - 1 \in 0..Len(chips)
    BY <2>3, <2>4, <1>2
  <2>6. n - 1 \notin Bad
    <3>1. ~(n <= n - 1)
      BY <2>5
    <3> HIDE DEF Bad
    <3> QED BY <3>1, <2>2
  <2>7. d[at(n - 1)] = c[n - 1]
    BY <2>5, <2>6
  <2>8. at(n) \in 1..(Len(chips) + 1) /\ more[at(n)] = chips[n]
    <3>1. CASE n < p
      <4>1. n \in 1..(Len(chips) + 1) /\ n \in 1..(p - 1)
        BY <3>1, <2>5, <1>2
      <4> QED BY <4>1, <3>1, <1>1
    <3>2. CASE ~(n < p)
      <4>1. n + 1 \in 1..(Len(chips) + 1) /\ n \in p..Len(chips)
        BY <3>2, <2>5, <1>2
      <4> QED BY <4>1, <3>2, <1>1
    <3> QED BY <3>1, <3>2
  <2>9. d[at(n) - 1] = c[n - 1]
    <3>1. CASE n < p
      <4>1. at(n) - 1 = at(n - 1)
        BY <3>1, <2>5, <1>2
      <4> QED BY <4>1, <2>7
    <3>2. CASE n = p
      <4>1. at(n) - 1 = p /\ at(n - 1) = p - 1
        BY <3>2, <2>5, <1>2
      <4> QED BY <4>1, <2>7, <1>5
    <3>3. CASE n > p
      <4>1. at(n) - 1 = at(n - 1)
        BY <3>3, <2>5, <1>2
      <4> QED BY <4>1, <2>7
    <3> QED BY <3>1, <3>2, <3>3, <2>5, <1>2
  <2> HIDE DEF at
  <2>10. d[at(n)] = IF InForce(chips[n]) THEN Joined(c[n - 1], chips[n]) ELSE c[n - 1]
    BY <2>8, <2>9, <1>4
  <2> QED BY <2>3, <2>5, <2>10, <1>3
<1>7. d[Len(chips) + 1] = c[Len(chips)]
  <2>1. Len(chips) \in 0..Len(chips) /\ ~(Len(chips) < p)
    BY <1>2
  <2> QED BY <2>1, <1>6
<1> QED BY <1>7, <1>8 DEF Predicate, c, d, more
-----------------------------------------------------------------------------
(* The invariant.  A statement for a later page names the key; rows are an *)
(* answer to what they are said to be of; what the tab in front asked is   *)
(* of its table, filter and page, and so are the rows it got.              *)
Askable == {stmt \in Statements : stmt.relation \in Keyed /\ stmt.page # 0 => stmt.keyed}
Pages == {<<>>} \union UNION {Answers(stmt) : stmt \in Statements}
Grids == {shown \in [of : Askable \union {Nothing}, rows : Pages, sort : Ways \union {Nothing}] :
            shown.of # Nothing => shown.rows \in Answers(shown.of)}
TableTab == [relation : Tables, chips : Seq(Chip), page : Nat \union {Nothing},
        cached : Grids \union {Nothing}]
Composers == [editing : Nat, chip : Chip, was : Chip, slid : BOOLEAN]

OfTab(stmt, tab) ==
    /\ stmt.relation = tab.relation /\ stmt.page = PageOf(tab)
    /\ stmt.where = Predicate(tab.chips)

Asked ==
    /\ running # Nothing => OfTab(running, Shown)
    /\ running = Nothing /\ ~error => grid.of # Nothing /\ OfTab(grid.of, Shown)

StripOK ==
    /\ tabs \in Seq(TableTab) /\ active_tab \in 1..Len(tabs)
    /\ grid \in Grids /\ pending_sort \in Ways \union {Nothing}
    /\ running \in Askable \union {Nothing} /\ (asked_here => Asked)

\* What is written is over the row it was opened on.
Over(writing, chips) ==
    writing # Nothing =>
        /\ writing \in Composers
        /\ writing.editing # 0 /\ ~writing.slid =>
              writing.editing \in 1..Len(chips) /\ chips[writing.editing] = writing.was

BrowseInv == StripOK /\ Over(composer, Chips)

LEMMA PageOfIs == ASSUME NEW tab \in TableTab PROVE PageOf(tab) \in Nat
BY DEF PageOf, TableTab

LEMMA StatementIs ==
    ASSUME NEW tab \in TableTab, NEW shown \in Grids
    PROVE  /\ Statement(tab, shown) \in Askable /\ Statement(tab, shown) # Nothing
           /\ OfTab(Statement(tab, shown), tab)
<1> DEFINE stmt == Statement(tab, shown)
<1>1. tab.relation \in Tables /\ tab.chips \in Seq(Chip) /\ PageOf(tab) \in Nat
  BY PageOfIs DEF TableTab
<1>2. Predicate(tab.chips) \in SUBSET TableRows
  BY <1>1, PredicateReads
<1>3. OrderBy(shown) \in [column_of : Tables, way : Ways] \union {Nothing}
  <2>1. CASE shown.sort = Nothing \/ shown.of = Nothing
    BY <2>1 DEF OrderBy
  <2>2. CASE ~(shown.sort = Nothing \/ shown.of = Nothing)
    <3>1. shown.of \in Statements /\ shown.sort \in Ways
      BY <2>2 DEF Grids, Askable
    <3>2. shown.of.relation \in Tables
      BY <3>1 DEF Statements
    <3> QED BY <3>1, <3>2, <2>2 DEF OrderBy
  <2> QED BY <2>1, <2>2
<1>4. Tiebreak(tab, shown) \in BOOLEAN
  BY DEF Tiebreak
<1>5. stmt = [relation |-> tab.relation, where |-> Predicate(tab.chips), page |-> PageOf(tab),
              order |-> OrderBy(shown), keyed |-> Tiebreak(tab, shown)]
  BY DEF Statement
<1> HIDE DEF stmt
<1>6. stmt \in Statements
  BY <1>1, <1>2, <1>3, <1>4, <1>5 DEF Statements
<1>7. ASSUME stmt.relation \in Keyed, stmt.page # 0 PROVE stmt.keyed
  <2>1. tab.relation \in Keyed /\ tab.page # Nothing
    BY <1>5, <1>7 DEF PageOf
  <2>2. Tiebreak(tab, shown)
    BY <2>1 DEF Tiebreak
  <2> QED BY <2>2, <1>5
<1>8. stmt # Nothing
  BY <1>6, BrowseAssumption
<1>9. OfTab(stmt, tab)
  BY <1>5 DEF OfTab
<1> QED BY <1>6, <1>7, <1>8, <1>9 DEF stmt, Askable

\* The tab in front asks: it may have turned its page, or changed its filter.
LEMMA AskKeeps ==
    ASSUME StripOK, NEW tab \in TableTab, NEW sorted \in Grids,
           tabs' = [tabs EXCEPT ![active_tab] = tab], Reloads(tab, sorted),
           active_tab' = active_tab, grid' \in Grids, pending_sort' \in Ways \union {Nothing}
    PROVE  StripOK' /\ Shown' = tab
<1>1. tabs' \in Seq(TableTab) /\ Len(tabs') = Len(tabs) /\ tabs'[active_tab] = tab
  BY ExceptSeq DEF StripOK
<1>2. Shown' = tab
  BY <1>1 DEF Shown
<1>3. running' \in Askable /\ running' # Nothing /\ OfTab(running', tab)
  BY StatementIs DEF Reloads
<1>4. Asked'
  BY <1>2, <1>3 DEF Asked, OfTab, PageOf
<1> QED BY <1>1, <1>2, <1>3, <1>4 DEF StripOK

LEMMA ShownIs ==
    ASSUME StripOK
    PROVE  Shown \in TableTab /\ Chips \in Seq(Chip) /\ active_tab \in DOMAIN tabs
           /\ tabs = [tabs EXCEPT ![active_tab] = Shown]
<1>1. active_tab \in DOMAIN tabs /\ Shown \in TableTab
  BY ElementOfSeq DEF StripOK, Shown
<1>2. tabs = [tabs EXCEPT ![active_tab] = Shown]
  BY <1>1 DEF StripOK, Shown
<1> QED BY <1>1, <1>2 DEF TableTab, Chips

LEMMA ApplyKeeps ==
    ASSUME StripOK, NEW chips \in Seq(Chip), Apply(chips)
    PROVE  StripOK' /\ Chips' = chips
<1> DEFINE tab == [Shown EXCEPT !.chips = chips, !.page = 0]
<1>1. tab \in TableTab /\ tab.chips = chips
  BY ShownIs DEF TableTab
<1>2. /\ tabs' = [tabs EXCEPT ![active_tab] = tab] /\ Reloads(tab, grid)
      /\ UNCHANGED <<active_tab, grid, pending_sort>>
  BY DEF Apply
<1> HIDE DEF tab
<1>3. grid' \in Grids /\ pending_sort' \in Ways \union {Nothing} /\ grid \in Grids
      /\ active_tab' = active_tab
  BY <1>2 DEF StripOK
<1>4. StripOK' /\ Shown' = tab
  BY <1>1, <1>2, <1>3, AskKeeps
<1> QED BY <1>1, <1>4 DEF Chips

\* The filter may change and nothing be asked, if it says what it said.
LEMMA KeepKeeps ==
    ASSUME StripOK, NEW chips \in Seq(Chip), Predicate(chips) = Predicate(Chips), Keep(chips)
    PROVE  StripOK' /\ Chips' = chips
<1> DEFINE tab == [Shown EXCEPT !.chips = chips]
<1>1. /\ tab \in TableTab /\ tab.chips = chips /\ tab.relation = Shown.relation
      /\ tab.page = Shown.page
  BY ShownIs DEF TableTab
<1>2. tabs' = [tabs EXCEPT ![active_tab] = tab]
  BY ShownIs DEF Keep, Shown
<1>3. UNCHANGED <<active_tab, grid, running, error, asked_here, pending_sort>>
  BY DEF Keep, statement
<1> HIDE DEF tab
<1>4. tabs' \in Seq(TableTab) /\ Len(tabs') = Len(tabs) /\ tabs'[active_tab] = tab
  BY <1>1, <1>2, ExceptSeq DEF StripOK
<1>5. Shown' = tab
  BY <1>3, <1>4 DEF Shown
<1>6. \A stmt : OfTab(stmt, Shown) => OfTab(stmt, tab)
  BY <1>1 DEF OfTab, PageOf, Chips
<1>7. asked_here' => Asked'
  <2>1. asked_here => Asked
    BY DEF StripOK
  <2>2. running # Nothing /\ OfTab(running, Shown) => OfTab(running', Shown')
    BY <1>3, <1>5, <1>6
  <2>3. grid.of # Nothing /\ OfTab(grid.of, Shown) => OfTab(grid'.of, Shown')
    BY <1>3, <1>5, <1>6
  <2> QED BY <2>1, <2>2, <2>3, <1>3 DEF Asked, OfTab
<1> QED BY <1>1, <1>3, <1>4, <1>5, <1>7 DEF StripOK, Chips

LEMMA KeptIs ==
    ASSUME StripOK, Keep(Chips)
    PROVE  StripOK' /\ Chips' = Chips
BY ShownIs, KeepKeeps

\* The strip and the statement stay, and so does the filter.
LEMMA ComposerIs ==
    ASSUME NEW chips \in Seq(Chip), NEW i \in DOMAIN chips \union {0}
    PROVE  Over(ComposerOn(chips, i), chips)
<1> DEFINE join == IF chips = <<>> THEN "and" ELSE Last(chips).join
           chip == IF i # 0 THEN chips[i] ELSE NewChip(join)
<1>1. DOMAIN chips = 1..Len(chips)
  OBVIOUS
<1>2. join \in {"and", "or"}
  <2>1. CASE chips = <<>>
    BY <2>1
  <2>2. CASE chips # <<>>
    <3>1. Len(chips) \in 1..Len(chips)
      BY <2>2, EmptySeq
    <3>2. chips[Len(chips)] \in Chip
      BY <3>1, ElementOfSeq
    <3> QED BY <3>2, <2>2 DEF Last, Chip
  <2> QED BY <2>1, <2>2
<1>3. chip \in Chip
  <2>1. i # 0 => chips[i] \in Chip
    BY <1>1, ElementOfSeq
  <2>2. NewChip(join) \in Chip
    BY <1>2, NewIs
  <2> HIDE DEF join
  <2> QED BY <2>1, <2>2
<1>4. ComposerOn(chips, i) = [editing |-> i, chip |-> chip, was |-> chip, slid |-> FALSE]
  BY DEF ComposerOn
<1>5. i # 0 => chip = chips[i]
  OBVIOUS
<1>6. i \in Nat
  BY <1>1
<1> HIDE DEF chip
<1> QED BY <1>1, <1>3, <1>4, <1>5, <1>6 DEF Over, Composers

LEMMA CommittedIs ==
    ASSUME StripOK, NEW chip \in Chip
    PROVE  Committed(chip) \in Seq(Chip)
<1>1. Chips \in Seq(Chip) /\ DOMAIN Chips = 1..Len(Chips)
  BY ShownIs
<1>2. CASE composer.editing \in DOMAIN Chips /\ Complete(chip)
  BY <1>1, <1>2, ExceptSeq DEF Committed
<1>3. CASE composer.editing \in DOMAIN Chips /\ ~Complete(chip)
  BY <1>1, <1>3, TakenOut DEF Committed
<1>4. CASE composer.editing = 0 /\ Complete(chip) /\ composer.editing \notin DOMAIN Chips
  <2>1. Append(Chips, chip) \in Seq(Chip)
    BY <1>1
  <2> QED BY <2>1, <1>4 DEF Committed
<1>5. CASE composer.editing \notin DOMAIN Chips /\ ~(composer.editing = 0 /\ Complete(chip))
  BY <1>1, <1>5 DEF Committed
<1> QED BY <1>2, <1>3, <1>4, <1>5

LEMMA SettledIs == ASSUME BrowseInv PROVE Settled \in Seq(Chip)
<1>1. composer # Nothing => composer.chip \in Chip
  BY DEF BrowseInv, Over, Composers
<1> QED BY <1>1, CommittedIs, ShownIs DEF Settled, BrowseInv
-----------------------------------------------------------------------------
(* The band.                                                               *)
LEMMA NobodyIsOver == \A chips : Over(Nothing, chips)
BY DEF Over

LEMMA OpensKeeps ==
    ASSUME BrowseInv, NEW i \in DOMAIN Chips \union {0}, Opens(i)
    PROVE  BrowseInv'
<1>1. CASE composer = Nothing
  <2>1. Keep(Chips) /\ composer' = ComposerOn(Chips, i)
    BY <1>1 DEF Opens
  <2>2. StripOK' /\ Chips' = Chips
    BY <2>1, KeptIs DEF BrowseInv
  <2>3. Over(ComposerOn(Chips, i), Chips)
    BY ShownIs, ComposerIs DEF BrowseInv
  <2> QED BY <2>1, <2>2, <2>3 DEF BrowseInv
<1>2. CASE composer # Nothing
  <2>1. Apply(Settled)
        /\ composer' = IF i \in DOMAIN Settled \union {0} THEN ComposerOn(Settled, i) ELSE Nothing
    BY <1>2 DEF Opens
  <2>2. Settled \in Seq(Chip)
    BY SettledIs
  <2>3. StripOK' /\ Chips' = Settled
    BY <2>1, <2>2, ApplyKeeps DEF BrowseInv
  <2>4. Over(composer', Settled)
    BY <2>1, <2>2, ComposerIs, NobodyIsOver
  <2> QED BY <2>3, <2>4 DEF BrowseInv
<1> QED BY <1>1, <1>2

LEMMA OpenChipKeeps == ASSUME BrowseInv, NEW i, OpenChip(i) PROVE BrowseInv'
BY OpensKeeps DEF OpenChip

\* The filter is asked for, and nothing is being written any more.
LEMMA AppliedKeeps ==
    ASSUME BrowseInv, NEW chips \in Seq(Chip), Apply(chips), composer' = Nothing
    PROVE  BrowseInv'
<1>1. StripOK' /\ Chips' = chips
  BY ApplyKeeps DEF BrowseInv
<1> QED BY <1>1, NobodyIsOver DEF BrowseInv

LEMMA ToggleBandKeeps == ASSUME BrowseInv, ToggleFilterBand PROVE BrowseInv'
<1>1. CASE ~filter_open /\ Chips = <<>> /\ composer = Nothing
  <2>1. Opens(0)
    BY <1>1 DEF ToggleFilterBand
  <2> QED BY <2>1, OpensKeeps
<1>2. CASE filter_open /\ composer # Nothing
  <2>1. composer' = Nothing /\ Apply(Settled)
    BY <1>2 DEF ToggleFilterBand
  <2> QED BY <2>1, SettledIs, AppliedKeeps
<1>3. CASE ~(~filter_open /\ Chips = <<>> /\ composer = Nothing) /\ ~(filter_open /\ composer # Nothing)
  <2>1. composer' = composer /\ Keep(Chips)
    BY <1>3 DEF ToggleFilterBand
  <2>2. StripOK' /\ Chips' = Chips
    BY <2>1, KeptIs DEF BrowseInv
  <2> QED BY <2>1, <2>2 DEF BrowseInv
<1> QED BY <1>1, <1>2, <1>3

LEMMA EscapeKeeps == ASSUME BrowseInv, EscapeFilter PROVE BrowseInv'
<1>1. StripOK' /\ Chips' = Chips /\ composer' = Nothing
  BY KeptIs DEF EscapeFilter, BrowseInv
<1> QED BY <1>1, NobodyIsOver DEF BrowseInv

LEMMA ComposeKeeps ==
    ASSUME BrowseInv, NEW chip \in Chip, Compose(chip) PROVE BrowseInv'
<1>1. Keep(Chips) /\ composer # Nothing /\ composer' = [composer EXCEPT !.chip = chip]
  BY DEF Compose
<1>2. StripOK' /\ Chips' = Chips
  BY <1>1, KeptIs DEF BrowseInv
<1>3. Over(composer', Chips)
  BY <1>1 DEF BrowseInv, Over, Composers
<1> QED BY <1>2, <1>3 DEF BrowseInv

LEMMA WritingKeeps ==
    ASSUME BrowseInv,
           \/ \E value \in Values \union {NoText} : TypeValue(value)
           \/ \E subject \in {"Column", "Raw"} : SetChipSubject(subject)
           \/ FlipComposerJoin \/ SetChipOp
    PROVE  BrowseInv'
<1>1. composer # Nothing => composer.chip \in Chip
  BY DEF BrowseInv, Over, Composers
<1>2. ASSUME NEW value \in Values \union {NoText}, TypeValue(value) PROVE BrowseInv'
  <2>1. composer # Nothing /\ Compose([composer.chip EXCEPT !.value = value])
    BY <1>2 DEF TypeValue
  <2>2. [composer.chip EXCEPT !.value = value] \in Chip
    BY <1>1, <2>1, BrowseAssumption DEF Chip
  <2> QED BY <2>1, <2>2, ComposeKeeps
<1>3. ASSUME NEW subject \in {"Column", "Raw"}, SetChipSubject(subject) PROVE BrowseInv'
  <2>1. composer # Nothing /\ Compose([composer.chip EXCEPT !.subject = subject])
    BY <1>3 DEF SetChipSubject
  <2>2. [composer.chip EXCEPT !.subject = subject] \in Chip
    BY <1>1, <2>1 DEF Chip
  <2> QED BY <2>1, <2>2, ComposeKeeps
<1>4. ASSUME FlipComposerJoin PROVE BrowseInv'
  <2> DEFINE chip == [composer.chip EXCEPT !.join = IF @ = "and" THEN "or" ELSE "and"]
  <2>1. composer # Nothing /\ Compose(chip)
    BY <1>4 DEF FlipComposerJoin
  <2>2. chip \in Chip
    BY <1>1, <2>1 DEF Chip
  <2> QED BY <2>1, <2>2, ComposeKeeps
<1>5. ASSUME SetChipOp PROVE BrowseInv'
  <2>1. composer # Nothing /\ Compose([composer.chip EXCEPT !.op = "="])
    BY <1>5 DEF SetChipOp
  <2>2. [composer.chip EXCEPT !.op = "="] \in Chip
    BY <1>1, <2>1 DEF Chip
  <2> QED BY <2>1, <2>2, ComposeKeeps
<1> QED BY <1>2, <1>3, <1>4, <1>5

LEMMA FinishKeeps ==
    ASSUME BrowseInv, SetChipNull \/ CommitChip \/ ClearFilter PROVE BrowseInv'
<1>1. ASSUME SetChipNull PROVE BrowseInv'
  <2> DEFINE chip == [composer.chip EXCEPT !.op = "is null"]
  <2>1. composer # Nothing /\ Apply(Committed(chip)) /\ composer' = Nothing
    BY <1>1 DEF SetChipNull
  <2>2. chip \in Chip
    BY <2>1 DEF Chip, BrowseInv, Over, Composers
  <2>3. Committed(chip) \in Seq(Chip)
    BY <2>2, CommittedIs DEF BrowseInv
  <2> QED BY <2>1, <2>3, AppliedKeeps
<1>2. ASSUME CommitChip PROVE BrowseInv'
  BY <1>2, SettledIs, AppliedKeeps DEF CommitChip
<1>3. ASSUME ClearFilter PROVE BrowseInv'
  <2>1. <<>> \in Seq(Chip)
    OBVIOUS
  <2> QED BY <1>3, <2>1, AppliedKeeps DEF ClearFilter
<1> QED BY <1>1, <1>2, <1>3

\* Another row of the filter than the one that is being written.
LEMMA OtherKeeps ==
    ASSUME BrowseInv, NEW i \in DOMAIN Chips, ~Composing(i), NEW chip \in Chip,
           Apply([Chips EXCEPT ![i] = chip]), composer' = composer
    PROVE  BrowseInv'
<1> DEFINE chips == [Chips EXCEPT ![i] = chip]
<1>1. Chips \in Seq(Chip) /\ i \in 1..Len(Chips)
  BY ShownIs DEF BrowseInv
<1>2. /\ chips \in Seq(Chip) /\ Len(chips) = Len(Chips)
      /\ \A j \in 1..Len(Chips) : j # i => chips[j] = Chips[j]
  BY <1>1, ExceptSeq
<1>3. StripOK' /\ Chips' = chips
  BY <1>2, ApplyKeeps DEF BrowseInv
<1> HIDE DEF chips
<1>4. Over(composer, chips)
  BY <1>2 DEF BrowseInv, Over, Composing
<1> QED BY <1>3, <1>4 DEF BrowseInv

LEMMA ToggleChipKeeps ==
    ASSUME BrowseInv, NEW i, ToggleChip(i) \/ FlipJoin(i) PROVE BrowseInv'
<1>1. Chips \in Seq(Chip) /\ (i \in DOMAIN Chips => Chips[i] \in Chip)
  BY ShownIs, ElementOfSeq DEF BrowseInv
<1>2. ASSUME ToggleChip(i) PROVE BrowseInv'
  <2> DEFINE chip == [Chips[i] EXCEPT !.enabled = ~@]
  <2>1. i \in DOMAIN Chips /\ ~Composing(i) /\ composer' = composer
        /\ Apply([Chips EXCEPT ![i].enabled = ~@])
    BY <1>2 DEF ToggleChip, band
  <2>2. [Chips EXCEPT ![i].enabled = ~@] = [Chips EXCEPT ![i] = chip]
    BY <2>1
  <2>3. chip \in Chip
    BY <1>1, <2>1 DEF Chip
  <2> HIDE DEF chip
  <2> QED BY <2>1, <2>2, <2>3, OtherKeeps
<1>3. ASSUME FlipJoin(i) PROVE BrowseInv'
  <2> DEFINE chip == [Chips[i] EXCEPT !.join = IF @ = "and" THEN "or" ELSE "and"]
  <2>1. i \in DOMAIN Chips /\ ~Composing(i) /\ composer' = composer
        /\ Apply([Chips EXCEPT ![i].join = IF @ = "and" THEN "or" ELSE "and"])
    BY <1>3 DEF FlipJoin, band
  <2>2. [Chips EXCEPT ![i].join = IF @ = "and" THEN "or" ELSE "and"] = [Chips EXCEPT ![i] = chip]
    BY <2>1
  <2>3. chip \in Chip
    BY <1>1, <2>1 DEF Chip
  <2> HIDE DEF chip
  <2> QED BY <2>1, <2>2, <2>3, OtherKeeps
<1> QED BY <1>2, <1>3

LEMMA RemoveChipKeeps == ASSUME BrowseInv, NEW i, RemoveChip(i) PROVE BrowseInv'
<1> DEFINE chips == RemoveAt(Chips, i)
<1>1. Chips \in Seq(Chip) /\ i \in 1..Len(Chips) /\ Len(Chips) \in Nat
  BY ShownIs DEF BrowseInv, RemoveChip
<1>2. chips \in Seq(Chip) /\ Len(chips) = Len(Chips) - 1
  BY <1>1, TakenOut
<1>3. \A k \in 1..(Len(Chips) - 1) : chips[k] = Chips[IF k < i THEN k ELSE k + 1]
  BY <1>1, TakenOut
<1>4. /\ Apply(chips)
      /\ composer' = IF Composing(i) THEN Nothing
                     ELSE IF composer # Nothing /\ composer.editing > i
                       THEN [composer EXCEPT !.slid = TRUE] ELSE composer
  BY DEF RemoveChip
<1>5. StripOK' /\ Chips' = chips
  BY <1>2, <1>4, ApplyKeeps DEF BrowseInv
<1> HIDE DEF chips
<1>6. Over(composer', chips)
  <2>1. CASE Composing(i)
    BY <2>1, <1>4, NobodyIsOver
  <2>2. CASE ~Composing(i) /\ composer # Nothing /\ composer.editing > i
    <3>1. composer' = [composer EXCEPT !.slid = TRUE] /\ composer \in Composers
      BY <2>2, <1>4 DEF BrowseInv, Over
    <3>2. composer' \in Composers /\ composer'.slid
      BY <3>1 DEF Composers
    <3> QED BY <3>2 DEF Over
  <2>3. CASE ~Composing(i) /\ ~(composer # Nothing /\ composer.editing > i)
    <3>1. composer' = composer
      BY <2>3, <1>4
    <3>2. ASSUME composer # Nothing, composer.editing # 0, ~composer.slid
          PROVE  composer.editing \in 1..Len(chips) /\ chips[composer.editing] = composer.was
      <4> DEFINE k == composer.editing
      <4>1. k \in 1..Len(Chips) /\ Chips[k] = composer.was
        BY <3>2 DEF BrowseInv, Over
      <4>2. k # i /\ ~(k > i)
        BY <3>2, <2>3 DEF Composing
      <4> HIDE DEF k
      <4>3. k \in 1..(Len(Chips) - 1) /\ k < i
        BY <4>1, <4>2, <1>1
      <4>4. chips[k] = Chips[k]
        BY <4>3, <1>3
      <4> QED BY <4>1, <4>3, <4>4, <1>2 DEF k
    <3>3. composer # Nothing => composer \in Composers
      BY DEF BrowseInv, Over
    <3> QED BY <3>1, <3>2, <3>3 DEF Over
  <2> QED BY <2>1, <2>2, <2>3
<1> QED BY <1>5, <1>6 DEF BrowseInv

LEMMA AddChipKeeps == ASSUME BrowseInv, NEW i, AddChipAfter(i) PROVE BrowseInv'
<1> DEFINE chips == Settled
           at == IF i < Len(chips) THEN i ELSE Len(chips)
           new == IF at = Len(chips) THEN chips
                  ELSE InsertAt(chips, at + 1, NewChip(chips[at].join))
           open == IF at = Len(chips) THEN 0 ELSE at + 1
<1>1. /\ i \in DOMAIN Chips \/ i = Len(Chips) + 1
      /\ IF composer = Nothing THEN Keep(new) ELSE Apply(new)
      /\ composer' = ComposerOn(new, open)
  BY DEF AddChipAfter
<1>2. Chips \in Seq(Chip) /\ DOMAIN Chips = 1..Len(Chips) /\ Len(Chips) \in Nat
  BY ShownIs DEF BrowseInv
<1>3. i \in Nat \ {0}
  BY <1>1, <1>2
<1>4. chips \in Seq(Chip) /\ Len(chips) \in Nat
  <2>1. chips \in Seq(Chip)
    BY SettledIs
  <2> HIDE DEF chips
  <2> QED BY <2>1
<1>5. composer = Nothing => chips = Chips
  BY DEF Settled
<1> HIDE DEF chips
<1>6. new \in Seq(Chip) /\ Predicate(new) = Predicate(chips) /\ open \in DOMAIN new \union {0}
  <2>1. CASE at = Len(chips)
    BY <2>1, <1>4
  <2>2. CASE at # Len(chips)
    <3> DEFINE p == at + 1
               chip == NewChip(chips[at].join)
    <3>1. at \in 1..Len(chips) /\ p \in 1..Len(chips)
      BY <2>2, <1>3, <1>4
    <3>2. chips[at].join \in {"and", "or"}
      <4>1. chips[at] \in Chip
        BY <1>4, <3>1, ElementOfSeq
      <4> QED BY <4>1 DEF Chip
    <3>3. chip \in Chip /\ ~InForce(chip)
      BY <3>2, NewIs
    <3>4. new = InsertAt(chips, p, chip) /\ open = p
      BY <2>2
    <3> HIDE DEF p, chip, at, new, open
    <3>5. InsertAt(chips, p, chip) \in Seq(Chip)
      BY <1>4, <3>1, <3>3, PutIn
    <3>6. Len(InsertAt(chips, p, chip)) = Len(chips) + 1
      BY <1>4, <3>1, <3>3, PutIn
    <3>7. Predicate(InsertAt(chips, p, chip)) = Predicate(chips)
      BY <1>4, <3>1, <3>3, NewSaysNothing
    <3>8. p \in DOMAIN new
      BY <3>1, <3>4, <3>5, <3>6, <1>4
    <3> QED BY <3>4, <3>5, <3>7, <3>8
  <2> QED BY <2>1, <2>2
<1> HIDE DEF new, open
<1>7. StripOK' /\ Chips' = new
  <2>1. CASE composer = Nothing
    BY <2>1, <1>1, <1>5, <1>6, KeepKeeps DEF BrowseInv
  <2>2. CASE composer # Nothing
    BY <2>2, <1>1, <1>6, ApplyKeeps DEF BrowseInv
  <2> QED BY <2>1, <2>2
<1>8. Over(composer', new)
  BY <1>1, <1>6, ComposerIs
<1> QED BY <1>7, <1>8 DEF BrowseInv
-----------------------------------------------------------------------------
(* Pages, sorting and tabs.                                                *)
LEMMA RefreshKeeps == ASSUME BrowseInv, RefreshRows PROVE BrowseInv'
<1>1. /\ Reloads(Shown, grid)
      /\ UNCHANGED <<tabs, active_tab, composer, grid, pending_sort>>
  BY DEF RefreshRows, band
<1>2. Shown \in TableTab /\ tabs' = [tabs EXCEPT ![active_tab] = Shown]
  BY <1>1, ShownIs DEF BrowseInv
<1>3. grid \in Grids /\ grid' \in Grids /\ pending_sort' \in Ways \union {Nothing}
      /\ active_tab' = active_tab
  BY <1>1 DEF BrowseInv, StripOK
<1>4. StripOK' /\ Shown' = Shown
  BY <1>1, <1>2, <1>3, AskKeeps DEF BrowseInv
<1>5. Chips' = Chips
  BY <1>4 DEF Chips
<1> QED BY <1>1, <1>4, <1>5 DEF BrowseInv

\* A tab that has turned its page has its filter still.
LEMMA PagedKeeps ==
    ASSUME BrowseInv, NEW page \in Nat, NEW sorted \in Grids,
           tabs' = [tabs EXCEPT ![active_tab] = [Shown EXCEPT !.page = page]],
           Reloads([Shown EXCEPT !.page = page], sorted),
           active_tab' = active_tab, composer' = composer, grid' \in Grids,
           pending_sort' \in Ways \union {Nothing}
    PROVE  BrowseInv'
<1> DEFINE tab == [Shown EXCEPT !.page = page]
<1>1. tab \in TableTab /\ tab.chips = Chips
  BY ShownIs DEF BrowseInv, TableTab, Chips
<1> HIDE DEF tab
<1>2. tabs' = [tabs EXCEPT ![active_tab] = tab] /\ Reloads(tab, sorted)
  BY DEF tab
<1>3. StripOK' /\ Shown' = tab
  BY <1>1, <1>2, AskKeeps DEF BrowseInv
<1>4. Chips' = Chips
  BY <1>1, <1>3 DEF Chips
<1> QED BY <1>3, <1>4 DEF BrowseInv

LEMMA ShowPageKeeps == ASSUME BrowseInv, NEW page \in Nat, ShowPage(page) PROVE BrowseInv'
<1>1. /\ tabs' = [tabs EXCEPT ![active_tab] = [Shown EXCEPT !.page = page]]
      /\ Reloads([Shown EXCEPT !.page = page], grid)
      /\ UNCHANGED <<active_tab, composer, grid, pending_sort>>
  BY DEF ShowPage, band
<1>2. grid \in Grids /\ grid' \in Grids /\ pending_sort' \in Ways \union {Nothing}
  BY <1>1 DEF BrowseInv, StripOK
<1> QED BY <1>1, <1>2, PagedKeeps

LEMMA ApplySortKeeps == ASSUME BrowseInv, ApplySort PROVE BrowseInv'
<1> DEFINE sorted == [grid EXCEPT !.sort = Cycled(@)]
<1>1. /\ tabs' = [tabs EXCEPT ![active_tab] = [Shown EXCEPT !.page = 0]]
      /\ grid' = sorted /\ pending_sort' = sorted.sort
      /\ Reloads([Shown EXCEPT !.page = 0], sorted)
      /\ UNCHANGED <<active_tab, composer>>
  BY DEF ApplySort, band
<1>2. grid \in Grids
  BY DEF BrowseInv, StripOK
<1>3. Cycled(grid.sort) \in Ways \union {Nothing}
  BY <1>2 DEF Grids, Ways, Cycled
<1>4. sorted \in Grids /\ sorted.sort \in Ways \union {Nothing}
  BY <1>2, <1>3 DEF Grids
<1> HIDE DEF sorted
<1> QED BY <1>1, <1>4, PagedKeeps

LEMMA ShowsKeeps ==
    ASSUME BrowseInv, NEW strip \in Seq(TableTab), active_tab \in 1..Len(strip),
           NEW i \in 1..Len(strip), Shows(strip, i)
    PROVE  BrowseInv'
<1> DEFINE rows == IF grid.rows = <<>> THEN Nothing ELSE grid
           front == [strip[active_tab] EXCEPT !.cached = rows]
           left == [strip EXCEPT ![active_tab] = front]
<1>1. grid \in Grids /\ strip[active_tab] \in TableTab
  BY ElementOfSeq DEF BrowseInv, StripOK
<1>2. front \in TableTab
  BY <1>1 DEF TableTab
<1>3. [strip EXCEPT ![active_tab].cached = IF grid.rows = <<>> THEN Nothing ELSE grid] = left
  OBVIOUS
<1>4. /\ tabs' = left /\ active_tab' = i /\ composer' = Nothing
      /\ UNCHANGED pending_sort
      /\ IF left[i].cached # Nothing
           THEN grid' = left[i].cached /\ asked_here' = FALSE /\ UNCHANGED running
           ELSE running' = Statement(left[i], grid) /\ asked_here' = TRUE /\ UNCHANGED grid
  BY <1>3 DEF Shows
<1> HIDE DEF front
<1>5. left \in Seq(TableTab) /\ Len(left) = Len(strip)
  BY <1>2, ExceptSeq
<1> HIDE DEF left
<1>6. left[i] \in TableTab
  BY <1>5, ElementOfSeq
<1>7. Shown' = left[i]
  BY <1>4 DEF Shown
<1>8. StripOK'
  <2>1. tabs' \in Seq(TableTab) /\ active_tab' \in 1..Len(tabs') /\ pending_sort' \in Ways \union {Nothing}
    BY <1>4, <1>5 DEF BrowseInv, StripOK
  <2>2. CASE left[i].cached # Nothing
    <3>1. grid' \in Grids /\ running' \in Askable \union {Nothing} /\ ~asked_here'
      BY <2>2, <1>4, <1>6 DEF TableTab, BrowseInv, StripOK
    <3> QED BY <2>1, <3>1 DEF StripOK
  <2>3. CASE left[i].cached = Nothing
    <3>1. grid' \in Grids /\ running' = Statement(left[i], grid)
      BY <2>3, <1>1, <1>4
    <3>2. running' \in Askable /\ running' # Nothing /\ OfTab(running', left[i])
      BY <3>1, <1>1, <1>6, StatementIs
    <3>3. Asked'
      BY <3>2, <1>7 DEF Asked, OfTab, PageOf
    <3> QED BY <2>1, <3>1, <3>2, <3>3 DEF StripOK
  <2> QED BY <2>2, <2>3
<1> QED BY <1>4, <1>8, NobodyIsOver DEF BrowseInv

LEMMA ActivateTabKeeps == ASSUME BrowseInv, NEW i, ActivateTab(i) PROVE BrowseInv'
<1>1. tabs \in Seq(TableTab) /\ active_tab \in 1..Len(tabs) /\ i \in 1..Len(tabs)
  BY DEF ActivateTab, BrowseInv, StripOK
<1> QED BY <1>1, ShowsKeeps DEF ActivateTab

LEMMA UnaskedIs ==
    ASSUME NEW relation \in Tables, NEW chips \in Seq(Chip)
    PROVE  Unasked(relation, chips) \in TableTab
BY DEF Unasked, TableTab

LEMMA OpenRelationKeeps ==
    ASSUME BrowseInv, NEW relation \in Tables, NEW chips \in Seq(Chip) \union {Nothing},
           OpenRelation(relation, chips)
    PROVE  BrowseInv'
<1> DEFINE open == {k \in DOMAIN tabs : tabs[k].relation = relation}
           new == Unasked(relation, IF chips = Nothing THEN <<>> ELSE chips)
           i == CHOOSE k \in open : \A j \in open : k <= j
<1>1. /\ tabs \in Seq(TableTab) /\ active_tab \in 1..Len(tabs) /\ DOMAIN tabs = 1..Len(tabs)
      /\ Len(tabs) \in Nat
  BY DEF BrowseInv, StripOK
<1>2. CASE open = {}
  <2>1. Shows(Append(tabs, new), Len(tabs) + 1)
    BY <1>2 DEF OpenRelation
  <2>2. new \in TableTab
    <3>1. <<>> \in Seq(Chip)
      OBVIOUS
    <3> QED BY <3>1, UnaskedIs
  <2> HIDE DEF new
  <2>3. Append(tabs, new) \in Seq(TableTab) /\ Len(Append(tabs, new)) = Len(tabs) + 1
    BY <1>1, <2>2
  <2>4. active_tab \in 1..(Len(tabs) + 1) /\ Len(tabs) + 1 \in 1..(Len(tabs) + 1)
    BY <1>1
  <2> QED BY <2>1, <2>3, <2>4, ShowsKeeps
<1>3. CASE open # {}
  <2>1. i \in open
    <3>1. open \in SUBSET Nat
      BY <1>1
    <3>2. \E k \in open : \A j \in open : k <= j
      <4> HIDE DEF open
      <4> QED BY <1>3, <3>1, Least
    <3> HIDE DEF open
    <3> QED BY <3>2
  <2>2. i \in 1..Len(tabs)
    BY <2>1, <1>1
  <2>3. CASE chips = Nothing
    <3>1. Shows(tabs, i)
      BY <1>3, <2>3 DEF OpenRelation
    <3> HIDE DEF i
    <3> QED BY <3>1, <2>2, <1>1, ShowsKeeps
  <2>4. CASE chips # Nothing
    <3> DEFINE strip == [tabs EXCEPT ![i].chips = chips, ![i].page = Nothing]
               tab == [tabs[i] EXCEPT !.chips = chips, !.page = Nothing]
    <3>1. Shows(strip, i)
      BY <1>3, <2>4 DEF OpenRelation
    <3> HIDE DEF i
    <3>2. strip = [tabs EXCEPT ![i] = tab]
      BY <1>1, <2>2
    <3>3. tab \in TableTab
      <4>1. tabs[i] \in TableTab
        BY <1>1, <2>2, ElementOfSeq
      <4> QED BY <4>1, <2>4 DEF TableTab
    <3> HIDE DEF tab
    <3>4. strip \in Seq(TableTab) /\ Len(strip) = Len(tabs)
      BY <1>1, <2>2, <3>2, <3>3, ExceptSeq
    <3> HIDE DEF strip
    <3> QED BY <3>1, <3>4, <2>2, <1>1, ShowsKeeps
  <2> QED BY <2>3, <2>4
<1> QED BY <1>2, <1>3

LEMMA BrowsesKeep ==
    ASSUME BrowseInv,
           \/ \E relation \in DOMAIN PointsAt : BrowseTable(relation)
           \/ \E pointer \in Pointers : FollowReference(pointer)
    PROVE  BrowseInv'
<1>1. ASSUME NEW relation \in DOMAIN PointsAt, BrowseTable(relation) PROVE BrowseInv'
  <2>1. relation \in Tables /\ OpenRelation(relation, Nothing)
    BY <1>1 DEF BrowseTable, Tables
  <2> QED BY <2>1, OpenRelationKeeps
<1>2. ASSUME NEW pointer \in Pointers, FollowReference(pointer) PROVE BrowseInv'
  <2> DEFINE relation == PointsAt[Shown.relation]
             chip == Raw(pointer)
  <2>1. relation # Nothing /\ OpenRelation(relation, <<chip>>)
    BY <1>2 DEF FollowReference
  <2>2. Shown.relation \in Tables
    BY ShownIs DEF BrowseInv, TableTab
  <2>3. relation \in Tables
    BY <2>1, <2>2, BrowseAssumption
  <2>4. chip \in Chip
    BY BrowseAssumption DEF Raw, NewChip, Chip
  <2> HIDE DEF relation, chip
  <2>5. <<chip>> \in Seq(Chip)
    BY <2>4
  <2> QED BY <2>1, <2>3, <2>5, OpenRelationKeeps
<1> QED BY <1>1, <1>2

-----------------------------------------------------------------------------
(* The server, and the whole.                                              *)
LEMMA AnswerKeeps == ASSUME BrowseInv, AbsorbRun \/ Fail PROVE BrowseInv'
<1>1. UNCHANGED <<tabs, active_tab, composer, asked_here>> /\ running # Nothing /\ running' = Nothing
  BY DEF AbsorbRun, Fail, band
<1>2. Shown' = Shown /\ Chips' = Chips
  BY <1>1 DEF Shown, Chips
<1>3. \A stmt : OfTab(stmt, Shown) => OfTab(stmt, Shown)'
  BY <1>2 DEF OfTab, PageOf
<1>4. running \in Askable /\ running \in Statements
  BY <1>1 DEF BrowseInv, StripOK, Askable
<1>5. ASSUME AbsorbRun PROVE StripOK'
  <2>1. PICK rows \in Answers(running) : grid' = [of |-> running, rows |-> rows, sort |-> pending_sort]
    BY <1>5 DEF AbsorbRun
  <2>2. pending_sort' = Nothing /\ pending_sort \in Ways \union {Nothing}
    BY <1>5 DEF AbsorbRun, BrowseInv, StripOK
  <2>3. rows \in Pages
    BY <1>4 DEF Pages
  <2>4. grid' \in Grids
    BY <1>4, <2>1, <2>2, <2>3 DEF Grids
  <2>5. asked_here => OfTab(running, Shown)
    BY <1>1 DEF BrowseInv, StripOK, Asked
  <2>6. asked_here' => Asked'
    <3>1. grid'.of = running
      BY <2>1
    <3>2. asked_here => OfTab(running, Shown')
      BY <2>5, <1>2 DEF OfTab, PageOf
    <3> QED BY <3>1, <3>2, <1>1 DEF Asked, OfTab, PageOf
  <2> QED BY <1>1, <2>2, <2>4, <2>6 DEF BrowseInv, StripOK
<1>6. ASSUME Fail PROVE StripOK'
  <2>1. error' /\ UNCHANGED <<grid, pending_sort>>
    BY <1>6 DEF Fail
  <2>2. Asked'
    BY <2>1, <1>1 DEF Asked
  <2> QED BY <1>1, <2>1, <2>2 DEF BrowseInv, StripOK
<1> QED BY <1>1, <1>2, <1>5, <1>6 DEF BrowseInv

LEMMA BrowseInitially == BrowseInit => BrowseInv
<1> SUFFICES ASSUME BrowseInit PROVE BrowseInv
  OBVIOUS
<1>1. PICK strip \in KeptTabs :
         tabs = [i \in DOMAIN strip |-> Unasked(strip[i].relation, strip[i].chips)]
  BY DEF BrowseInit
<1> DEFINE Saved == [relation : Tables, chips : Seq(Chip)]
<1>2. strip \in Seq(Saved) /\ strip # <<>>
  BY BrowseAssumption
<1>3. Len(strip) \in Nat \ {0} /\ DOMAIN strip = 1..Len(strip)
      /\ \A i \in 1..Len(strip) : strip[i] \in Saved
  <2> HIDE DEF Saved
  <2> QED BY <1>2, EmptySeq, LenProperties, ElementOfSeq
<1>4. \A i \in 1..Len(strip) : Unasked(strip[i].relation, strip[i].chips) \in TableTab
  BY <1>3, UnaskedIs
<1>5. tabs \in Seq(TableTab) /\ Len(tabs) = Len(strip)
  BY <1>1, <1>3, <1>4
<1>6. active_tab = 1 /\ active_tab \in 1..Len(tabs) /\ tabs[1] \in TableTab
  BY <1>3, <1>5, ElementOfSeq DEF BrowseInit
<1>7. NothingShown \in Grids
  BY DEF NothingShown, Grids, Pages
<1>8. running = Statement(tabs[1], NothingShown) /\ grid = NothingShown /\ pending_sort = Nothing
      /\ composer = Nothing
  BY DEF BrowseInit
<1>9. running \in Askable /\ running # Nothing /\ OfTab(running, Shown)
  BY <1>6, <1>7, <1>8, StatementIs DEF Shown
<1>10. Asked
  BY <1>9 DEF Asked
<1>11. StripOK
  BY <1>5, <1>6, <1>7, <1>8, <1>9, <1>10 DEF StripOK
<1> QED BY <1>8, <1>11, NobodyIsOver DEF BrowseInv

LEMMA BrowseStep == BrowseInv /\ [BrowseNext]_browseVars => BrowseInv'
<1> SUFFICES ASSUME BrowseInv, [BrowseNext]_browseVars PROVE BrowseInv'
  OBVIOUS
<1>1. CASE UNCHANGED browseVars
  BY <1>1 DEF browseVars, BrowseInv, StripOK, Asked, OfTab, PageOf, Shown, Chips, Over
<1>2. ASSUME BrowseNext PROVE BrowseInv'
  <2>1. ASSUME NEW i \in 0..MaxChips, OpenChip(i) PROVE BrowseInv'
    BY <2>1, OpenChipKeeps
  <2>2. ASSUME ToggleFilterBand \/ EscapeFilter \/ CommitChip \/ SetChipNull \/ ClearFilter
        PROVE  BrowseInv'
    BY <2>2, ToggleBandKeeps, EscapeKeeps, FinishKeeps
  <2>3. ASSUME \/ \E value \in Values \union {NoText} : TypeValue(value)
               \/ \E subject \in {"Column", "Raw"} : SetChipSubject(subject)
               \/ FlipComposerJoin \/ SetChipOp
        PROVE  BrowseInv'
    BY <2>3, WritingKeeps
  <2>4. ASSUME NEW i \in 1..MaxChips, ToggleChip(i) \/ FlipJoin(i) \/ RemoveChip(i) PROVE BrowseInv'
    BY <2>4, ToggleChipKeeps, RemoveChipKeeps
  <2>5. ASSUME NEW i \in 1..(MaxChips + 1), AddChipAfter(i) PROVE BrowseInv'
    BY <2>5, AddChipKeeps
  <2>6. ASSUME RefreshRows \/ ApplySort PROVE BrowseInv'
    BY <2>6, RefreshKeeps, ApplySortKeeps
  <2>7. ASSUME NEW page \in 0..Cardinality(TableRows), ShowPage(page) PROVE BrowseInv'
    <3>1. page \in Nat
      BY <2>7
    <3> QED BY <3>1, <2>7, ShowPageKeeps
  <2>8. ASSUME NEW i \in DOMAIN tabs, ActivateTab(i) PROVE BrowseInv'
    BY <2>8, ActivateTabKeeps
  <2>9. ASSUME \/ \E relation \in DOMAIN PointsAt : BrowseTable(relation)
               \/ \E pointer \in Pointers : FollowReference(pointer)
        PROVE  BrowseInv'
    BY <2>9, BrowsesKeep
  <2>10. ASSUME AbsorbRun \/ Fail PROVE BrowseInv'
    BY <2>10, AnswerKeeps
  <2> QED BY <1>2, <2>1, <2>2, <2>3, <2>4, <2>5, <2>6, <2>7, <2>8, <2>9, <2>10 DEF BrowseNext
<1> QED BY <1>1, <1>2

LEMMA BrowseInvHolds == BrowseSpec => []BrowseInv
BY BrowseInitially, BrowseStep, PTL DEF BrowseSpec

\* A statement asks for what the filter reads as from the top, the rows that come
\* are of the tab's table, filter and page, and what is written is over its own
\* row, whatever was done to the filter, the pages and the tabs on the way.
THEOREM FilterIsAsked == BrowseSpec => []BrowseHolds
<1>1. BrowseInv => BrowseHolds
  <2> SUFFICES ASSUME BrowseInv PROVE BrowseHolds
    OBVIOUS
  <2>1. FilterReadsDown
    <3>1. \A i \in DOMAIN tabs : tabs[i].chips \in Seq(Chip)
      <4>1. ASSUME NEW i \in DOMAIN tabs PROVE tabs[i] \in TableTab
        BY ElementOfSeq DEF BrowseInv, StripOK
      <4> QED BY <4>1 DEF TableTab
    <3> QED BY <3>1, PredicateReads DEF FilterReadsDown
  <2>2. RowsAnswerTheFilter
    <3>1. running = Nothing /\ ~error /\ asked_here => OfTab(grid.of, Shown)
      BY DEF BrowseInv, StripOK, Asked
    <3>2. Predicate(Chips) = ReadDown(Chips)
      BY ShownIs, PredicateReads DEF BrowseInv
    <3> QED BY <3>1, <3>2 DEF RowsAnswerTheFilter, OfTab, Chips
  <2>3. ComposedRowIsItsOwn
    <3>1. DOMAIN Chips = 1..Len(Chips)
      BY ShownIs DEF BrowseInv
    <3> QED BY <3>1 DEF ComposedRowIsItsOwn, BrowseInv, Over
  <2> QED BY <2>1, <2>2, <2>3 DEF BrowseHolds
<1> QED BY <1>1, BrowseInvHolds, PTL

\* From one page of a table with a key to another, in one order, no row is shown
\* twice, however wide the pages are and however equal the rows.
THEOREM PagesDoNotOverlap == BrowseSpec => PagesRepeatNothing
<1>1. BrowseInv /\ BrowseInv' /\ [BrowseNext]_browseVars => [NoRowTwice]_browseVars
  <2> SUFFICES ASSUME BrowseInv, BrowseInv' PROVE NoRowTwice
    OBVIOUS
  <2> DEFINE was == grid.of
             is == grid'.of
  <2>1. SUFFICES ASSUME running # Nothing, is = running, was # Nothing, is.relation \in Keyed,
                        [was EXCEPT !.page = is.page] = is, was.page # is.page
                 PROVE  Range(grid.rows) \intersect Range(grid'.rows) = {}
    BY DEF NoRowTwice
  <2>2. grid \in Grids /\ grid' \in Grids
    BY DEF BrowseInv, StripOK
  <2>3. was \in Askable /\ is \in Askable /\ is # Nothing
    BY <2>1, <2>2 DEF Grids
  <2>4. grid.rows \in Answers(was) /\ grid'.rows \in Answers(is)
    BY <2>1, <2>2, <2>3 DEF Grids
  <2>5. was \in Statements /\ is \in Statements
    BY <2>3 DEF Askable
  <2> HIDE DEF was, is
  <2>6. was.relation = is.relation /\ was.keyed = is.keyed
    BY <2>1, <2>5 DEF Statements
  <2>7. is.keyed
    BY <2>1, <2>3, <2>6 DEF Askable
  <2> QED BY <2>1, <2>4, <2>5, <2>7, NoneTwice
<1> QED BY <1>1, BrowseInvHolds, PTL DEF PagesRepeatNothing, BrowseSpec
==============================================================================
