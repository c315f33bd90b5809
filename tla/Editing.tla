------------------------------- MODULE Editing -------------------------------
(***************************************************************************)
(* Which rows can be written back, and where what is saved goes:           *)
(* src/crates/tupli/src/editing.rs, structure.rs, objects.rs, and the      *)
(* handlers of workspace.rs they meet in.                                  *)
(*                                                                         *)
(* A pane's grid holds rows that came out of a relation of a session.      *)
(* Whether they can be edited, and which relation a commit of them names,  *)
(* is worked out again by refresh_editability whenever the answer may have *)
(* changed, from the catalog and the privileges of the WINDOW's session.   *)
(* One busy slot per session carries the reading of rows and of the        *)
(* catalog, a grid's commit, a table design's and a drop; privileges are   *)
(* read beside it.                                                         *)
(*                                                                         *)
(* An edit is its number; `typed' remembers the rows it was typed over and *)
(* `written' what the servers took.  Key columns have the same names in    *)
(* every table, so whether rows have an identity is whether the catalog    *)
(* lists the relation as a table.  Sessions stay connected and are not     *)
(* read-only (module Session has those paths).                             *)
(***************************************************************************)
EXTENDS Naturals, Sequences, FiniteSets, FiniteSetsExt

CONSTANTS
    Sessions, Relations,
    None,        \* Option::None
    Strips,      \* per pane, left to right: its tabs, each a table of a session
    Designing,   \* the session whose table is open in the structure editor
    Initially,   \* per relation: what may be done to it at first
    Contested,   \* the relations other clients alter
    MaxGestures, \* bound: things the user does
    MaxForeign   \* bound: changes other clients make to tables and privileges

ASSUME EditingAssumption ==
    /\ None \notin Sessions \cup Relations
    /\ Strips \in Seq(Seq([session : Sessions, relation : Relations])) /\ Strips # <<>>
    /\ \A p \in DOMAIN Strips : Strips[p] # <<>>
    /\ Designing \in Sessions
    /\ Initially \in [Relations -> {"write", "read", "untold"}] /\ Contested \subseteq Relations
    /\ {MaxGestures, MaxForeign} \subseteq Nat

VARIABLES
    panes,              \* the open panes
    active_pane,
    session,            \* the window's
    running_pane,       \* 0 when nothing is
    slot,               \* per session: what is in flight, and the read held behind it
    snapshot,           \* per session: the catalog as it was last read
    grants,             \* per session: what it was told it may do to a relation
    loading_grants,     \* per session: the one privileges read it remembers
    asked,              \* per session: the privileges reads on their way, or their answer
    design,             \* the structure editor: its draft, and what that started from
    pending_structure,  \* the design's save waits for its answer or for a catalog
    pending_object,     \* the relation a drop was sent for
    server,             \* per session: its tables, privileges and the saved design
    foreign,            \* changes other clients made so far
    gestures,           \* things the user did so far
    typed,              \* per edit: the rows it was typed over
    written,            \* what the servers took: each edit, its session and relation
    twice,              \* an edit was taken again
    strayed,            \* a pane was judged by another table or server than its rows'
    unheard,            \* sessions that had news while another was in front
    misled              \* a commit that went through was taken for another's

screen  == <<panes, slot, running_pane, loading_grants, asked>>
pending == <<design, pending_structure, pending_object>>
outside == <<server, foreign>>
history == <<typed, written, twice, strayed, unheard, misled>>
vars    == <<screen, active_pane, session, snapshot, grants, pending, outside, history,
             gestures>>

Shapes == {"table", "view", "absent"}
Rights == {"write", "read", "untold"}   \* untold: asking gives no answer
NoRows == [session |-> None, relation |-> None]
Idle   == [kind |-> "idle"]

Tab(pane) == pane.tabs[pane.active_tab]

\* Every pane has read the rows of its first tab, and heard what may be done
\* to them.
Opened(p) == Strips[p][1]
Fresh(tab) == [session |-> tab.session, relation |-> tab.relation, cached |-> NoRows]
Heard(s, r) == /\ \E p \in DOMAIN Strips : Opened(p) = [session |-> s, relation |-> r]
               /\ Initially[r] # "untold"

Init ==
    /\ server = [s \in Sessions |-> [tables |-> [r \in Relations |-> "table"],
                                     rights |-> Initially, design |-> 0]]
    /\ panes = [p \in DOMAIN Strips |->
                  [tabs |-> [i \in DOMAIN Strips[p] |-> Fresh(Strips[p][i])],
                   active_tab |-> 1, results |-> 1, rows |-> Opened(p),
                   editing_relation |-> Opened(p).relation, identity |-> TRUE,
                   editable |-> Initially[Opened(p).relation] # "read", staged |-> {}]]
    /\ active_pane = 1 /\ session = Strips[1][1].session /\ running_pane = 0
    /\ slot = [s \in Sessions |-> [task |-> Idle, held |-> Idle]]
    /\ snapshot = [s \in Sessions |-> server[s].tables]
    /\ grants = [s \in Sessions |-> [r \in Relations |->
                   IF Heard(s, r) THEN Initially[r] ELSE "unknown"]]
    /\ loading_grants = [s \in Sessions |-> None]
    /\ asked = [s \in Sessions |-> [r \in Relations |-> "not"]]
    /\ design = [draft |-> 0, original |-> 0]
    /\ pending_structure = FALSE /\ pending_object = None
    /\ gestures = 0 /\ typed = <<>> /\ written = {} /\ foreign = 0
    /\ twice = FALSE /\ strayed = FALSE /\ unheard = {} /\ misled = FALSE

(***************************************************************************)
(* What a handler does to the screen, as functions on what it is made of.  *)
(***************************************************************************)
Screen == [panes |-> panes, slot |-> slot, running |-> running_pane,
           loading |-> loading_grants, asked |-> asked]
Becomes(w) == /\ panes' = w.panes /\ slot' = w.slot /\ running_pane' = w.running
              /\ loading_grants' = w.loading /\ asked' = w.asked

Busy(w, s) == w.slot[s].task # Idle
Started(w, s, task) == [w EXCEPT !.slot[s].task = task]

\* sqlgen::resolve.  An empty result has no columns, so no key among them.
Resolve(shape, rows) == shape = "table" /\ rows # NoRows
Shape(catalog, r) == IF r = None THEN "absent" ELSE catalog[r]

\* write_denied: nothing is denied while nothing is known.
WriteDenied(known, r) == r # None /\ known[r] = "read"

\* GridState::set_editable.
SetEditable(pane, editable) ==
    [pane EXCEPT !.editable = editable, !.staged = IF editable THEN @ ELSE {}]

\* A script's second answer is no table's rows.
Relation(pane) == IF pane.results <= 1 THEN Tab(pane).relation ELSE None
Identity(pane, catalog) == Resolve(Shape(catalog, Relation(pane)), pane.rows)
Editable(pane, catalog, known) ==
    Identity(pane, catalog) /\ ~WriteDenied(known, Relation(pane))

\* refresh_editability, of a pane.
Judged(pane, catalog, known) ==
    SetEditable([pane EXCEPT !.editing_relation = Relation(pane),
                             !.identity = Identity(pane, catalog)],
                Editable(pane, catalog, known))

\* Session::load_grants: what is known is not asked, nor what is remembered as
\* asked.  Two reads of one relation, one of them forgotten, are one here.
Wanted(known, r) == r # None /\ known[r] = "unknown"

\* refresh_editability of some panes, left to right, the window being on
\* session s.
Refresh(w, judged, s, catalogs, known) ==
    LET wanting == {p \in judged : Wanted(known[s], Relation(w.panes[p]))}
        Remembered(before) == IF before = {} THEN w.loading[s] ELSE Relation(w.panes[Max(before)])
        asking == {p \in wanting : Remembered({q \in wanting : q < p}) # Relation(w.panes[p])}
        relations == {Relation(w.panes[p]) : p \in asking}
    IN [w EXCEPT
          !.panes = [p \in DOMAIN w.panes |->
                       IF p \in judged THEN Judged(w.panes[p], catalogs[s], known[s])
                       ELSE w.panes[p]],
          !.loading[s] = Remembered(wanting),
          !.asked[s] = [r \in Relations |->
                          IF r \in relations /\ w.asked[s][r] = "not" THEN "sent"
                          ELSE w.asked[s][r]]]

RefreshEditability(w, p, s, catalogs, known) == Refresh(w, {p}, s, catalogs, known)
RefreshAll(w, s, catalogs, known) == Refresh(w, DOMAIN w.panes, s, catalogs, known)

\* GridState::set_data_arc: what was staged does not survive its rows.
SetData(pane, rows) == [pane EXCEPT !.rows = rows, !.staged = {}]

\* clear_results, in the active pane.
ClearResults(w, s, catalogs, known) ==
    RefreshEditability([w EXCEPT !.panes[active_pane] = [SetData(@, NoRows) EXCEPT !.results = 0]],
                       active_pane, s, catalogs, known)

\* reload_relation, in the active pane: what the catalog does not have is not
\* asked for.  Session::run holds what finds the slot taken.
ReloadRelation(w, s, catalogs, known) ==
    LET pane == w.panes[active_pane]
        read == [kind |-> "rows", relation |-> Tab(pane).relation,
                 pane |-> active_pane, tab |-> pane.active_tab]
        asking == [w EXCEPT !.panes[active_pane].results = 0, !.running = active_pane]
    IN IF Shape(catalogs[s], Tab(pane).relation) = "absent" THEN ClearResults(w, s, catalogs, known)
       ELSE IF Busy(w, s) THEN [asking EXCEPT !.slot[s].held = read]
       ELSE Started(asking, s, read)

\* refresh_results.  A tab about no relation has no statement to run again.
RefreshResults(w, s) ==
    IF Tab(w.panes[active_pane]).relation = None THEN w
    ELSE ReloadRelation(w, s, snapshot, grants)

RefreshSchemaOn(w, s) == IF Busy(w, s) THEN w ELSE Started(w, s, [kind |-> "catalog"])

\* Of the panes that are judged, one shows rows of another tab than the one in
\* front, or of another session than the window's.
Elsewhere(shown, s, judged) == \E p \in judged \cap DOMAIN shown :
    shown[p].rows \notin {NoRows, [session |-> s, relation |-> Relation(shown[p])]}
\* News of a session in front reaches every pane.
Hears(s) == unheard' = IF s = session THEN unheard \ {s} ELSE unheard \cup {s}
Strays(s, judged) == strayed' = (strayed \/ Elsewhere(panes', s, judged))

Quiet == UNCHANGED gestures
Gesture == gestures < MaxGestures /\ gestures' = gestures + 1
Unsaved == UNCHANGED <<snapshot, grants, pending, outside, history>>

(***************************************************************************)
(* What the user does.                                                     *)
(***************************************************************************)
Reload ==
    /\ Tab(panes[active_pane]).relation # None
    /\ Becomes(ReloadRelation(Screen, session, snapshot, grants))
    /\ UNCHANGED <<active_pane, session>> /\ Unsaved /\ Gesture

\* cache_shown: what a tab takes with it when it stops showing.
CacheShown(pane) == IF pane.staged # {} \/ pane.results > 1 THEN NoRows ELSE pane.rows

\* Slip: rows that are put back are not asked about.
Restored_unasked(w, i, s) ==
    [w EXCEPT !.panes[active_pane] = SetData(@, @.tabs[i].cached)]

\* restore_cached.
Restored(w, i, s) ==
    RefreshEditability([w EXCEPT !.panes[active_pane] = SetData(@, @.tabs[i].cached)],
                       active_pane, s, snapshot, grants)

\* show_tab: the tab in front takes its rows with it, and the window takes the
\* next one's session.
ShowTab(i) ==
    LET pane == panes[active_pane]
        w == [Screen EXCEPT !.panes[active_pane] =
                 [pane EXCEPT !.tabs[pane.active_tab].cached = CacheShown(pane),
                              !.active_tab = i]]
    IN /\ i \in DOMAIN pane.tabs /\ i # pane.active_tab
       /\ session' = pane.tabs[i].session
       /\ \/ /\ pane.tabs[i].relation = None
             /\ Becomes(ClearResults(w, session', snapshot, grants))
             /\ UNCHANGED strayed
          \/ /\ pane.tabs[i].relation # None /\ pane.tabs[i].cached # NoRows
             /\ Becomes(Restored(w, i, session'))
             /\ Strays(session', {active_pane})
          \/ /\ pane.tabs[i].relation # None /\ pane.tabs[i].cached = NoRows
             /\ Becomes(ReloadRelation(w, session', snapshot, grants))
             /\ strayed' = (strayed \/ pane.rows.session \notin {None, session'})
       /\ UNCHANGED <<active_pane, snapshot, grants, pending, outside, typed, written, twice,
                      unheard, misled>>
       /\ Gesture

ActivatePane(p) ==
    /\ p \in DOMAIN panes \ {active_pane}
    /\ active_pane' = p /\ session' = Tab(panes[p]).session
    /\ UNCHANGED screen /\ Unsaved /\ Gesture

\* close_pane: the keyboard moves to a neighbour and the session stays.
ClosePane(p) ==
    LET others == DOMAIN panes \ {p}
        right == {q \in others : q > p}
    IN /\ p \in DOMAIN panes /\ others # {}
       /\ active_pane' = IF active_pane # p THEN active_pane
                         ELSE IF right # {} THEN Min(right) ELSE Max(others)
       /\ panes' = [q \in others |-> panes[q]]
       /\ running_pane' = IF running_pane = p THEN 0 ELSE running_pane
       /\ UNCHANGED <<session, slot, loading_grants, asked, snapshot, grants, pending, outside,
                      typed, written, twice, unheard, misled>>
       /\ Strays(session, {active_pane'} \ {active_pane}) /\ Gesture

Edit ==
    /\ panes[active_pane].editable
    /\ typed' = Append(typed, panes[active_pane].rows)
    /\ Becomes([Screen EXCEPT !.panes[active_pane].staged = @ \cup {Len(typed) + 1}])
    /\ UNCHANGED <<active_pane, session, snapshot, grants, pending, outside, written, twice,
                   strayed, unheard, misled>>
    /\ Gesture

\* Slip: the rows are read again over what is still staged.
Cleared_kept(w) == w

\* GridState::discard_changes, in the active pane.
Cleared(w) == [w EXCEPT !.panes[active_pane].staged = {}]

DiscardChanges ==
    /\ panes[active_pane].staged # {}
    /\ Becomes(Cleared(Screen))
    /\ UNCHANGED <<active_pane, session>> /\ Unsaved /\ Gesture

\* commit_changes and Session::apply: what is staged in the active pane goes
\* to the window's session, which drops it when it is busy.
CommitChanges ==
    LET pane == panes[active_pane]
    IN /\ pane.identity /\ pane.staged # {} /\ ~Busy(Screen, session)
       /\ Becomes(Started(Screen, session, [kind |-> "commit", pane |-> active_pane,
                    edits |-> pane.staged, relation |-> pane.editing_relation]))
       /\ UNCHANGED <<active_pane, session>> /\ Unsaved /\ Gesture

RefreshSchema ==
    /\ ~Busy(Screen, session)
    /\ Becomes(RefreshSchemaOn(Screen, session))
    /\ UNCHANGED <<active_pane, session>> /\ Unsaved /\ Gesture

\* Typing into the structure editor is typing into its draft; Revert puts
\* back what it was drawn from.
TypeDraft ==
    /\ design' = [design EXCEPT !.draft = @ + 1]
    /\ UNCHANGED <<screen, active_pane, session, snapshot, grants, pending_structure,
                   pending_object, outside, history>> /\ Gesture

RevertDraft ==
    /\ design.draft # design.original
    /\ design' = [design EXCEPT !.draft = design.original]
    /\ UNCHANGED <<screen, active_pane, session, snapshot, grants, pending_structure,
                   pending_object, outside, history>> /\ Gesture

\* The sheet and its Save: on_structure_event and commit_structure.  The
\* editor's own tab is the one in front, on the session it designs for.
CommitStructure ==
    /\ session = Designing /\ design.draft # design.original /\ ~Busy(Screen, session)
    /\ Becomes(Started(Screen, session, [kind |-> "ddl", draft |-> design.draft]))
    /\ pending_structure' = TRUE
    /\ UNCHANGED <<active_pane, session, snapshot, grants, design, pending_object, outside,
                   history>> /\ Gesture

\* run_object_statement, for a drop.
DropObject(r) ==
    /\ snapshot[session][r] # "absent" /\ ~Busy(Screen, session)
    /\ Becomes(Started(Screen, session, [kind |-> "drop", relation |-> r]))
    /\ pending_object' = r
    /\ UNCHANGED <<active_pane, session, snapshot, grants, design, pending_structure, outside,
                   history>> /\ Gesture

(***************************************************************************)
(* What lands.                                                             *)
(***************************************************************************)
Freed(w, s) == Started(w, s, Idle)

\* What was held goes next, and nothing is said of what it superseded.
HeldGoes(w, s) == [w EXCEPT !.slot[s] = [task |-> @.held, held |-> Idle]]

Target == IF running_pane = 0 THEN active_pane ELSE running_pane
NowhereToLand(s) == Tab(panes[Target]).session # s

\* retarget, over every tab of the window.
Retarget(w, r) ==
    LET Let(pane) == [pane EXCEPT !.tabs =
          [i \in DOMAIN @ |-> IF @[i].relation = r THEN [@[i] EXCEPT !.relation = None] ELSE @[i]]]
    IN [w EXCEPT !.panes = [p \in DOMAIN @ |-> Let(@[p])]]

\* finish_object_statement, for whatever statement came back.
FinishObject(w, failed) ==
    IF pending_object = None \/ failed THEN w
    ELSE RefreshSchemaOn(RefreshAll(Retarget(w, pending_object), session, snapshot, grants), session)

Refreshed(failed) == IF pending_object = None \/ failed THEN {} ELSE DOMAIN panes

\* One answer more, counted as far as it is asked about.
Drawn(pane, rows) == [SetData(pane, rows) EXCEPT !.results = IF @ < 2 THEN @ + 1 ELSE @]

\* absorb_run: rows for the pane that asked.
LandRows(s, failed) ==
    LET task == slot[s].task
        freed == [Freed(Screen, s) EXCEPT !.running = 0]
        drawn == [freed EXCEPT !.panes[Target] =
                    Drawn(@, [session |-> s, relation |-> task.relation])]
        shown == IF failed THEN freed
                 ELSE RefreshEditability(drawn, Target, session, snapshot, grants)
    IN /\ task.kind = "rows"
       /\ \/ /\ slot[s].held # Idle
             /\ Becomes(HeldGoes(Screen, s))
             /\ UNCHANGED <<pending_object, strayed>>
          \/ /\ slot[s].held = Idle /\ NowhereToLand(s)
             /\ Becomes(freed)
             /\ UNCHANGED <<pending_object, strayed>>
          \/ /\ slot[s].held = Idle /\ ~NowhereToLand(s)
             /\ Becomes(FinishObject(shown, failed))
             /\ pending_object' = None
             /\ Strays(session, {Target} \cup Refreshed(failed))
       /\ UNCHANGED <<active_pane, session, snapshot, grants, design, pending_structure, outside,
                      typed, written, twice, unheard, misled>>
       /\ Quiet

\* absorb_run: a drop has no rows.
LandDrop(s, failed) ==
    LET freed == [Freed(Screen, s) EXCEPT !.running = 0]
    IN /\ slot[s].task.kind = "drop"
       /\ server' = IF failed THEN server
                    ELSE [server EXCEPT ![s].tables[slot[s].task.relation] = "absent"]
       /\ \/ /\ slot[s].held # Idle
             /\ Becomes(HeldGoes(Screen, s))
             /\ UNCHANGED <<pending_object, strayed>>
          \/ /\ slot[s].held = Idle /\ NowhereToLand(s)
             /\ Becomes(freed)
             /\ UNCHANGED <<pending_object, strayed>>
          \/ /\ slot[s].held = Idle /\ ~NowhereToLand(s)
             /\ Becomes(FinishObject(freed, failed))
             /\ pending_object' = None
             /\ Strays(session, Refreshed(failed))
       /\ UNCHANGED <<active_pane, session, snapshot, grants, design, pending_structure, foreign,
                      typed, written, twice, unheard, misled>>
       /\ Quiet

\* absorb_apply and finish_structure: while a design waits, whatever commit
\* comes back is taken for its.
AbsorbApply(w, failed) ==
    /\ Becomes(IF failed THEN w
               ELSE IF pending_structure THEN RefreshSchemaOn(w, session)
               ELSE RefreshResults(Cleared(w), session))
    /\ pending_structure' = (pending_structure /\ ~failed)

LandCommit(s, failed) ==
    LET task == slot[s].task
        took == {[edit |-> e, session |-> s, relation |-> task.relation] : e \in task.edits}
    IN /\ task.kind = "commit"
       /\ AbsorbApply(Freed(Screen, s), failed)
       /\ written' = IF failed THEN written ELSE written \cup took
       /\ twice' = (twice \/ (~failed /\ \E w \in written : w.edit \in task.edits))
       /\ misled' = (misled \/ (~failed /\ (pending_structure \/ task.pane # active_pane)))
       /\ UNCHANGED <<active_pane, session, snapshot, grants, design, pending_object, outside,
                      typed, strayed, unheard>>
       /\ Quiet

LandStructure(s, failed) ==
    /\ slot[s].task.kind = "ddl"
    /\ AbsorbApply(Freed(Screen, s), failed)
    /\ server' = IF failed THEN server ELSE [server EXCEPT ![s].design = slot[s].task.draft]
    /\ UNCHANGED <<active_pane, session, snapshot, grants, design, pending_object, foreign,
                   history>>
    /\ Quiet

\* Slip: a design is taken from the catalog whether or not a save waits.
Adopted_always(s) == [draft |-> server[s].design, original |-> server[s].design]

\* adopt_structure.
Adopted(s) ==
    IF ~pending_structure THEN design
    ELSE [draft |-> server[s].design, original |-> server[s].design]

\* A failed read of the catalog says nothing to the window.
LandCatalog(s, failed) ==
    LET catalogs == [snapshot EXCEPT ![s] = server[s].tables]
        told == RefreshAll(Freed(Screen, s), session, catalogs, grants)
        shown == told.panes[active_pane]
    IN /\ slot[s].task.kind = "catalog"
       /\ \/ /\ failed \/ s # session
             /\ Becomes(Freed(Screen, s))
             /\ UNCHANGED <<design, pending_structure, strayed>>
          \/ /\ ~failed /\ s = session
             /\ Becomes(IF shown.results = 0 /\ Tab(shown).relation # None
                          THEN ReloadRelation(told, session, catalogs, grants) ELSE told)
             /\ design' = Adopted(s) /\ pending_structure' = FALSE
             /\ Strays(session, DOMAIN panes)
       /\ snapshot' = IF failed THEN snapshot ELSE catalogs
       /\ IF failed THEN UNCHANGED unheard ELSE Hears(s)
       /\ UNCHANGED <<active_pane, session, grants, pending_object, outside, typed, written,
                      twice, misled>>
       /\ Quiet

\* load_grants' completion.  A relation the server describes no privileges of
\* is as unknown as before.
\* Slips: what was told is not kept; it stays remembered as asked.
Told_unkept(s, r) == grants

Told(s, r) == IF asked[s][r] = "untold" THEN grants ELSE [grants EXCEPT ![s][r] = asked[s][r]]

Answered(s, r) == [Screen EXCEPT !.asked[s][r] = "not", !.loading[s] = IF @ = r THEN None ELSE @]

\* PrivilegesChanged.  Slip: the panes do not hear of it.
PrivilegesChanged_unheard(w, s, known) == w

PrivilegesChanged(w, s, known) ==
    IF s = session THEN RefreshAll(w, s, snapshot, known) ELSE w

AnswerGrants(s, r) ==
    /\ asked[s][r] = "sent"
    /\ asked' = [asked EXCEPT ![s][r] = server[s].rights[r]]
    /\ UNCHANGED <<panes, slot, running_pane, loading_grants, active_pane, session, snapshot,
                   grants, pending, outside, history>>
    /\ Quiet

LandGrants(s, r) ==
    /\ asked[s][r] \in Rights
    /\ Becomes(PrivilegesChanged(Answered(s, r), s, Told(s, r)))
    /\ grants' = Told(s, r)
    /\ UNCHANGED <<active_pane, session, snapshot, pending, outside, typed, written, twice, misled>>
    /\ Strays(session, IF s = session THEN DOMAIN panes ELSE {})
    /\ Hears(s) /\ Quiet

Land(s, failed) ==
    \/ LandRows(s, failed) \/ LandDrop(s, failed)
    \/ LandCommit(s, failed) \/ LandStructure(s, failed) \/ LandCatalog(s, failed)

\* Other clients alter tables, and give privileges and take them away.
Foreign ==
    /\ foreign < MaxForeign /\ foreign' = foreign + 1
    /\ \E s \in Sessions, r \in Contested :
          \/ \E shape \in Shapes : server' = [server EXCEPT ![s].tables[r] = shape]
          \/ \E right \in Rights : server' = [server EXCEPT ![s].rights[r] = right]
    /\ UNCHANGED <<screen, active_pane, session, snapshot, grants, pending, history>>
    /\ Quiet

Next ==
    \/ Reload \/ Edit \/ DiscardChanges \/ CommitChanges \/ RefreshSchema
    \/ TypeDraft \/ RevertDraft \/ CommitStructure
    \/ \E i \in 1..Max({Len(Strips[p]) : p \in DOMAIN Strips}) : ShowTab(i)
    \/ \E p \in DOMAIN Strips : ActivatePane(p) \/ ClosePane(p)
    \/ \E r \in Relations : DropObject(r)
    \/ \E s \in Sessions, failed \in BOOLEAN :
          Land(s, failed)
    \/ \E s \in Sessions, r \in Relations : AnswerGrants(s, r) \/ LandGrants(s, r)
    \/ Foreign

Spec == Init /\ [][Next]_vars

\* The server answers a read of privileges, and the UI thread takes in what
\* has been answered: only LandGrants does, enabled for as long as an answer
\* waits, so the second conjunct is its weak fairness.
Fairness == \A s \in Sessions, r \in Relations :
    WF_vars(AnswerGrants(s, r)) /\ []<>(asked[s][r] \notin Rights)
FairSpec == Spec /\ Fairness

(***************************************************************************)
(* Properties.                                                             *)
(***************************************************************************)
Rows == [session : Sessions \cup {None}, relation : Relations \cup {None}]
Open == [session : Sessions, relation : Relations \cup {None}, cached : Rows]

TypeOK ==
    /\ \A p \in DOMAIN panes :
          panes[p] \in [tabs : Seq(Open), active_tab : Nat, results : 0..2, rows : Rows,
                        editing_relation : Relations \cup {None}, identity : BOOLEAN,
                        editable : BOOLEAN, staged : SUBSET (1..Len(typed))]
    /\ active_pane \in DOMAIN panes /\ running_pane \in DOMAIN panes \cup {0}
    /\ session \in Sessions
    /\ snapshot \in [Sessions -> [Relations -> Shapes]]
    /\ grants \in [Sessions -> [Relations -> {"write", "read", "unknown"}]]
    /\ loading_grants \in [Sessions -> Relations \cup {None}]
    /\ \A s \in Sessions : loading_grants[s] # None => asked[s][loading_grants[s]] # "not"
    /\ asked \in [Sessions -> [Relations -> Rights \cup {"not", "sent"}]]
    /\ typed \in Seq(Rows) /\ pending_object \in Relations \cup {None}

\* What a commit writes, it writes to the table and the server whose rows the
\* edits were typed over (editing.rs: "a result set is matched against the
\* relation it came out of").
EditsGoHome ==
    \A w \in written : typed[w.edit] = [session |-> w.session, relation |-> w.relation]

\* So it is as long as no pane was judged, or left to the keyboard, by another
\* table or another server than those of the rows it showed.
EditsGoHomeUnlessStrayed == ~strayed => EditsGoHome

\* Under the same condition a grid can be edited exactly if what is known of
\* its table now says so, whatever arrived since its rows did, unless its
\* server had news while another was in front (workspace.rs, SchemaChanged and
\* PrivilegesChanged: "what the connected role may do here is one of the reasons
\* it is read-only").
EditabilityIsCurrent ==
    ~strayed /\ session \notin unheard =>
        \A p \in DOMAIN panes :
            LET own == [session |-> session, relation |-> Relation(panes[p])]
            IN panes[p].rows = own
               => (panes[p].editable <=> Editable(panes[p], snapshot[session], grants[session]))

\* An edit is written once, under the same condition and unless a commit's
\* outcome was taken for another pane's or for a design's (workspace.rs,
\* absorb_apply: "A commit that went through clears the staged changes").
WrittenOnce == twice => misled \/ strayed

\* The window is well formed, and edits go home, once.
EditsInOrder == TypeOK /\ EditsGoHomeUnlessStrayed /\ WrittenOnce

\* With its server in front, a design that is not saved gives way to a catalog
\* only when the table was saved since it was drawn (structure.rs,
\* finish_structure: "what is on screen is still what is not saved").
UnsavedDesignIsKept ==
    [][design' # design /\ slot' # slot /\ session = Designing =>
           server[Designing].design # design.original]_vars

\* The reading of privileges comes to rest, whatever tabs are shown and panes
\* refreshed, once no read of a session goes without an answer (editing.rs,
\* refresh_editability: "browsing a table costs one extra round trip once").
GrantsSettleOnceTold == \A s \in Sessions :
    (<>[](\A r \in Relations : server[s].rights[r] # "untold"))
        => <>[](\A r \in Relations : asked[s][r] = "not")
=============================================================================
