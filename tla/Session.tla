------------------------------ MODULE Session ------------------------------
(***************************************************************************)
(* One database connection of a window: src/crates/tupli/src/session.rs.   *)
(*                                                                         *)
(* A session has ONE slot.  Connecting, reading the catalog, walking the   *)
(* keyspace, reading a key, running a statement and committing grid edits  *)
(* all take it, run on Tokio, and land back on the UI thread, where the    *)
(* slot is freed.  A statement handed over while the slot is taken is held *)
(* in `superseding'.  Calls (one action each) come from the window;        *)
(* Answer and CancelArrives are the server's side of the slot; the Land    *)
(* actions are the completions that run back on the UI thread.             *)
(*                                                                         *)
(* A statement is a record: its place in the order the window handed       *)
(* statements over, and what session.rs's `writes' says of its first       *)
(* keyword.  The reads of privileges use the connection but not the slot,  *)
(* and are left out.                                                       *)
(***************************************************************************)
EXTENDS Naturals, Sequences

CONSTANTS
    Drivers,    \* the engines: capabilities, and the operations the window asks for
    Pages,      \* how many pages one whole walk of the keyspace takes
    MaxAsks,    \* bound: statements handed to `run'
    MaxTurns,   \* bound: operations that take the slot
    MaxCancels  \* bound: cancel requests on their way at once

ASSUME SessionAssumption ==
    /\ Drivers \subseteq [sql : BOOLEAN, paged_catalog : BOOLEAN, cancel : BOOLEAN,
                         calls : SUBSET {"catalog", "scan", "key", "run", "apply"}]
    /\ Pages \in Nat \ {0}
    /\ MaxAsks \in Nat /\ MaxTurns \in Nat /\ MaxCancels \in Nat

VARIABLES
    caps,           \* the engine it talks to: an element of Drivers
    state,          \* SessionState
    readOnly,       \* config.is_read_only(), of the config the session holds
    marked,         \* the same, of the connection as it is saved
    activity,       \* Activity
    connection,     \* whether a driver is held
    snapshot,       \* whether a SQL catalog is held
    keyspace,       \* whether a key-value catalog is held
    keys,           \* pages of keys listed so far, each tagged with its walk
    keys_complete,
    key_cursor,     \* the page "load more" resumes from; 0 is no cursor
    key_walking,    \* whether key_pattern has been set (the window only asks for "*")
    task,           \* the operation in the slot
    superseding,    \* the statement held while the slot is taken
    last,           \* the last published Run: its statement and its answer
    emitted,        \* the SessionEvents of the last step
    held,           \* whether the window still holds this session
    cancels,        \* cancel requests on their way to the server
    asked,          \* statements handed over so far
    turns,          \* operations that have taken the slot so far
    stopAt,         \* asked, at the last `cancel'
    catalogs        \* catalogs put in place so far

slot  == <<activity, task>>
tree  == <<snapshot, keyspace, keys, keys_complete, key_cursor, catalogs>>
ghost == <<asked, turns, stopAt>>
conf  == <<caps, readOnly, marked>>
vars  == <<state, conf, connection, slot, tree, key_walking, superseding, last,
           emitted, held, cancels, ghost>>

Ops == {"none", "connect", "catalog", "scan", "key", "run", "apply"}
Answers == {"none", "ok", "error", "canceled"}
Statements == [id : 1..MaxAsks, writes : BOOLEAN]
NoStatement == [id |-> 0, writes |-> FALSE]
Tasks == [op : Ops, stmt : Statements \cup {NoStatement}, turn : Nat, answer : Answers]
NoTask == [op |-> "none", stmt |-> NoStatement, turn |-> 0, answer |-> "none"]
NoRun == [stmt |-> NoStatement, answer |-> "none"]

ActivityOf(op) ==
    CASE op = "none" -> "Idle"
      [] op = "connect" -> "Connecting"
      [] op \in {"catalog", "scan"} -> "Introspecting"
      [] op \in {"key", "run", "apply"} -> "Running"

IsBusy == activity # "Idle"

Refused(s) == readOnly /\ caps.sql /\ s.writes

Init ==
    /\ caps \in Drivers
    /\ readOnly \in BOOLEAN /\ marked = readOnly
    /\ state = "Offline" /\ activity = "Idle" /\ connection = FALSE
    /\ snapshot = FALSE /\ keyspace = FALSE
    /\ keys = <<>> /\ keys_complete = FALSE /\ key_cursor = 0 /\ key_walking = FALSE
    /\ task = NoTask /\ superseding = NoStatement /\ last = NoRun
    /\ emitted = {} /\ held = TRUE /\ cancels = 0
    /\ asked = 0 /\ turns = 0 /\ stopAt = 0 /\ catalogs = 0

(***************************************************************************)
(* Taking and freeing the slot.                                            *)
(***************************************************************************)
Take(op, s) ==
    /\ turns' = turns + 1
    /\ task' = [op |-> op, stmt |-> s, turn |-> turns + 1, answer |-> "none"]
    /\ activity' = ActivityOf(op)

Free == task' = NoTask /\ activity' = "Idle"

\* Slip: the keys of the old catalog stay on the tree.
SetCatalog_keeping_keys ==
    /\ snapshot' = caps.sql
    /\ keyspace' = ~caps.sql
    /\ keys_complete' = FALSE /\ key_cursor' = 0
    /\ catalogs' = catalogs + 1
    /\ UNCHANGED keys

\* Both catalogs are set every time, and the keys of the old one are dropped.
SetCatalog ==
    /\ snapshot' = caps.sql
    /\ keyspace' = ~caps.sql
    /\ keys' = <<>> /\ keys_complete' = FALSE /\ key_cursor' = 0
    /\ catalogs' = catalogs + 1

(***************************************************************************)
(* The window's calls.                                                     *)
(***************************************************************************)
\* The window connects a session once when it makes it, and again (`retry',
\* with the connection's details afresh) only when the last attempt failed.
Connect ==
    /\ held /\ state \in {"Offline", "Failed"} /\ ~IsBusy /\ turns < MaxTurns
    /\ state' = "Connecting" /\ connection' = FALSE
    /\ readOnly' = marked
    /\ Take("connect", NoStatement)
    /\ emitted' = {"StateChanged"}
    /\ UNCHANGED <<caps, marked, tree, key_walking, superseding, last, held, cancels, asked, stopAt>>

\* The connection is edited and saved.  A session that is not in a failed
\* state is handed back as it is, with the config it has (a failed one is
\* retried: Connect).
SaveConnection ==
    /\ held
    /\ marked' = ~marked
    /\ emitted' = {}
    /\ UNCHANGED <<caps, state, readOnly, connection, slot, tree, key_walking, superseding, last,
                   held, cancels, ghost>>

\* Slip: the catalog outlives the connection.
Disconnect_keeping_catalog ==
    /\ held
    /\ held' = FALSE
    /\ Free
    /\ connection' = FALSE /\ state' = "Offline"
    /\ emitted' = {"SchemaChanged", "StateChanged"}
    /\ UNCHANGED <<conf, tree, key_walking, superseding, last, cancels, ghost>>

Disconnect ==
    /\ held
    /\ held' = FALSE
    /\ Free
    /\ connection' = FALSE /\ snapshot' = FALSE /\ keyspace' = FALSE
    /\ keys' = <<>> /\ keys_complete' = FALSE /\ key_cursor' = 0
    /\ state' = "Offline"
    /\ emitted' = {"SchemaChanged", "StateChanged"}
    /\ UNCHANGED <<conf, key_walking, superseding, last, cancels, ghost, catalogs>>

RefreshSchema ==
    /\ "catalog" \in caps.calls /\ held /\ connection /\ ~IsBusy /\ turns < MaxTurns
    /\ Take("catalog", NoStatement)
    /\ emitted' = {}
    /\ UNCHANGED <<state, conf, connection, tree, key_walking, superseding, last, held,
                   cancels, asked, stopAt>>

\* A first walk of a pattern starts over; a finished one is not walked again.
ScanKeys ==
    /\ "scan" \in caps.calls /\ held /\ connection /\ caps.paged_catalog /\ ~IsBusy
    /\ turns < MaxTurns
    /\ IF key_walking
         THEN ~keys_complete /\ UNCHANGED <<keys, keys_complete, key_cursor>>
         ELSE keys' = <<>> /\ keys_complete' = FALSE /\ key_cursor' = 0
    /\ key_walking' = TRUE
    /\ Take("scan", NoStatement)
    /\ emitted' = {}
    /\ UNCHANGED <<state, conf, connection, snapshot, keyspace, superseding, last, held,
                   cancels, asked, stopAt, catalogs>>

OpenKey ==
    /\ "key" \in caps.calls /\ held /\ connection /\ ~IsBusy /\ turns < MaxTurns
    /\ Take("key", NoStatement)
    /\ emitted' = {}
    /\ UNCHANGED <<state, conf, connection, tree, key_walking, superseding, last, held,
                   cancels, asked, stopAt>>

Publish(s, answer) ==
    /\ last' = [stmt |-> s, answer |-> answer]
    /\ emitted' = {"Finished"}

\* `run': refused without asking the server, held, or sent.
Asked(s) ==
    /\ "run" \in caps.calls /\ held /\ asked < MaxAsks
    /\ s.id = asked + 1
    /\ asked' = asked + 1
    /\ UNCHANGED <<state, conf, connection, tree, key_walking, held, cancels, stopAt>>

RunRefused(s) ==
    /\ Asked(s)
    /\ ~connection \/ Refused(s)
    /\ Publish(s, "error")
    /\ UNCHANGED <<slot, superseding, turns>>

RunHeld(s) ==
    /\ Asked(s)
    /\ connection /\ ~Refused(s) /\ IsBusy
    /\ superseding' = s
    /\ emitted' = {}
    /\ UNCHANGED <<slot, last, turns>>

\* Slip: only a held statement is asked whether it may be sent.
RunSent_unasked(s) ==
    /\ Asked(s)
    /\ connection /\ ~IsBusy
    /\ Take("run", s)
    /\ emitted' = {}
    /\ UNCHANGED <<superseding, last>>

RunSent(s) ==
    /\ Asked(s)
    /\ connection /\ ~Refused(s) /\ ~IsBusy
    /\ Take("run", s)
    /\ emitted' = {}
    /\ UNCHANGED <<superseding, last>>

\* `apply', with at least one statement.  A commit that finds the slot taken
\* is dropped: no state changes and nothing is said.
ApplyRefused ==
    /\ "apply" \in caps.calls /\ held
    /\ ~connection \/ readOnly
    /\ emitted' = {"Applied"}
    /\ UNCHANGED <<state, conf, connection, slot, tree, key_walking, superseding, last, held,
                   cancels, ghost>>

Apply ==
    /\ "apply" \in caps.calls /\ held /\ connection /\ ~readOnly /\ ~IsBusy /\ turns < MaxTurns
    /\ Take("apply", NoStatement)
    /\ emitted' = {}
    /\ UNCHANGED <<state, conf, connection, tree, key_walking, superseding, last, held,
                   cancels, asked, stopAt>>

\* Slip: the server is asked to stop, and what is held goes next all the same.
Cancel_keeping_held ==
    /\ held /\ connection
    /\ stopAt' = asked
    /\ IF IsBusy /\ caps.cancel
         THEN cancels < MaxCancels /\ cancels' = cancels + 1
         ELSE UNCHANGED cancels
    /\ emitted' = {}
    /\ UNCHANGED <<state, conf, connection, slot, tree, key_walking, superseding, last, held,
                   asked, turns>>

\* `cancel': what was held is withdrawn, and if something is running the
\* server is asked, from a second connection, to stop it.
Cancel ==
    /\ held /\ connection
    /\ superseding' = NoStatement
    /\ stopAt' = asked
    /\ IF IsBusy /\ caps.cancel
         THEN cancels < MaxCancels /\ cancels' = cancels + 1
         ELSE UNCHANGED cancels
    /\ emitted' = {}
    /\ UNCHANGED <<state, conf, connection, slot, tree, key_walking, last, held, asked, turns>>

(***************************************************************************)
(* The server's side of the slot.                                          *)
(***************************************************************************)
InFlight == task.op # "none" /\ task.answer = "none"

Answer ==
    /\ InFlight
    /\ \E a \in {"ok", "error"} : task' = [task EXCEPT !.answer = a]
    /\ emitted' = {}
    /\ UNCHANGED <<state, conf, connection, activity, tree, key_walking, superseding, last,
                   held, cancels, ghost>>

\* A cancel request names the connection, not the statement: it stops what
\* the connection is running when it gets there, and nothing if it is idle.
CancelArrives ==
    /\ cancels > 0 /\ cancels' = cancels - 1
    /\ IF InFlight THEN task' = [task EXCEPT !.answer = "canceled"] ELSE UNCHANGED task
    /\ emitted' = {}
    /\ UNCHANGED <<state, conf, connection, activity, tree, key_walking, superseding, last,
                   held, ghost>>

(***************************************************************************)
(* Completions, on the UI thread.                                          *)
(***************************************************************************)
Lands(op) == task.op = op /\ task.answer # "none"
Succeeded == task.answer = "ok"

LandConnect ==
    /\ Lands("connect")
    /\ Free
    /\ IF Succeeded
         THEN /\ connection' = TRUE
              /\ SetCatalog
              /\ state' = "Connected"
              /\ emitted' = {"SchemaChanged", "StateChanged"}
         ELSE /\ state' = "Failed"
              /\ emitted' = {"StateChanged"}
              /\ UNCHANGED <<connection, tree>>
    /\ UNCHANGED <<conf, key_walking, superseding, last, held, cancels, ghost>>

LandCatalog ==
    /\ Lands("catalog")
    /\ Free
    /\ IF Succeeded
         THEN SetCatalog /\ emitted' = {"SchemaChanged"}
         ELSE UNCHANGED tree /\ emitted' = {}
    /\ UNCHANGED <<state, conf, connection, key_walking, superseding, last, held, cancels, ghost>>

LandScan ==
    /\ Lands("scan")
    /\ Free
    /\ IF Succeeded
         THEN LET page == IF key_cursor = 0 THEN 1 ELSE key_cursor
                  more == IF page = Pages THEN 0 ELSE page + 1
              IN /\ keys' = Append(keys, [catalog |-> catalogs, page |-> page])
                 /\ keys_complete' = (more = 0)
                 /\ key_cursor' = more
                 /\ emitted' = {"KeysChanged"}
         ELSE UNCHANGED <<keys, keys_complete, key_cursor>> /\ emitted' = {}
    /\ UNCHANGED <<state, conf, connection, snapshot, keyspace, key_walking, superseding, last,
                   held, cancels, ghost, catalogs>>

LandKey ==
    /\ Lands("key")
    /\ Free
    /\ emitted' = {"KeyOpened"}
    /\ UNCHANGED <<state, conf, connection, tree, key_walking, superseding, last, held,
                   cancels, ghost>>

\* Slip: the held statement is held still after it was sent.
LandRun_resending ==
    /\ Lands("run")
    /\ IF superseding = NoStatement
         THEN Free /\ Publish(task.stmt, task.answer) /\ UNCHANGED turns
         ELSE Take("run", superseding) /\ emitted' = {} /\ UNCHANGED last
    /\ UNCHANGED <<state, conf, connection, tree, key_walking, superseding, held, cancels,
                   asked, stopAt>>

\* A statement superseded while it was in flight is not published: the one
\* that was waiting goes through `run' again instead.
LandRun ==
    /\ Lands("run")
    /\ superseding' = NoStatement
    /\ IF superseding = NoStatement
         THEN Free /\ Publish(task.stmt, task.answer) /\ UNCHANGED turns
         ELSE IF ~connection \/ Refused(superseding)
              THEN Free /\ Publish(superseding, "error") /\ UNCHANGED turns
              ELSE Take("run", superseding) /\ emitted' = {} /\ UNCHANGED last
    /\ UNCHANGED <<state, conf, connection, tree, key_walking, held, cancels, asked, stopAt>>

\* Slip: the commit lands without ending what the session says it is doing.
LandApply_still_running ==
    /\ Lands("apply")
    /\ task' = NoTask
    /\ emitted' = {"Applied"}
    /\ UNCHANGED <<state, conf, connection, activity, tree, key_walking, superseding, last,
                   held, cancels, ghost>>

LandApply ==
    /\ Lands("apply")
    /\ Free
    /\ emitted' = {"Applied"}
    /\ UNCHANGED <<state, conf, connection, tree, key_walking, superseding, last, held,
                   cancels, ghost>>

Call == \/ Connect \/ Disconnect \/ SaveConnection \/ RefreshSchema \/ ScanKeys \/ OpenKey
        \/ \E s \in Statements : RunRefused(s) \/ RunHeld(s) \/ RunSent(s)
        \/ ApplyRefused \/ Apply \/ Cancel
Land == \/ LandConnect \/ LandCatalog \/ LandScan \/ LandKey \/ LandRun \/ LandApply

Next == Call \/ Answer \/ CancelArrives \/ Land

Spec == Init /\ [][Next]_vars

\* The server answers what it was sent, and the UI thread runs what landed.
Fairness == WF_vars(Answer) /\ WF_vars(Land)
FairSpec == Spec /\ Fairness

(***************************************************************************)
(* Properties.                                                             *)
(***************************************************************************)
TypeOK ==
    /\ state \in {"Offline", "Connecting", "Connected", "Failed"}
    /\ caps \in Drivers /\ readOnly \in BOOLEAN /\ marked \in BOOLEAN
    /\ activity \in {"Idle", "Connecting", "Introspecting", "Running"}
    /\ connection \in BOOLEAN /\ snapshot \in BOOLEAN /\ keyspace \in BOOLEAN
    /\ keys \in Seq([catalog : Nat, page : Nat])
    /\ keys_complete \in BOOLEAN /\ key_walking \in BOOLEAN /\ key_cursor \in Nat
    /\ task \in Tasks /\ superseding \in Statements \cup {NoStatement}
    /\ last \in [stmt : Statements \cup {NoStatement}, answer : Answers]
    /\ emitted \subseteq {"StateChanged", "SchemaChanged", "KeysChanged", "KeyOpened",
                          "Finished", "Applied"}
    /\ held \in BOOLEAN /\ cancels \in Nat
    /\ asked \in Nat /\ turns \in Nat /\ stopAt \in Nat /\ catalogs \in Nat

\* What a session says it is doing, what is in its slot, and what it holds of
\* the server agree: it is busy exactly when something is in flight, it holds a
\* driver exactly when it is connected, exactly one of the two catalogs is set
\* on a connected session (session.rs, Session::keyspace), and nothing but a
\* connect is in flight without a driver.
Coherent ==
    /\ activity = ActivityOf(task.op)
    /\ connection = (state = "Connected")
    /\ (state = "Connecting") = (task.op = "connect")
    /\ connection = (snapshot # keyspace)
    /\ ~connection => ~snapshot /\ ~keyspace /\ task.op \in {"none", "connect"}

\* What the panes, the tree and the status bar read of a session agrees, well
\* formed as it is, after any call and any answer (session.rs, Session::free).
SessionHolds == TypeOK /\ Coherent

\* A session whose config is read-only has no write in flight, neither one it
\* sent at once nor one it held and sent later, and no commit of grid edits.
ReadOnlySendsNoWrite ==
    /\ task.op = "run" => ~Refused(task.stmt)
    /\ task.op = "apply" => ~readOnly

\* `cancel' withdraws: a statement handed over before the last cancel is never
\* sent after it, whatever was holding it back.
WithdrawnNeverSent ==
    [][task'.op = "run" /\ task'.turn # task.turn => task'.stmt.id > stopAt]_vars

\* The keys on show are the first pages of one walk of the catalog in place,
\* in the server's order, each once; the cursor is the page after them, and
\* the walk is complete exactly when its last page is among them.
KeysAreOneWalk ==
    /\ Len(keys) <= Pages
    /\ \A i \in 1..Len(keys) : keys[i] = [catalog |-> catalogs, page |-> i]
    /\ keys_complete <=> Len(keys) = Pages
    /\ key_cursor = IF Len(keys) \in {0, Pages} THEN 0 ELSE Len(keys) + 1

\* Nothing is sent twice: neither the statement that just landed nor the one
\* published last is what goes next, however it was held and superseded.
NeverResent ==
    [][task'.op = "run" /\ task'.turn # task.turn
         => task'.stmt \notin {task.stmt, last.stmt}]_vars

\* Whatever takes the slot gives it back, so a session never stays busy.
SlotComesFree == IsBusy ~> ~IsBusy
=============================================================================
