# tupli: models, checks and proofs

tupli is a desktop database client in Rust (GPUI) for PostgreSQL, SQLite, Redis and ClickHouse. This
directory holds TLA+ specifications of the parts of it whose correctness depends on the *order* things
happen in: connections and their busy slot, a window whose tabs and panes send statements and file the
answers, the edits staged in a grid and the transaction that writes them, the drivers' conversations with
their servers, the text editor with its undo, and what is written down and read back by the next launch.

The code is a single-threaded UI (GPUI entities, one callback at a time) over a Tokio runtime that
talks to servers. Every operation is therefore two atomic steps of the UI thread, the *call* and the
*completion*, with anything at all in between: other calls, other completions, a cancel, a closed tab.
The models keep that grain: one action per call, one per completion, and one for what the server does.
The drivers run on other threads, and there the grain is the lock, the packet or the reply.

## The system

| Part | State it keeps | Operations | What makes it hard | Modules |
|---|---|---|---|---|
| **Session** (`tupli/src/session.rs`) | `state`, `activity`, `connection`, `snapshot`/`keyspace`, `keys` + cursor, `task`, `superseding`, `last` | connect, disconnect, refresh_schema, scan_keys, open_key, run, apply, cancel, and each completion | one slot shared by six kinds of operation; a held statement; a cancel that names a connection and not a statement | `Session` |
| **Window** (`workspace.rs`, `pane.rs`, `tabs.rs`) | panes with tabs, queue, results, grid; `active_pane`, `running_pane`, `pending_history`, `session` | run, scripts, cancel, show/open/close tabs, split/activate/close panes, absorb_run, record_run | answers land after tabs and panes moved; one `running_pane` and one `pending_history` for several sessions | `Window` |
| **Connections** (`workspace.rs`, `sidebar.rs`, `restore.rs`) | saved connections, `sessions`, each tab's session or where it was restored from, the window's session | open, save, delete, disconnect, open/switch database, open a table, show and close tabs, catalogs that arrive, launch, quit | sessions come and go under tabs that point at them or remember them | `Connections` |
| **Staged edits** (`sqlgen/src/change.rs`) | edits, inserts (slots), deletes, undo and redo stacks | set, insert, delete, undelete, revert, clear, undo, redo | exact undo across new rows that come and go | `Changes`, `PendingChanges` |
| **Grid** (`grid/src/state.rs`) | change set, editable, selection, cursor, open cell editor | select, edit, stage, add/delete/revert rows, undo/redo, discard, lock, set_data | display rows mean something else after every step | `GridEdits` |
| **Commit** (`sqlgen/src/dml.rs`, `db_pg/src/client.rs`, `editing.rs`) | staged edits, statements, server transaction | commit_changes, BEGIN, each statement, ROLLBACK, COMMIT, absorb_apply, refresh | other writers, cancel, a failed query inside the transaction, a lost connection | `Commit`, `AtomicCommit` |
| **Editability** (`editing.rs`, `privileges.rs`) | per-pane editability, catalogs, grants read one at a time | refresh_editability, privileges, structure save, drop, commit | reads that race catalogs and the tab in front; a window with one session for panes of several | `Editing` |
| **Table design** (`structure.rs`, `sqlgen/src/table.rs`) | draft, open field, the save in flight | fields, columns, key, preview, commit, adopt | statements that depend on each other; a catalog that arrives under a draft | `TableDesign` |
| **Browsing** (`workspace.rs`, `filter.rs`, `grid/src/state.rs`) | chips, page, sort, cached rows | chips, pages, sorting, following a key | rows and the question they answer part company | `Browse` |
| **SQLite driver** (`db_sqlite/src/client.rs`) | connection behind a lock, cancel flag | query, apply, cancel, reconnect | blocking threads that outlive their callers | `SqliteClient` |
| **ClickHouse driver** (`db_clickhouse/src/client.rs`) | one stream | query, insert, cancel, ping | staying in step with the server after errors and cancels | `ClickHouseClient` |
| **Redis driver** (`db_redis/src`) | cursor, replies | scan, pages of a key, console | keys that come and go between a page and the question what they are; a list paged by positions that slide | `RedisClient`, `RedisKey` |
| **Saved queries** (`store/src/saved.rs`, `workspace.rs`) | rows of the store, the list the window read, tabs' names | save, rename, delete, open, reload | a name looked up in a list read earlier | `SavedQueries` |
| **Store** (`store/src/lib.rs`, `secrets.rs`) | the file and its version, Keychain, what is remembered of it | migrate, connections, passwords | a crash between two statements; two threads at one password | `LocalStore` |
| **Editor** (`editor/src`) | text, selection, history, composition | every key that edits or moves, input method, undo, redo | grouping, several edits in one step, offsets kept across edits | `EditorText`, `SqlScript` |
| **Layout and restore** (`pane.rs`, `restore.rs`, `tabs.rs`) | the tree with its fractions, panes, tabs, the session file | split, close, drag, move, pin, type, save, launch | indices that shift; one console per pane | `WindowLayout` |
| **Import and export** (`import.rs`, `grid/src/import.rs`, `export.rs`, `sqlgen/src/bulk.rs`) | file, sheet, note of the import | export, sniff, read, match, run | quotes; records and lines; a note left for a commit that was refused | `Import` |
| Introspection, type decoding, completion, highlighting, formatting, painting, UI kit | view state | decoding, ranking, drawing | none whose order a model would tell apart | not modelled |

How they interact: the window calls `Session::run`/`apply`/`cancel` directly, and learns of completions
through the session's events (`Finished`, `Applied`, `SchemaChanged`, `KeysChanged`, `PrivilegesChanged`),
which its handlers take in as `absorb_run`, `absorb_apply` and so on. The grid emits `ChangesEdited`; the
window reads its change set to generate statements. Sessions never call the window. Drivers are futures
run on Tokio; dropping a session's `task` drops the future that waits, not what the server does.

`PROJECT.json` lists the components with their files, the hazards with the line each bites at, and for
every definition the lines it translates.

## Modules

* **Session**: one connection. `task` is the operation in the slot with the answer the server gave it;
  `Take`/`Free` are `activity = …; task = Some(spawn(…))` and the end of the completion. `Answer` and
  `CancelArrives` are the server's side; each `Land…` is the body of a completion. `caps` is frozen: the
  model is of every engine in `Drivers` at once. `stopAt`, `asked`, `turns` and `catalogs` are history
  variables.
* **Window**: panes, tabs and dispatch. A statement is its place in `sent`; the answer to it is a kind
  (`rows`, `done`, `error`); a grid holds the statement whose rows it shows. Sessions are reduced to the
  statement in flight and the one held; they stay connected (Session has those paths).
* **Connections**: one pane, the sessions of a window and what points at them. A session is a number, in
  the order of `Workspace::sessions`; `Bind`, `AdoptTab` and `Adopt` are `bind_active_tab`, `adopt_tab` and
  `adopt_session`, and the gestures are composed of them as the code composes them. `elsewhere` remembers
  that the last gesture moved the window and not the tab in front, which is what two gestures do.
* **Changes / PendingChanges / GridEdits**: `Changes` is the type as functions on change sets;
  `PendingChanges` is that type under any sequence of calls with its history beside it; `GridEdits` is
  what the grid composes of it, resolving display rows at the moment each operation runs, as `row_ref`
  does. Its loops over the selected rows are functions of the rows already done, so that a proof can go
  through them row by row. MCParts runs both, a behaviour being of one of them.
* **AtomicCommit / Commit**: the promise ("all of it or none of it") and the transaction that keeps
  it. A row is its key and one value; `done` are the rows already written in the open transaction, so
  `Seen` is what the transaction sees and `table` what everyone else does. The server's rules (row locks,
  unique constraints checked per statement, an aborted transaction, COMMIT of one) are external and marked
  so in the map.
* **Editing**: tabs of tables over two servers in two panes. Editability is judged by the *window's*
  session, as the code does; `strayed` remembers the step (an activated or closed pane) after which the
  window's session is not the pane's, or a tab of another session is shown over rows that stay until its own
  come, and `misled` a commit whose outcome was taken for another's. What a handler does to the screen is a function
  on a record of it (`Screen`, `Becomes`), so that `Refresh` can be composed into the handlers that call it;
  it judges all panes at once and says of the reads of privileges what judging them left to right leaves.
  Privileges are read one at a time; another client alters tables.
* **TableDesign**: a draft is a name, columns and a key; a save is the list of statements `alter` makes of
  it, which the server (external) runs one by one; `Outcome` is the table or the refusal.
* **Browse**: chips are joined as the code brackets them; a statement is its relation, rows, page and
  order, and the server may return rows in any order the statement leaves open.
* **SqliteClient**: every call on a thread of its own, the lock, the flag and the interrupt as separate
  steps; the file has one writer. **ClickHouseClient**: the packet loop against a server that writes
  packets and a socket that breaks. **RedisClient**: walks of the keyspace by cursor beside other clients.
  **RedisKey**: the pages of a key, while others put elements in (anywhere in a list or a sorted set, at the end
  of a stream, in their bucket of a hash or a set) and take them out; `slid` remembers what moved the positions
  of a list under its cursor, and a walked hash or set may return what it returned before, as HSCAN and SSCAN
  may. **SavedQueries**: rows, the list the window read last, and the tabs. **LocalStore**: statements of the
  migrations one by one with crashes between them, and the Keychain with what is remembered.
* **EditorText / SqlScript**: text is a short sequence over an alphabet in which every class the code
  tells apart has a letter; the history is the code's two stacks of steps. **WindowLayout**: the tree with
  exact fractions, panes, tabs and the file. **Import**: a file is a sequence of characters, read by the
  code's automaton.
* **MCSession, MCSessions, MCWindow, MCWindows, MCConnections, MCDrivers, MCEditing, MCTables, MCParts**: instances.
  MCSessions, MCWindows, MCDrivers, MCTables and MCParts put several components side by side; a behaviour is one of one
  of them.
* **Session_proofs, Commit_proofs, Connections_proofs, Window_proofs**: what is proved of the module each is
  named after. **PendingChanges_proofs**: of PendingChanges and GridEdits. **Drivers_proofs**: of SqliteClient,
  ClickHouseClient, RedisClient and RedisKey. **Store_proofs**: of SavedQueries and LocalStore. **Tables_proofs**:
  of Editing and Browse.

Convention: an operator named `Foo_bar`, defined before `Foo` and commented *Slip*, is `Foo` with a
plausible mistake. Nothing uses it; replacing `Foo` by it must make the property it is listed with fail,
which shows that the property depends on that line of code.

## What is checked

Passing runs:

| Run | Bounds | Shows |
|---|---|---|
| `session` | a SQL and a Redis session, 3 statements, 5 operations, walks of 2 pages, 1 cancel in the air; a commit over 3 rows (one new), 2 values, a unique column, 2 commits, 1 foreign write, every disturbance | busy flag, driver, catalogs and slot agree; a read-only session sends no write; cancelled statements are never sent; nothing is sent twice; keys on show are one walk; the slot always comes free; a commit implements `AtomicCommit`, is all or nothing, leaves no transaction behind, can reuse freed values, and ends |
| `window` | 2 sessions, 3 statements, 2 panes, 3 tabs; 1 session split, 4 statements | rows stay under query tabs of their own session; scripts never interleave; outcomes, rows and answers reach the statement, pane and tab they belong to; a script that is not overtaken ends |
| `drivers` | 2 SQLite connections to one file, a ClickHouse stream, a Redis keyspace and a paged key (3 elements, pages of 1, 2 taken out) beside other clients, 2 tabs of saved queries, 2 migrations with crashes; 2 connections of 2 databases, 3 tabs, 3 gestures after a restored session | what each caller was told is what happened; streams stay in step; walks find what stays; the pages of a key miss and repeat no more than their cursors let them; every call ends; saved queries keep one row a name; a file that opens is whole; sessions, tabs and catalogs of a window agree, and tabs keep their place, whatever is opened, closed or restarted |
| `parts` | 2 rows and 2 new ones, 1 column, 2 values; 3 keys in the editor; scripts of 4 characters; 3 panes, 4 tabs, 5 gestures; files of 3 typed characters | undo and redo are exact; revert and delete do what they say; the text, caret and composition stay sound; scripts split as quotes say; the layout stays whole and comes back; files are read as written and imported as shown |
| `tables` | 2 servers, 2 tables, 4 gestures, 1 foreign change; a design of 5 steps; a browse of 4 | edits go where the rows came from, once; editability is current; a catalog overwrites no unsaved design and a save that comes home shows what was saved; statements make the table that is drawn; filters are asked as they read; pages of one order repeat nothing; the reading of privileges comes to rest |

Runs that find the code disagreeing with its own comments (each is a finding in `PROJECT.json`):

| Run | What happens |
|---|---|
| `commit_query` | a query that fails on the connection between the last write and COMMIT makes the COMMIT a rollback that is reported as a success |
| `window_switch` | the rest of a script goes to another session once a tab of another session is in front |
| `opened_elsewhere` | a table clicked under one server shows another server's table of the same name, in a tab restored from the last run |
| `follow_shown` | a foreign key followed into a tab that is already open shows the rows of its old filter |
| `sqlite_refused` | a refused COMMIT leaves the transaction open, and a later write commits it |
| `undo_lines` | undoing an indent of two lines loses text |
| `blank_line` | a null of a one-column grid is written as a blank line: the row does not come back, and the error for a ragged record below it, the same file read with another separator, names the line before the one it is on |

Why the bounds are enough. The slot of a session holds one operation and one held statement, so three
statements give one in flight, one held and one that replaces it; five operations let each of these meet a
connect, a catalog read and a commit. Two panes and two sessions are the least at which one `running_pane` is
contended, and three statements the least at which a second run overtakes a script of two. Two connections of
two databases are the least at which a session can be of the right server and the wrong database; three
gestures after a restored strip reach a session that is closed under a tab and opened again, or a crash after
a move.
Two new rows are the least at which slots and display rows differ, and three steps with undo and redo the least
at which a row is added, typed into, discarded and brought back. Three rows are the least with a delete, an
update and an insert in one commit, and a second commit starts from what a first one left staged. Three elements
in pages of one, two taken out, let one go before a list's cursor and another come in behind it. Three
characters typed after a quote reach every state of the reader twice; four characters of SQL hold a comment
or a dollar quote opened and closed. The theorems below do not depend on any of these.

`CHECK_DEADLOCK FALSE` is set where a bound on statements, turns, gestures or tabs really stops the model. The
commit of `session` begins with one of each two tables that only exchange the two values.

Fairness. Liveness assumes only that a server answers what it was sent and that the UI thread eventually
runs a completion that is ready: weak fairness of `Answer`/`ApplyStep` and of the landing actions (session,
window, commit), of the servers' and the blocking threads' steps (drivers), and of the answer to a privileges
read, which is at some time not an error (tables). No gesture of the user is fair. A server that never
answers keeps the slot until the user disconnects: the code has no timeout of its own on a statement.

## Seen while modelling

The models do what the code does, so the properties are stated around the following, which no run states by
itself. Most are listed under `hazards`.

* *Window.* An answer whose tab was switched away within the same session is drawn under the tab now in front
  (and one whose pane was closed, in the active pane); two sessions with a statement each share one
  `running_pane`; a cancelled held statement leaves its history row to the answer before it; a statement held
  behind a catalog read or a commit waits for a later one; closing the active pane leaves the window on the
  closed pane's session; rows cached by a tab that is closed are filed under the tab that takes its place.
* *Connections.* After a disconnect a tab without a session joins whatever connection is the window's when it
  is shown, with its rows and staged edits, so a commit can go to another server. `open_connection_with`
  points the tab in front elsewhere when it has no session or is on another database of the same connection,
  which workspace.rs:2774 means to avoid. `bind_active_tab` leaves an old `reconnect` behind, used after a
  disconnect. `switch_database` to a database that is open leaves `pending_rebrowse` until another catalog
  lands, and asks it in whatever tab is in front then. A click on a database that is open, or on an open
  connection in the palette, moves the window's session and not the front tab's. A second database that
  failed to open cannot be retried from the sidebar, and a session made for one clones the configuration
  the open one had before an edit. A disconnect is not written down.
* *Editing and commit.* A commit's outcome is absorbed in the active pane; cells edited during a commit are
  dropped when it lands; two updates that exchange unique values are refused; a commit whose connection is
  lost after COMMIT reached the server is reported as failed; a cancel may stop the statement after the one it
  was pressed for; marking an open connection read-only does not reach its session, nor does a new password.
* *Design and browse.* Dropping a key column while the key changes is refused; making a key column nullable
  while it leaves the key is refused; a key that changes hands under the same names says nothing. The arrow
  of a sorted header is lost when a page is turned, and the next page is asked for without it; a second
  table is asked with the first one's sort; the first page comes in no order and the second in the key's;
  a failed sort leaves `pending_sort`; a row of filters removed above the one being written makes a commit
  overwrite another.
* *Grid and editor.* Deleting two new rows at once takes the wrong ones; redo over replaced rows when nothing
  was staged; the marked range is not moved by undo, redo or line commands; `duplicate_line` puts a newline in
  a field of one line; a run after the last semicolon sends the whole script.
* *Layout.* A pane that had no tab to save drops the layout at the next launch, with the other panes in
  the window and off the screen (restore.rs:195, workspace.rs:1004); a seam dragged between two panes
  that share less than twice the least room ends the program (pane.rs:230).
* *Import and saved queries.* What `blank_line` shows is left out of `FilesReadBack`: it asks for a ragged
  record's line only where every line above it is a record of its own (a newline inside quotes shifts the number
  too), and for every row back but those written as a blank line, which no row comes of. An import refused by a busy
  session makes the next commit an import in the log; an import discards what is staged. ⌘S on a query
  of another connection renames it or leaves two rows of one name, because the list is the last one read; a
  query deleted in one pane comes back by a save in another.
* *Drivers and store.* `reload_key` claims `running_pane` before `open_key` drops the call; a Redis console's
  SELECT or MULTI is the browser's too; a file left between two versions of a migration never opens again; a
  password read that ends after a write leaves the old one remembered.

## What is proved

Checked by TLAPS for every value of the constants and every length of behaviour. The only assumptions are the
ones named in the modules (`SessionAssumption` and so on), which say what kind of thing a constant is and that
a window has a tab to begin with; TLC evaluates each on the run of its module. Every proof has the same plan:
the initial states satisfy the invariant, each action keeps it (a lemma an action), the invariant implies the
properties. Most of the work is in finding the invariant.

* **Session_proofs**: `TypeCorrect`, `AlwaysCoherent`, `ReadOnlyIsKept`, `CancelWithdraws`, `SentOnce`,
  `OneWalk` and `SessionInOrder`. None of the invariants is inductive alone: a held statement is sent without
  being asked again whether a reconnect made the session read-only, so the invariant adds `HeldIsFresh` (what
  is held may be sent, was handed over after the last cancel, and is held only by a connected session) and
  that a session the window let go of has nothing in flight. `SentOnce` adds `Fresh` (the statement in the
  slot, the one published last and the one held have numbers already given out, and the held one is neither
  of the others); `OneWalk` adds `Walk` (a scan in flight means the walk is not complete, so a page that lands
  is the next one).
* **PendingChanges_proofs**: `TypeCorrect`, `StagedStaysSound`, `UndoIsExact`, `RedoIsExact`. The
  invariant is a chain: each step on either stack is linked to the contents on its two sides (`Link`: undoing
  it gives the one, undoing its inverse the other), and a call that records a step extends the chain. One
  lemma per kind of step shows its link.
* **PendingChanges_proofs**, the grid: `GridEditsHold`, for any rows, columns, values and slots. The invariant
  (`GridInv`) says that a locked grid has a change set without a past, not only an empty one, since undo would
  bring back what a lock only hid, and that every step on the stacks names rows and slots there are (`Sets`). What a
  loop over the selected rows leaves is followed row by row (`UpTo`, `Iterates`), each step on what the rows before
  it left: a row that exists is found at its place whatever was done above it (`RowRefIs`), so the marks are
  exactly those asked for (`DeleteEachIs`) and nothing else is taken off (`RevertEachIs`). A new row is found by its
  rank among those there are (`ScreenNames`), which is why deleting is said of at most one of them.
* **Commit_proofs**: `TypeCorrect`, `NothingLeftBehind`, `CommitsAreAtomic`, `ImplementsAtomic`, for any rows,
  values, writers and disturbances. The invariant adds `Locked` (a row whose statement ran still holds what the
  statement found, because the server holds its lock) and `Reasoned` (a commit under way has not failed yet);
  the step-by-step refinement maps the whole transaction to one `Commit`, `Refuse` or `Doubt`.
* **Connections_proofs**: `ConnectionsInOrder`, the six things said of a window's connections, and
  `PlacesAreKept`, an action property, over quits, crashes and any number of servers, databases and tabs. The
  invariant has one conjunct for what is saved, for the sessions (`Held`: one to a place, each of a connection
  that is saved), for the strip (`Stripped`: every tab is of a session there is, or of none), for what the
  window describes (`Described`) and for what is written down (`Recorded`). That the tab in front is on the
  window's session needs `Held`, for a session that is closed takes its tabs with it. `Handed`, `Bind` and
  `AdoptTab`, of which all gestures are composed, have a lemma each.
* **Window_proofs**: `WindowIsInOrder`: rows of a query tab are of its session, and scripts of one pane do not
  interleave. Neither is inductive. An answer is drawn by the pane that asked, so the invariant follows every
  statement from the queue to the grid: those in flight or held are of the session they are on (`Theirs`), and
  those that wait in a pane's queue are its own, in order, and newer than all it has sent (`Waits`), which
  survives a script that is overtaken and a pane that closes under its own answer. `Laid` keeps the
  layout and the panes the same set; the tabs that stay after a close are named by their ranks, whose lemma is
  the one fact about counting.
* **Drivers_proofs**, SQLite: `CommitIsWhole`, `WhatWasToldIsTrue` and `SqliteInOrder`, for any number of statements, of
  connections to the file, of calls and of cancels. A thread outlives the session that dropped it, so what is
  in the file is said of every call and not of the session: outside a transaction nothing waits to be saved
  (`ClosedIsEmpty`), a commit under way is on one connection, as far as its thread has come, and not in the
  file (`AsFarAsItCame`), what is open after it ended is a whole commit the file refused (`Whole`), and a
  session is told the end only of a call no thread works on (`OwnCall`, `AsTold`).
* **Drivers_proofs**, ClickHouse: `TypeCorrect`, `AnswersAreWhole` and `ClickHouseStaysInStep`, for any statements,
  results, limits, queries and cancels. Nothing on the wire says which query a packet belongs to, so the
  invariant says where the one query is: waiting for the server with its empty block right behind it (`Unasked`),
  with the server (`Working`), or over with its last packet on its way back (`Over`). `Flow` numbers its blocks:
  so many read, so many on the wire in their order, the rest still with the server (`Remains`); the sum of those
  read is what the client counted, until it cuts one short. `Owed` accounts for the blocks the client owes the
  server: one behind a query, one for a header, none otherwise until a cancel stops a query. The sums are a
  recursive function; that it exists is proved from the least number it could fail at.
* **Drivers_proofs**, Redis: `WalksAreWhole` and `KeysAreWhole`, for any keys, types, budgets, pages and any number
  of others' changes. A key that stayed and fits is, behind the cursor, listed; in a call under way it may also be
  collected or about to be described, wherever the call is when it fails or is given up (`Covered`). Nothing else
  is listed, which needs that a server that was not asked for a type is asked of each key before it is
  (`OfItsType`). Of a key's pages the invariant says two things. What stayed is shown or still ahead of the cursor
  (`Unskipped`), for a list unless an element was taken out before its cursor, or put in between a page's length
  and its elements. And nothing ahead of a list's cursor was shown (`Unslid`), unless one was put in before it,
  which is when a list repeats; a stream's cursor is an id, so it shows each once and in order (`WalkOK`). What an
  insertion and a removal do to positions are lemmas of their own (`Inserted`, `TakenOut`). That a list repeats or
  skips when its positions slide, and that a walked hash or set repeats, is what the code does: neither is claimed
  away.
* **Store_proofs**: `QueriesKeepTheirNames`, an action property, and `LocalFileHolds`. Of queries the invariant
  says which rows a tab may still write: those that are there and those deleted under it, which are remembered
  (`Known`), so a save can bring back no others; of the file, that it has the statements of its version, or those
  before the one its migration is at, and more only after a migration that was cut short (`MigrationOK`), and that
  each thread at the Keychain holds what is there unless a write raced it (`SecretsOK`).
* **Tables_proofs**, editing: `EditsStayInOrder` (edits go to the table and the server their rows came from, and are
  written once), `EditabilityStaysCurrent` and `UnsavedDesignStays`, an action property, for any servers,
  tables, strips and panes. The invariant says what a commit relies on without looking: edits that are staged
  were typed over the rows that show (`Typed`), which are of the tab in front and of the relation the commit
  names (`Owned`), a commit in flight has the edits of those rows still (`Sent`), and a pane was judged by what
  is known now (`Judgements`). Written once needs that two panes, or a pane and the commit of another, never
  have an edit in common (`Apart`), and that nothing staged or in flight was written before (`Unwritten`).
  `DesignWaits` says that a design waits for a catalog only while its save is what the server has.
* **Tables_proofs**, browsing: `FilterIsAsked` and `PagesDoNotOverlap`, an action property, for any tables, rows,
  keys, conditions, pages and tabs. That the clause the code builds, bracketed where the join changes, is the one
  read from the top is proved of the recursive function it is built by, from the least row at which the two could
  differ; that a row of the filter goes in or out without the clause changing (an unfinished one) by the same
  means. The invariant says that what the tab in front asked for is of its table, filter and page until it is
  refused (`Asked`), and that a row being written is over the one it was opened on (`Over`). Pages do not overlap
  because a page after the first names the key, and by the key there is one order of the rows (`OneOrder`).

What the proofs changed. That an edit is written once was stated unless a commit's outcome was taken for
another's, and held on every run: the proof did not go through. A strip may hold tabs of two servers. When the
second server's is shown while a commit of the first is in flight, the grid keeps the staged edits until its own
rows come; if they do not come, the edits can be committed again, to the second server. The run's strips have
one server each; the property now says `strayed` too. `ConnectionsInOrder` needs room for two tabs, which is now an assumption.
`UnsavedDesignIsKept` became an action property of its own. `GridHolds` said only that deleting one new row takes
one row away; it now says which, beside any number of rows that exist.

Left to TLC, and why:

* every liveness property (`SlotComesFree`, `CommitEnds`, `CallsEnd`, `SplitScriptEnds`, `GrantsSettle`):
  fairness and ENABLED are beyond the prover;
* what is computed by recursion or folds over data, which needs an induction the provers cannot instantiate:
  the text editor and its undo (`TextHolds`), scripts, the layout's fractions, files and imports, the
  statements of a design (`DesignHolds`, `SavedDesignIsShown`);
* the properties of the split window (`SplitHolds`), which relate three histories and hold of one session only.

## What is not modelled

PostgreSQL introspection and types, value decoding in every driver, the text of SQL, privileges and roles beyond
what decides editability, the sidebar, the palette and the rest of the drawing, completion, highlighting and
formatting: most of the program's lines draw or decode, and no order of steps changes what they compute.
Credentials and TLS are configuration. Of the drivers: ClickHouse's error for a block whose columns are not those
of the header (client.rs:558-564), which a server in order does not send; a Redis key deleted and made again
between two pages, and more than one element in a bucket of a hash. A filter row over any column is one over a
column: its clause depends on the columns on screen. Of the history of statements, only that an outcome reaches its own row.

## Running

    tlc -workers 2 -config session.cfg MCSessions      # and so on, as PROJECT.json lists them
    tlapm Commit_proofs.tla
