------------------------------- MODULE Commit -------------------------------
(***************************************************************************)
(* Committing a grid's staged edits to PostgreSQL.                         *)
(*                                                                         *)
(* sqlgen/src/dml.rs turns the staged edits into one statement per row, in *)
(* the order deletes, updates, inserts; db_pg/src/client.rs runs them in a *)
(* transaction and rolls back at the first error or the first statement    *)
(* that touches another number of rows than one; workspace.rs drops the    *)
(* staged edits when it is told the commit went through, and reads the     *)
(* rows again.  Other sessions write the same table meanwhile, a cancel    *)
(* can stop a statement, another query on the connection can fail inside   *)
(* the transaction, and the connection can be lost.                        *)
(*                                                                         *)
(* A row is its key, a number that is also its place in the grid, and one  *)
(* value.  The transaction's writes are seen through `done': the server    *)
(* holds their locks, so no one else writes those rows until it ends.      *)
(***************************************************************************)
EXTENDS Naturals, FiniteSets

CONSTANTS
    Keys,          \* rows there can be, in the grid's order
    NewKeys,       \* those among them our inserts are given by the server
    Values,
    Nothing,       \* no row; no value staged
    Unique,        \* whether the column has a unique constraint
    Disturbances,  \* what can happen to the connection: "cancel", "query", "lost"
    MaxCommits,    \* bound: commits asked for
    MaxOthers      \* bound: rows written by others

ASSUME CommitAssumption ==
    /\ Keys \subseteq Nat /\ IsFiniteSet(Keys) /\ NewKeys \subseteq Keys
    /\ Nothing \notin Values /\ Unique \in BOOLEAN
    /\ Disturbances \subseteq {"cancel", "query", "lost"}
    /\ MaxCommits \in Nat /\ MaxOthers \in Nat

VARIABLES
    table,     \* what the server holds
    shown,     \* the rows of the grid, as they were read
    staged,    \* the grid's staged edits: edits, inserts, deletes
    wanted,    \* the statements of the commit in the slot, by the row each is about
    done,      \* the rows of those already run in the open transaction
    txn,       \* the transaction on the server: "none", "open", "aborted"
    phase,     \* where `apply' is
    told,      \* what the last commit was reported to be
    reason,    \* why it failed
    alive,     \* whether the connection is
    commits, others

commitVars == <<table, shown, staged, wanted, done, txn, phase, told, reason, alive, commits, others>>

Cell == Values \cup {Nothing}
Partial(S, T) == UNION {[D -> T] : D \in SUBSET S}
Contents == [edits : Partial(Keys, Values), inserts : Partial(Keys, Values), deletes : SUBSET Keys]
NothingStaged == [edits |-> [k \in {} |-> Nothing], inserts |-> [k \in {} |-> Nothing], deletes |-> {}]
NoStatements == [k \in {} |-> [from |-> Nothing, to |-> Nothing]]

\* One statement per row: what it starts from, and what it leaves.  A row on
\* its way out is not also updated.
StatementsFor(s) ==
    [k \in s.deletes \cup DOMAIN s.edits \cup DOMAIN s.inserts |->
        [from |-> IF k \in DOMAIN s.inserts THEN Nothing ELSE shown[k],
         to |-> IF k \in s.deletes THEN Nothing
                ELSE IF k \in DOMAIN s.inserts THEN s.inserts[k] ELSE s.edits[k]]]

\* Deletes, then updates, then inserts, each in row order.
\* Slip: what is new goes first.
Rank_inserting(change) == IF change.from = Nothing THEN 0 ELSE 1

Rank(change) == IF change.to = Nothing THEN 0 ELSE IF change.from # Nothing THEN 1 ELSE 2
Before(i, j) == Rank(wanted[i]) < Rank(wanted[j]) \/ (Rank(wanted[i]) = Rank(wanted[j]) /\ i <= j)
IsNext(k) == k \in DOMAIN wanted \ done /\ \A j \in DOMAIN wanted \ done : Before(k, j)

\* How many rows a statement touches: an update also checks that the row still
\* holds the value that was shown; a delete only that there is a row.
\* Slip: the row is found by its key alone.
Touches_unchecked(change, value) ==
    IF change.from = Nothing THEN value = Nothing ELSE value # Nothing

Touches(change, value) ==
    IF change.to = Nothing THEN value # Nothing ELSE value = change.from

\* What our transaction sees.
Seen == [k \in Keys |-> IF k \in done THEN wanted[k].to ELSE table[k]]
Distinct(rows) == Unique => \A i, j \in Keys : i # j /\ rows[i] # Nothing => rows[i] # rows[j]

CommitInit ==
    /\ table \in [Keys -> Cell] /\ Distinct(table)
    /\ \A k \in NewKeys : table[k] = Nothing
    /\ shown = table /\ staged = NothingStaged
    /\ wanted = NoStatements /\ done = {} /\ txn = "none" /\ phase = "idle"
    /\ told = "none" /\ reason = "none" /\ alive = TRUE
    /\ commits = 0 /\ others = 0

\* The edits staged over the rows on screen, as a whole (module GridEdits).
Stage ==
    /\ phase = "idle" /\ staged = NothingStaged
    /\ LET rows == {k \in Keys : shown[k] # Nothing}
       IN \E edits \in Partial(rows, Values), deletes \in SUBSET rows,
             inserts \in Partial({k \in NewKeys : table[k] = Nothing}, Values) :
            staged' = [edits |-> edits, inserts |-> inserts, deletes |-> deletes]
    /\ UNCHANGED <<table, shown, wanted, done, txn, phase, told, reason, alive, commits, others>>

\* Another cell is edited while a commit is under way: the grid stays editable.
StageMore ==
    /\ phase # "idle"
    /\ \E k \in Keys, v \in Values :
         /\ shown[k] # Nothing
         /\ staged' = [staged EXCEPT !.edits =
                          [j \in DOMAIN @ \cup {k} |-> IF j = k THEN v ELSE @[j]]]
    /\ UNCHANGED <<table, shown, wanted, done, txn, phase, told, reason, alive, commits, others>>

\* Throwing them away is the user's own gesture, at any time.
Discard ==
    /\ staged # NothingStaged
    /\ staged' = NothingStaged
    /\ UNCHANGED <<table, shown, wanted, done, txn, phase, told, reason, alive, commits, others>>

\* `commit_changes': the statements are generated and handed to the session.
CommitChanges ==
    /\ phase = "idle" /\ staged # NothingStaged /\ commits < MaxCommits
    /\ wanted' = StatementsFor(staged)
    /\ phase' = "begin" /\ done' = {} /\ commits' = commits + 1
    /\ reason' = "none"
    /\ UNCHANGED <<table, shown, staged, txn, told, alive, others>>

BeginTxn ==
    /\ phase = "begin" /\ alive
    /\ txn' = "open" /\ phase' = "writing"
    /\ UNCHANGED <<table, shown, staged, wanted, done, told, reason, commits, alive, others>>

BeginFails ==
    /\ phase = "begin" /\ ~alive
    /\ phase' = "landing" /\ told' = "failed" /\ reason' = "lost"
    /\ UNCHANGED <<table, shown, staged, wanted, done, txn, alive, commits, others>>

\* The statement about row k is run, and answers.
Conflicts(k) == ~Distinct([Seen EXCEPT ![k] = wanted[k].to])

\* Slip: statements run outside the transaction.
Write_through(k) ==
    /\ phase = "writing" /\ txn = "open" /\ IsNext(k)
    /\ Touches(wanted[k], Seen[k]) /\ ~Conflicts(k)
    /\ table' = [table EXCEPT ![k] = wanted[k].to]
    /\ done' = done \cup {k}
    /\ UNCHANGED <<shown, staged, wanted, txn, phase, told, reason, alive, commits, others>>

Write(k) ==
    /\ phase = "writing" /\ txn = "open" /\ IsNext(k)
    /\ Touches(wanted[k], Seen[k]) /\ ~Conflicts(k)
    /\ done' = done \cup {k}
    /\ UNCHANGED <<table, shown, staged, wanted, txn, phase, told, reason, alive, commits, others>>

Fail(why) == phase' = "rollback" /\ reason' = why

\* It touched no row: `mismatch', the transaction still open.
WriteMissed(k) ==
    /\ phase = "writing" /\ txn = "open" /\ IsNext(k)
    /\ ~Touches(wanted[k], Seen[k])
    /\ Fail("mismatch")
    /\ UNCHANGED <<table, shown, staged, wanted, done, txn, told, commits, alive, others>>

\* The server refuses it, and the transaction with it.
WriteRefused(k) ==
    /\ phase = "writing" /\ txn = "open" /\ IsNext(k)
    /\ Touches(wanted[k], Seen[k]) /\ Conflicts(k)
    /\ txn' = "aborted" /\ Fail("conflict")
    /\ UNCHANGED <<table, shown, staged, wanted, done, told, commits, alive, others>>

\* The transaction was aborted under it.
WriteInAborted ==
    /\ phase = "writing" /\ txn = "aborted" /\ done # DOMAIN wanted
    /\ Fail("aborted")
    /\ UNCHANGED <<table, shown, staged, wanted, done, txn, told, commits, alive, others>>

\* A cancel request stops the statement that is running.
Canceled ==
    /\ "cancel" \in Disturbances
    /\ phase = "writing" /\ done # DOMAIN wanted
    /\ txn' = "aborted" /\ Fail("canceled")
    /\ UNCHANGED <<table, shown, staged, wanted, done, told, commits, alive, others>>

\* Another query on the same connection, the read of a relation's privileges,
\* fails between two of our statements.
QueryFails ==
    /\ "query" \in Disturbances
    /\ txn = "open"
    /\ txn' = "aborted"
    /\ UNCHANGED <<table, shown, staged, wanted, done, phase, told, reason, alive, commits, others>>

\* Slip: the error is returned with the transaction as it is.
Rollback_skipped ==
    /\ phase = "rollback"
    /\ phase' = "landing" /\ told' = "failed"
    /\ UNCHANGED <<table, shown, staged, wanted, done, txn, reason, commits, alive, others>>

Rollback ==
    /\ phase = "rollback"
    /\ txn' = "none" /\ done' = {} /\ phase' = "landing" /\ told' = "failed"
    /\ UNCHANGED <<table, shown, staged, wanted, reason, commits, alive, others>>

\* COMMIT.  Of an aborted transaction the server makes a rollback, and answers
\* that without an error: nothing in the program knows that reason.
CommitTxn ==
    /\ phase = "writing" /\ done = DOMAIN wanted
    /\ IF txn = "open"
         THEN table' = Seen /\ UNCHANGED reason
         ELSE reason' = "undone" /\ UNCHANGED table
    /\ txn' = "none" /\ done' = {} /\ phase' = "landing" /\ told' = "ok"
    /\ UNCHANGED <<shown, staged, wanted, commits, alive, others>>

\* The connection is lost.  The server rolls back what was open, unless the
\* COMMIT had reached it.
Lost ==
    /\ "lost" \in Disturbances
    /\ alive /\ phase \in {"begin", "writing"}
    /\ alive' = FALSE
    /\ \/ UNCHANGED table
       \/ txn = "open" /\ done = DOMAIN wanted /\ table' = Seen
    /\ txn' = "none" /\ done' = {} /\ phase' = "landing" /\ told' = "failed"
    /\ reason' = "lost"
    /\ UNCHANGED <<shown, staged, wanted, commits, others>>

\* Slip: a commit that failed is not taken in.
Absorb_ok ==
    /\ phase = "landing" /\ told = "ok"
    /\ staged' = NothingStaged /\ phase' = "reading"
    /\ UNCHANGED <<table, shown, wanted, done, txn, told, reason, commits, alive, others>>

\* `absorb_apply': a commit that went through drops what was staged and asks
\* for the rows again; one that failed leaves it.
Absorb ==
    /\ phase = "landing"
    /\ IF told = "ok"
         THEN staged' = NothingStaged /\ phase' = "reading"
         ELSE UNCHANGED staged /\ phase' = "idle"
    /\ UNCHANGED <<table, shown, wanted, done, txn, told, reason, commits, alive, others>>

\* The rows as they are now; nothing staged over the old ones is kept.
Refresh ==
    /\ phase = "reading"
    /\ shown' = table /\ staged' = NothingStaged /\ phase' = "idle"
    /\ UNCHANGED <<table, wanted, done, txn, told, reason, commits, alive, others>>

\* Another session writes a row no one else has locked.
Other ==
    /\ others < MaxOthers
    /\ others' = others + 1
    /\ \E k \in Keys \ done, v \in Cell :
         /\ v # table[k]
         /\ k \notin NewKeys \/ table[k] # Nothing
         /\ table' = [table EXCEPT ![k] = v]
         /\ Distinct(table')
         /\ Distinct([Seen EXCEPT ![k] = v])
    /\ UNCHANGED <<shown, staged, wanted, done, txn, phase, told, reason, alive, commits>>

ApplyStep == BeginTxn \/ BeginFails \/ (\E k \in Keys : Write(k) \/ WriteMissed(k) \/ WriteRefused(k))
         \/ WriteInAborted \/ Rollback \/ CommitTxn
CommitNext == Stage \/ StageMore \/ Discard \/ CommitChanges \/ ApplyStep \/ Canceled \/ QueryFails \/ Lost \/ Absorb \/ Refresh
        \/ Other

CommitSpec == CommitInit /\ [][CommitNext]_commitVars

\* The server answers each statement, and the UI thread runs what landed.
CommitFairness == WF_commitVars(ApplyStep) /\ WF_commitVars(Absorb \/ Refresh)

(***************************************************************************)
(* Properties.                                                             *)
(***************************************************************************)
Changed == UNION {[K -> [from : Cell, to : Cell]] : K \in SUBSET Keys}

CommitTypeOK ==
    /\ table \in [Keys -> Cell] /\ shown \in [Keys -> Cell]
    /\ staged \in Contents
    /\ wanted \in Changed /\ done \subseteq DOMAIN wanted
    /\ txn \in {"none", "open", "aborted"}
    /\ phase \in {"idle", "begin", "writing", "rollback", "landing", "reading"}
    /\ told \in {"none", "ok", "failed"}
    /\ reason \in {"none", "mismatch", "conflict", "aborted", "canceled", "lost", "undone"}
    /\ alive \in BOOLEAN
    /\ commits \in 0..MaxCommits /\ others \in 0..MaxOthers

\* A transaction is open, or aborted, only while `apply' runs: no path leaves
\* one behind on the connection, for the next statement to fall into.
NoTxnLeftBehind == phase \in {"idle", "begin", "landing", "reading"} => txn = "none" /\ done = {}

\* The commit is atomic, over the values the grid showed, and what it is told
\* to be is what it was, but for an answer that is lost and a COMMIT the server
\* undoes (client.rs, `apply'; module AtomicCommit).
Atomic == INSTANCE AtomicCommit WITH
    outcome <- IF phase \in {"begin", "writing", "rollback"} THEN "pending"
               ELSE IF reason \in {"lost", "undone"} THEN "unknown" ELSE told
Implements == Atomic!Spec

\* Whatever happens to the connection meanwhile, the rows of a commit change
\* together or not at all, and only over the values the grid was showing.
AllOrNone ==
    [][table' # table /\ others' = others
         => /\ table' = Atomic!Result
            /\ \A k \in DOMAIN wanted : Touches(wanted[k], table[k])]_commitVars

\* What a commit is told to be is what it was: the staged edits are dropped
\* "when the server says it committed", and "a commit that failed changes
\* nothing at all" (editing.rs, workspace.rs).
ToldIsTrue ==
    [][phase' = "landing" /\ phase # "landing"
         => table' = IF told' = "ok" THEN Atomic!Result ELSE table]_commitVars

\* "a commit which frees a unique value and then reuses it works" (dml.rs): a
\* conflict that is gone once all of the commit is done never refuses it,
\* unless it is between two updates, which go in row order.
FreedValueIsReused ==
    [][reason' = "conflict" /\ reason # "conflict" =>
         \/ ~Distinct(Atomic!Result)
         \/ \E i, j \in DOMAIN wanted : i # j /\ Rank(wanted[i]) = 1 /\ Rank(wanted[j]) = 1]_commitVars

\* A commit that was asked for ends, one way or the other, and the grid is
\* free again.
CommitEnds == phase # "idle" ~> phase = "idle"
=============================================================================
