---------------------------- MODULE AtomicCommit ----------------------------
(***************************************************************************)
(* What committing the edits of a grid promises: "all of it or none of it" *)
(* (src/crates/db_pg/src/client.rs, `apply').  The rows asked for change   *)
(* in one step, only over the values the grid was showing, and the grid is *)
(* told what happened; or nothing changes, and it is told that; or which   *)
(* of the two it was is not known.                                         *)
(*                                                                         *)
(* A change of a row is its value before and after; Nothing is no row, so  *)
(* that an insert is a change from Nothing and a delete one to Nothing.    *)
(***************************************************************************)
CONSTANTS Keys, Values, Nothing

Cell == Values \cup {Nothing}
Changes == UNION {[K -> [from : Cell, to : Cell]] : K \in SUBSET Keys}

VARIABLES
    table,    \* what the server holds
    wanted,   \* the change of each row asked for
    outcome   \* what the grid has been told of it

vars == <<table, wanted, outcome>>

\* An update and an insert need the value they start from; a delete needs a row.
Fits(change, value) ==
    IF change.to = Nothing THEN value # Nothing ELSE value = change.from

Result == [k \in Keys |-> IF k \in DOMAIN wanted THEN wanted[k].to ELSE table[k]]

Init ==
    /\ table \in [Keys -> Cell]
    /\ wanted \in Changes
    /\ outcome = "none"

Ask ==
    /\ outcome # "pending"
    /\ outcome' = "pending"
    /\ wanted' \in Changes
    /\ UNCHANGED table

Commit ==
    /\ outcome = "pending"
    /\ \A k \in DOMAIN wanted : Fits(wanted[k], table[k])
    /\ table' = Result
    /\ outcome' = "ok"
    /\ UNCHANGED wanted

Refuse ==
    /\ outcome = "pending"
    /\ outcome' = "failed"
    /\ UNCHANGED <<table, wanted>>

\* The answer to COMMIT is lost, or says nothing: it is still all or none.
Doubt ==
    /\ outcome = "pending"
    /\ outcome' = "unknown"
    /\ \/ UNCHANGED table
       \/ (\A k \in DOMAIN wanted : Fits(wanted[k], table[k])) /\ table' = Result
    /\ UNCHANGED wanted

\* Someone else writes a row.
Other ==
    /\ \E k \in Keys, v \in Cell : table' = [table EXCEPT ![k] = v]
    /\ UNCHANGED <<wanted, outcome>>

Next == Ask \/ Commit \/ Refuse \/ Doubt \/ Other

Spec == Init /\ [][Next]_vars
=============================================================================
