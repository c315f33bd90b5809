--------------------------- MODULE PendingChanges ---------------------------
(***************************************************************************)
(* The type under any sequence of calls.  past and future are what the     *)
(* stacks stand for: the contents before each step, oldest first, and the  *)
(* contents each undone step would bring back.                             *)
(***************************************************************************)
EXTENDS Changes

CONSTANT MaxSteps   \* bound: reversible steps a history holds

ASSUME HistoryAssumption == MaxSteps \in Nat

VARIABLES changes, past, future

vars == <<changes, past, future>>

Init == changes = NewChanges /\ past = <<>> /\ future = <<>>

\* A call that records a step, or nothing when there was nothing to do.
Recorded(next) ==
    /\ Len(changes.undo) < MaxSteps
    /\ changes' = next
    /\ IF next.undo = changes.undo
         THEN UNCHANGED <<past, future>>
         ELSE past' = Append(past, changes.staged) /\ future' = <<>>

Set == \E row \in RowRefs, column \in Columns, value \in Values :
         Recorded(SetCell(changes, row, column, value))
Insert == changes.next_slot < MaxSlots /\ Recorded(InsertRow(changes))
Delete == \E row \in RowRefs : Recorded(DeleteRow(changes, row))
Undelete == \E r \in Rows : Recorded(UndeleteRow(changes, r))
Revert == \E row \in RowRefs, column \in Columns : Recorded(RevertCell(changes, row, column))

Clear == changes' = Cleared(changes) /\ past' = <<>> /\ future' = <<>>

Undo ==
    /\ changes.undo # <<>>
    /\ changes' = UndoStep(changes)
    /\ past' = SubSeq(past, 1, Len(past) - 1)
    /\ future' = Append(future, changes.staged)

Redo ==
    /\ changes.redo # <<>>
    /\ changes' = RedoStep(changes)
    /\ future' = SubSeq(future, 1, Len(future) - 1)
    /\ past' = Append(past, changes.staged)

Next == Set \/ Insert \/ Delete \/ Undelete \/ Revert \/ Clear \/ Undo \/ Redo

Spec == Init /\ [][Next]_vars

(***************************************************************************)
(* Properties.                                                             *)
(***************************************************************************)
TypeOK ==
    /\ changes \in [staged : Contents, next_slot : 0..MaxSlots, undo : Seq(Steps), redo : Seq(Steps)]
    /\ past \in Seq(Contents) /\ future \in Seq(Contents)

\* No edited row without a staged cell (change.rs, `put'), so that the number
\* of updates the Commit button announces is the number of rows it changes.
NoEmptyEdit == \A r \in DOMAIN changes.staged.edits : changes.staged.edits[r] # Empty

\* Undo and redo walk one history: undo gives back exactly what was staged
\* before the last step, redo exactly what was staged before the last undo,
\* whatever was typed into rows that are gone meanwhile.
UndoRestores ==
    [][Undo => changes'.staged = past[Len(past)]]_vars
RedoRestores == [][Redo => changes'.staged = future[Len(future)]]_vars

\* A slot is handed out once, so a reference taken before a discard or a clear
\* never comes to mean another row (change.rs, RowRef::New): the rows staged
\* and the steps on both stacks only name slots handed out already.
SlotsHandedOut ==
    /\ DOMAIN changes.staged.inserts \subseteq 0..(changes.next_slot - 1)
    /\ \A stack \in {changes.undo, changes.redo} : \A i \in 1..Len(stack) :
         stack[i].op \in {"insert", "discard"} => stack[i].slot < changes.next_slot

\* What is staged is of rows that were handed out and cells that were typed.
StagedIsSound == NoEmptyEdit /\ SlotsHandedOut
=============================================================================
