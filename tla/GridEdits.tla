----------------------------- MODULE GridEdits -----------------------------
(***************************************************************************)
(* Editing in the grid: src/crates/grid/src/state.rs over the change set   *)
(* of module Changes.                                                      *)
(*                                                                         *)
(* The grid speaks of display rows: the fetched rows, then the staged new  *)
(* rows in slot order.  Every operation resolves a display row to a row of *)
(* the change set at the moment it runs, so what a display row means       *)
(* changes under a selection, an open cell editor and a stack of steps.    *)
(***************************************************************************)
EXTENDS Changes, Integers

CONSTANT MaxStaged   \* bound: reversible steps on the two stacks

\* The fetched rows are the first display rows.
ASSUME GridAssumption ==
    /\ IsFiniteSet(Rows) /\ Rows = 0..(Cardinality(Rows) - 1)
    /\ IsFiniteSet(Columns) /\ Columns = 0..(Cardinality(Columns) - 1)

VARIABLES
    pending,    \* the change set
    editable,
    selection,  \* display rows highlighted
    cursor,     \* the cursor's display row
    editing     \* the open cell editor: its display row and column

gridVars == <<pending, editable, selection, cursor, editing>>

NoRow == [kind |-> "none", at |-> 0]
NoEdit == [row |-> 0, column |-> NoValue]

\* The n-th of the new rows, in slot order.
NthNew(s, n) ==
    CHOOSE k \in DOMAIN s.inserts : Cardinality({j \in DOMAIN s.inserts : j <= k}) = n

RowCount(s) == Cardinality(Rows) + Cardinality(DOMAIN s.inserts)

\* Which row of the change set a display row is (`row_ref', `row_ref_in').
RowRef(s, row) ==
    LET nth == row - Cardinality(Rows) + 1
    IN CASE row \in Rows -> Existing(row)
         [] row \notin Rows /\ nth <= Cardinality(DOMAIN s.inserts) -> New(NthNew(s, nth))
         [] OTHER -> NoRow

\* The rows the selection covers, or the cursor's.
SelectedRows ==
    LET rows == {r \in selection : r < RowCount(pending.staged)}
    IN IF rows = {} THEN {cursor} ELSE rows

SetCellAt(c, row, column, value) ==
    LET target == RowRef(c.staged, row)
    IN IF target = NoRow THEN c ELSE SetCell(c, target, column, value)

\* One row of `delete_rows' and of `revert_rows', on what the rows before it left.
DeleteOne(c, row, allMarked) ==
    LET target == RowRef(c.staged, row)
    IN CASE row \in Rows /\ allMarked -> UndeleteRow(c, row)
         [] ~(row \in Rows /\ allMarked) /\ target # NoRow -> DeleteRow(c, target)
         [] OTHER -> c

\* Every cell of a row, one after another.
RevertCells(c, target) ==
    LET left[n \in 0..Cardinality(Columns)] ==
            IF n = 0 THEN c ELSE RevertCell(left[n - 1], target, n - 1)
    IN left[Cardinality(Columns)]

\* Slip: the mark for deletion stays.
RevertOne_marked(c, row) ==
    LET target == RowRef(c.staged, row)
    IN CASE target.kind = "existing" -> RevertCells(c, target)
         [] target.kind = "new" -> DeleteRow(c, target)
         [] OTHER -> c

RevertOne(c, row) ==
    LET target == RowRef(c.staged, row)
    IN CASE target.kind = "existing" -> RevertCells(UndeleteRow(c, row), target)
         [] target.kind = "new" -> DeleteRow(c, target)
         [] OTHER -> c

\* No display row is above it.
Displayed == Cardinality(Rows) + MaxSlots

\* Rows from the first to the last, each on what the rows before it left.
DeleteEach(c, rows, allMarked) ==
    LET left[n \in 0..(Displayed + 1)] ==
            CASE n = 0 -> c
              [] n > 0 /\ n - 1 \in rows -> DeleteOne(left[n - 1], n - 1, allMarked)
              [] OTHER -> left[n - 1]
    IN left[Displayed + 1]

RevertEach(c, rows) ==
    LET left[n \in 0..(Displayed + 1)] ==
            CASE n = 0 -> c
              [] n > 0 /\ n - 1 \in rows -> RevertOne(left[n - 1], n - 1)
              [] OTHER -> left[n - 1]
    IN left[Displayed + 1]

\* What `stage_edit' leaves, for the value typed.
Staged(value) ==
    IF editing = NoEdit THEN pending ELSE SetCellAt(pending, editing.row, editing.column, value)

Bounded(c) == Len(c.undo) + Len(c.redo) <= MaxStaged /\ c.next_slot <= MaxSlots

GridInit ==
    /\ pending = NewChanges /\ editable = FALSE
    /\ selection = {0} \cap Rows /\ cursor = 0
    /\ editing = NoEdit

Touch(c) == Bounded(c) /\ pending' = c

\* A press in the grid: the open editor is staged, and the rows pressed, or
\* swept with shift held, are selected.
Select ==
    /\ \E value \in Values : Touch(Staged(value))
    /\ editing' = NoEdit
    /\ \E lo, hi \in 0..(RowCount(pending'.staged) - 1) :
         selection' = lo..hi /\ cursor' \in {lo, hi} /\ lo <= hi
    /\ UNCHANGED editable

\* A double click: its press staged and selected already.
BeginEdit ==
    /\ editable /\ editing = NoEdit /\ cursor < RowCount(pending.staged)
    /\ selection = {cursor}
    /\ \E column \in Columns : editing' = [row |-> cursor, column |-> column]
    /\ UNCHANGED <<pending, editable, selection, cursor>>

\* Enter, in the editor.
StageEdit ==
    /\ editing # NoEdit
    /\ \E value \in Values : Touch(Staged(value))
    /\ editing' = NoEdit
    /\ UNCHANGED <<editable, selection, cursor>>

CancelEdit ==
    /\ editing # NoEdit
    /\ editing' = NoEdit
    /\ UNCHANGED <<pending, editable, selection, cursor>>

AddRow ==
    /\ editable /\ pending.next_slot < MaxSlots
    /\ Touch(InsertRow(pending))
    /\ cursor' = RowCount(pending'.staged) - 1
    /\ selection' = {cursor'}
    /\ UNCHANGED <<editable, editing>>

\* The toolbar, the menu and the palette reach these with the editor open.
DeleteRows ==
    /\ editable
    /\ LET allMarked == SelectedRows \subseteq pending.staged.deletes
       IN Touch(DeleteEach(pending, SelectedRows, allMarked))
    /\ UNCHANGED <<editable, selection, cursor, editing>>

RevertRows ==
    /\ Touch(RevertEach(pending, SelectedRows))
    /\ UNCHANGED <<editable, selection, cursor, editing>>

\* `clamp_cursor'.
Clamped(s) ==
    CASE cursor < RowCount(s) -> cursor
      [] cursor >= RowCount(s) /\ RowCount(s) > 0 -> RowCount(s) - 1
      [] OTHER -> 0

UndoEdit ==
    /\ pending' = UndoStep(pending)
    /\ cursor' = Clamped(pending'.staged)
    /\ UNCHANGED <<editable, selection, editing>>

RedoEdit ==
    /\ pending' = RedoStep(pending)
    /\ cursor' = Clamped(pending'.staged)
    /\ UNCHANGED <<editable, selection, editing>>

DiscardChanges ==
    /\ pending' = NewChanges /\ editing' = NoEdit
    /\ UNCHANGED <<editable, selection, cursor>>

SetEditable ==
    /\ editable' = ~editable
    /\ IF editable
         THEN pending' = NewChanges /\ editing' = NoEdit
         ELSE UNCHANGED <<pending, editing>>
    /\ UNCHANGED <<selection, cursor>>

\* Other rows are put in place.  What is staged is dropped, if anything is.
SetData ==
    /\ pending' = IF pending.staged = EmptyContents THEN pending ELSE NewChanges
    /\ editing' = NoEdit
    /\ cursor' = 0 /\ selection' = {0} \cap Rows
    /\ UNCHANGED editable

GridNext == Select \/ BeginEdit \/ StageEdit \/ CancelEdit \/ AddRow \/ DeleteRows \/ RevertRows
        \/ UndoEdit \/ RedoEdit \/ DiscardChanges \/ SetEditable \/ SetData

GridSpec == GridInit /\ [][GridNext]_gridVars

(***************************************************************************)
(* Properties.                                                             *)
(***************************************************************************)
GridTypeOK ==
    /\ DOMAIN pending.staged.edits \cup pending.staged.deletes \subseteq Rows
    /\ DOMAIN pending.staged.inserts \subseteq 0..(pending.next_slot - 1)
    /\ editable \in BOOLEAN
    /\ selection \subseteq 0..Displayed /\ cursor \in 0..Displayed
    /\ editing \in [row : 0..Displayed, column : Columns] \cup {NoEdit}

\* Every row of the screen names a row there is, and no two the same one
\* (state.rs, `row_ref_in'), whatever was added, deleted and undone.
RowsAreThere ==
    \A row \in 0..(RowCount(pending.staged) - 1) :
        LET target == RowRef(pending.staged, row)
        IN /\ target \in {Existing(r) : r \in Rows}
                        \cup {New(k) : k \in DOMAIN pending.staged.inserts}
           /\ \A other \in 0..(RowCount(pending.staged) - 1) :
                RowRef(pending.staged, other) = target => other = row

\* A grid that cannot be committed shows nothing staged and has no cell editor
\* open, whatever is undone, redone or staged after it was locked (state.rs,
\* `set_editable').
LockedIsClean == ~editable => pending.staged = EmptyContents /\ editing = NoEdit

\* Reverting rows that exist takes off them everything that was staged, marks
\* and cells, and leaves everything else staged (state.rs, `revert_rows').
RevertsExisting ==
    [][RevertRows /\ SelectedRows \subseteq Rows =>
         LET before == pending.staged
             after == pending'.staged
         IN /\ SelectedRows \cap (DOMAIN after.edits \cup after.deletes) = {}
            /\ \A r \in Rows \ SelectedRows :
                 /\ CellsOf(after, Existing(r)) = CellsOf(before, Existing(r))
                 /\ (r \in after.deletes) = (r \in before.deletes)
            /\ after.inserts = before.inserts]_gridVars

\* Delete marks the rows that are selected, or takes the marks off when all of
\* them have one, and takes a new row out of the grid, and touches no other row
\* and no staged cell ("Mark every selected row for deletion", state.rs,
\* `delete_rows'), when at most one of the rows is new.  Two new rows are more
\* than the code keeps apart: the second is looked up after the first has gone.
DeletesSelected ==
    [][DeleteRows /\ (\A p, q \in SelectedRows \ Rows : p = q) =>
         LET before == pending.staged
             after == pending'.staged
             slots == {k \in DOMAIN before.inserts :
                         \E r \in SelectedRows \ Rows : RowRef(before, r) = New(k)}
         IN /\ after.edits = before.edits
            /\ after.inserts = [k \in DOMAIN before.inserts \ slots |-> before.inserts[k]]
            /\ after.deletes = IF SelectedRows \subseteq before.deletes
                                THEN before.deletes \ SelectedRows
                                ELSE before.deletes \cup (SelectedRows \cap Rows)]_gridVars

\* "Staged edits do not survive the rows they were staged against" (state.rs,
\* `set_data_arc'): over rows just put in place neither undo nor redo stages
\* anything, when something was staged at that moment.  When nothing was, the
\* stacks are kept, and with them the rows before.
StagedEndsWithItsRows ==
    [][SetData /\ pending.staged # EmptyContents =>
         \A c \in {UndoStep(pending'), RedoStep(pending')} : c.staged = EmptyContents]_gridVars

\* The grid: every row of the screen names a row there is, a locked grid shows
\* nothing staged and has no cell editor open, and reverting, deleting and other
\* rows do to what is staged what they say.
GridHolds ==
    /\ [](GridTypeOK /\ RowsAreThere /\ LockedIsClean)
    /\ RevertsExisting /\ DeletesSelected /\ StagedEndsWithItsRows
=============================================================================
