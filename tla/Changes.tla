------------------------------ MODULE Changes ------------------------------
(***************************************************************************)
(* Staged edits and their undo: src/crates/sqlgen/src/change.rs.           *)
(*                                                                         *)
(* A change set holds, against one immutable result set, the cells edited  *)
(* on rows that exist, the rows that do not exist yet (each in a slot) and *)
(* the rows on their way out, plus two stacks of reversible steps.  Every  *)
(* operation of the type is a function from change sets to change sets:    *)
(* module PendingChanges is the type under any sequence of calls, module   *)
(* GridEdits what the grid composes of them.                               *)
(*                                                                         *)
(* A BTreeMap is a function whose domain is the keys present.              *)
(***************************************************************************)
EXTENDS Naturals, Sequences, FiniteSets

CONSTANTS
    Rows,      \* rows of the result set on screen
    Columns,
    Values,
    NoValue,   \* Option::None, where a cell's staged value is asked for
    MaxSlots   \* bound: new rows ever added

ASSUME ChangesAssumption == NoValue \notin Values /\ MaxSlots \in Nat

Slots == 0..(MaxSlots - 1)
RowRefs == [kind : {"existing"}, at : Rows] \cup [kind : {"new"}, at : Slots]
Existing(r) == [kind |-> "existing", at |-> r]
New(s) == [kind |-> "new", at |-> s]

\* Partial functions: BTreeMap insert, remove and get.
Empty == [x \in {} |-> x]
With(f, x, v) == [y \in DOMAIN f \cup {x} |-> IF y = x THEN v ELSE f[y]]
Without(f, x) == [y \in DOMAIN f \ {x} |-> f[y]]
At(f, x) == IF x \in DOMAIN f THEN f[x] ELSE NoValue

Cells == UNION {[S -> Values] : S \in SUBSET Columns}

\* What is staged, without the stacks.
Contents == [edits : UNION {[S -> Cells] : S \in SUBSET Rows},
             inserts : UNION {[S -> Cells] : S \in SUBSET Slots},
             deletes : SUBSET Rows]

Steps == [op : {"set"}, row : RowRefs, column : Columns,
          before : Values \cup {NoValue}, after : Values \cup {NoValue}]
         \cup [op : {"insert"}, slot : Slots]
         \cup [op : {"delete"}, row : Rows, added : BOOLEAN]
         \cup [op : {"discard"}, slot : Slots, values : Cells]

EmptyContents == [edits |-> Empty, inserts |-> Empty, deletes |-> {}]
NewChanges == [staged |-> EmptyContents, next_slot |-> 0, undo |-> <<>>, redo |-> <<>>]

(***************************************************************************)
(* Internals: writing a cell, and undoing one step.                        *)
(***************************************************************************)
CellsOf(s, row) ==
    IF row.kind = "existing"
      THEN IF row.at \in DOMAIN s.edits THEN s.edits[row.at] ELSE Empty
      ELSE IF row.at \in DOMAIN s.inserts THEN s.inserts[row.at] ELSE Empty

Value(s, row, column) == At(CellsOf(s, row), column)

WithCell(cells, column, value) ==
    IF value = NoValue THEN Without(cells, column) ELSE With(cells, column, value)

\* An existing row with nothing staged is not an edited row; a slot that is
\* gone stays gone.
Put(s, row, column, value) ==
    LET cells == WithCell(CellsOf(s, row), column, value)
    IN CASE row.kind = "existing" /\ cells = Empty ->
              [s EXCEPT !.edits = Without(s.edits, row.at)]
         [] row.kind = "existing" /\ cells # Empty ->
              [s EXCEPT !.edits = With(s.edits, row.at, cells)]
         [] row.kind = "new" /\ row.at \in DOMAIN s.inserts ->
              [s EXCEPT !.inserts = With(s.inserts, row.at, cells)]
         [] OTHER -> s

\* Slips: a mark is taken off whichever way it went; a cell step is its own
\* inverse.
Undone_unmarking(s, step) ==
    CASE step.op = "set" -> Put(s, step.row, step.column, step.before)
      [] step.op = "insert" -> [s EXCEPT !.inserts = Without(s.inserts, step.slot)]
      [] step.op = "discard" -> [s EXCEPT !.inserts = With(s.inserts, step.slot, step.values)]
      [] OTHER -> [s EXCEPT !.deletes = @ \ {step.row}]

Inverted_same(s, step) ==
    CASE step.op = "set" -> step
      [] step.op = "insert" -> [op |-> "discard", slot |-> step.slot,
                                values |-> CellsOf(s, New(step.slot))]
      [] step.op = "discard" -> [op |-> "insert", slot |-> step.slot]
      [] OTHER -> [step EXCEPT !.added = ~step.added]

\* The contents once a step is taken back, and the step that would take that back.
Undone(s, step) ==
    CASE step.op = "set" -> Put(s, step.row, step.column, step.before)
      [] step.op = "insert" -> [s EXCEPT !.inserts = Without(s.inserts, step.slot)]
      [] step.op = "discard" -> [s EXCEPT !.inserts = With(s.inserts, step.slot, step.values)]
      [] OTHER -> [s EXCEPT !.deletes = IF step.added THEN @ \ {step.row} ELSE @ \cup {step.row}]

Inverted(s, step) ==
    CASE step.op = "set" -> [step EXCEPT !.before = step.after, !.after = step.before]
      [] step.op = "insert" -> [op |-> "discard", slot |-> step.slot,
                                values |-> CellsOf(s, New(step.slot))]
      [] step.op = "discard" -> [op |-> "insert", slot |-> step.slot]
      [] OTHER -> [step EXCEPT !.added = ~step.added]

Record(c, s, step) ==
    [staged |-> s, next_slot |-> c.next_slot, undo |-> Append(c.undo, step), redo |-> <<>>]

(***************************************************************************)
(* The operations.                                                         *)
(***************************************************************************)
SetCell(c, row, column, value) ==
    Record(c, Put(c.staged, row, column, value),
           [op |-> "set", row |-> row, column |-> column,
            before |-> Value(c.staged, row, column), after |-> value])

\* Slip: slots are numbered by the rows there are, so one comes round again.
InsertRow_counting(c) ==
    LET slot == Cardinality(DOMAIN c.staged.inserts)
    IN Record(c, [c.staged EXCEPT !.inserts = With(c.staged.inserts, slot, Empty)],
              [op |-> "insert", slot |-> slot])

InsertRow(c) ==
    [Record(c, [c.staged EXCEPT !.inserts = With(c.staged.inserts, c.next_slot, Empty)],
            [op |-> "insert", slot |-> c.next_slot])
     EXCEPT !.next_slot = @ + 1]

DeleteRow(c, row) ==
    CASE row.kind = "existing" /\ row.at \notin c.staged.deletes ->
           Record(c, [c.staged EXCEPT !.deletes = @ \cup {row.at}],
                  [op |-> "delete", row |-> row.at, added |-> TRUE])
      [] row.kind = "new" /\ row.at \in DOMAIN c.staged.inserts ->
           Record(c, [c.staged EXCEPT !.inserts = Without(@, row.at)],
                  [op |-> "discard", slot |-> row.at, values |-> c.staged.inserts[row.at]])
      [] OTHER -> c

UndeleteRow(c, r) ==
    IF r \in c.staged.deletes
      THEN Record(c, [c.staged EXCEPT !.deletes = @ \ {r}],
                  [op |-> "delete", row |-> r, added |-> FALSE])
      ELSE c

RevertCell(c, row, column) ==
    LET before == Value(c.staged, row, column)
    IN IF before # NoValue
         THEN Record(c, Put(c.staged, row, column, NoValue),
                     [op |-> "set", row |-> row, column |-> column,
                      before |-> before, after |-> NoValue])
         ELSE c

Cleared(c) == [NewChanges EXCEPT !.next_slot = c.next_slot]

UndoStep(c) ==
    IF c.undo = <<>> THEN c
    ELSE LET step == c.undo[Len(c.undo)]
         IN [c EXCEPT !.staged = Undone(c.staged, step),
                      !.undo = SubSeq(c.undo, 1, Len(c.undo) - 1),
                      !.redo = Append(c.redo, Inverted(c.staged, step))]

RedoStep(c) ==
    IF c.redo = <<>> THEN c
    ELSE LET step == c.redo[Len(c.redo)]
         IN [c EXCEPT !.staged = Undone(c.staged, step),
                      !.redo = SubSeq(c.redo, 1, Len(c.redo) - 1),
                      !.undo = Append(c.undo, Inverted(c.staged, step))]
=============================================================================
