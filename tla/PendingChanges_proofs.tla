----------------------- MODULE PendingChanges_proofs -----------------------
(***************************************************************************)
(* Undo and redo are exact, for every result set, every set of values and  *)
(* every bound: a step and the contents on its two sides stay linked for   *)
(* as long as the step is on either stack.  And the grid above them does   *)
(* to what is staged what its gestures say, row by row.                    *)
(***************************************************************************)
EXTENDS PendingChanges, GridEdits, SequenceTheorems, FiniteSetTheorems,
        NaturalsInduction, WellFoundedInduction, TLAPS

\* A step leads from one contents to another, and back, and forth again.
Link(step, before, after) ==
    /\ before = Undone(after, step)
    /\ after = Undone(before, Inverted(after, step))
    /\ Inverted(before, Inverted(after, step)) = step

\* Contents that name only slots below n and have no empty edit.
Sound(n) == {s \in Contents : /\ \A r \in DOMAIN s.edits : s.edits[r] # Empty
                              /\ DOMAIN s.inserts \subseteq 0..(n - 1)}

\* Steps that name only slots below n.
SoundSteps(n) == {step \in Steps : step.op \in {"insert", "discard"} => step.slot < n}

\* A stack of steps, the contents each one was recorded on, and the contents
\* the last one led to.
Chain(stack, history, s) ==
    /\ Len(stack) = Len(history)
    /\ \A i \in 1..Len(stack) :
         Link(stack[i], history[i], IF i = Len(stack) THEN s ELSE history[i + 1])

Inv ==
    /\ changes = [staged |-> changes.staged, next_slot |-> changes.next_slot,
                  undo |-> changes.undo, redo |-> changes.redo]
    /\ changes.next_slot \in 0..MaxSlots
    /\ changes.staged \in Sound(changes.next_slot)
    /\ past \in Seq(Sound(changes.next_slot)) /\ future \in Seq(Sound(changes.next_slot))
    /\ changes.undo \in Seq(SoundSteps(changes.next_slot))
    /\ changes.redo \in Seq(SoundSteps(changes.next_slot))
    /\ Chain(changes.undo, past, changes.staged)
    /\ Chain(changes.redo, future, changes.staged)

(***************************************************************************)
(* Partial functions: putting a key and taking it back.                    *)
(***************************************************************************)
IsFn(f) == f = [y \in DOMAIN f |-> f[y]]
Partial(X, Y) == UNION {[S -> Y] : S \in SUBSET X}

\* A member of a set of partial functions is a function, with its keys and values.
LEMMA PartialType ==
  ASSUME NEW X, NEW Y, NEW f \in Partial(X, Y)
  PROVE  IsFn(f) /\ DOMAIN f \subseteq X /\ \A x \in DOMAIN f : f[x] \in Y
BY DEF Partial, IsFn

\* Inserting a key keeps the type of a map.
LEMMA PartialWith ==
  ASSUME NEW X, NEW Y, NEW f \in Partial(X, Y), NEW x \in X, NEW v \in Y
  PROVE  With(f, x, v) \in Partial(X, Y)
<1>1. PICK S \in SUBSET X : f \in [S -> Y]
  BY DEF Partial
<1>2. With(f, x, v) \in [S \cup {x} -> Y]
  BY <1>1 DEF With
<1>3. S \cup {x} \in SUBSET X
  OBVIOUS
<1> QED
  BY <1>2, <1>3 DEF Partial

\* Removing a key keeps the type of a map.
LEMMA PartialWithout ==
  ASSUME NEW X, NEW Y, NEW f \in Partial(X, Y), NEW x
  PROVE  Without(f, x) \in Partial(X, Y)
<1>1. PICK S \in SUBSET X : f \in [S -> Y]
  BY DEF Partial
<1>2. Without(f, x) \in [S \ {x} -> Y]
  BY <1>1 DEF Without
<1>3. S \ {x} \in SUBSET X
  OBVIOUS
<1> QED
  BY <1>2, <1>3 DEF Partial

\* The keys of a map after an insertion or a removal.
LEMMA Keys ==
  ASSUME NEW f, NEW x, NEW v
  PROVE  /\ DOMAIN With(f, x, v) = DOMAIN f \cup {x}
         /\ DOMAIN Without(f, x) = DOMAIN f \ {x}
         /\ With(f, x, v)[x] = v
BY DEF With, Without

\* A key that was absent is inserted and removed again.
LEMMA WithoutWith ==
  ASSUME NEW f, IsFn(f), NEW x, x \notin DOMAIN f, NEW v
  PROVE  Without(With(f, x, v), x) = f
BY DEF IsFn, With, Without

\* A value is replaced and put back.
LEMMA WithWith ==
  ASSUME NEW f, IsFn(f), NEW x \in DOMAIN f, NEW v
  PROVE  With(With(f, x, v), x, f[x]) = f
BY DEF IsFn, With

\* A key is removed and put back.
LEMMA WithWithout ==
  ASSUME NEW f, IsFn(f), NEW x \in DOMAIN f
  PROVE  With(Without(f, x), x, f[x]) = f
BY DEF IsFn, With, Without

\* An absent key is removed.
LEMMA WithoutAbsent ==
  ASSUME NEW f, IsFn(f), NEW x, x \notin DOMAIN f
  PROVE  Without(f, x) = f
BY DEF IsFn, Without

\* A key removed twice is removed once.
LEMMA WithoutTwice ==
  ASSUME NEW f, NEW x
  PROVE  Without(Without(f, x), x) = Without(f, x)
BY DEF Without

(***************************************************************************)
(* Cells.                                                                  *)
(***************************************************************************)
\* The map with no key is a row of cells.
LEMMA EmptyCells == Empty \in Cells /\ DOMAIN Empty = {} /\ IsFn(Empty)
<1>1. Empty \in [{} -> Values]
  BY DEF Empty
<1> QED
  BY <1>1 DEF Cells, Empty, IsFn

\* Writing a cell gives a row of cells.
LEMMA WithCellType ==
  ASSUME NEW cells \in Cells, NEW column \in Columns, NEW v \in Values \cup {NoValue}
  PROVE  WithCell(cells, column, v) \in Cells
<1>1. Cells = Partial(Columns, Values)
  BY DEF Cells, Partial
<1>2. CASE v = NoValue
  BY <1>1, <1>2, PartialWithout DEF WithCell
<1>3. CASE v \in Values
  BY <1>1, <1>3, PartialWith, ChangesAssumption DEF WithCell
<1> QED
  BY <1>2, <1>3

\* Writing a cell and writing back what was staged there changes nothing.
LEMMA CellBack ==
  ASSUME NEW cells \in Cells, NEW column \in Columns, NEW v \in Values \cup {NoValue}
  PROVE  /\ WithCell(WithCell(cells, column, v), column, At(cells, column)) = cells
         /\ At(cells, column) \in Values \cup {NoValue}
<1>1. /\ IsFn(cells) /\ \A c \in DOMAIN cells : cells[c] \in Values
  BY PartialType DEF Cells, Partial
<1>2. CASE column \in DOMAIN cells
  <2>1. At(cells, column) = cells[column] /\ cells[column] # NoValue
    BY <1>1, <1>2, ChangesAssumption DEF At
  <2>2. WithCell(WithCell(cells, column, v), column, cells[column])
          = With(WithCell(cells, column, v), column, cells[column])
    BY <2>1 DEF WithCell
  <2>3. CASE v = NoValue
    BY <1>1, <1>2, <2>1, <2>2, <2>3, WithWithout DEF WithCell
  <2>4. CASE v # NoValue
    BY <1>1, <1>2, <2>1, <2>2, <2>4, WithWith DEF WithCell
  <2> QED
    BY <1>1, <1>2, <2>1, <2>3, <2>4
<1>3. CASE column \notin DOMAIN cells
  <2>1. At(cells, column) = NoValue
    BY <1>3 DEF At
  <2>2. CASE v = NoValue
    BY <1>1, <1>3, <2>1, <2>2, WithoutAbsent DEF WithCell
  <2>3. CASE v # NoValue
    BY <1>1, <1>3, <2>1, <2>3, WithoutWith DEF WithCell
  <2> QED
    BY <2>1, <2>2, <2>3
<1> QED
  BY <1>2, <1>3

(***************************************************************************)
(* Putting a cell.                                                         *)
(***************************************************************************)
\* The parts of sound contents.
LEMMA SoundParts ==
  ASSUME NEW n, NEW s \in Sound(n)
  PROVE  /\ s = [edits |-> s.edits, inserts |-> s.inserts, deletes |-> s.deletes]
         /\ s.edits \in Partial(Rows, Cells) /\ s.inserts \in Partial(Slots, Cells)
         /\ s.deletes \in SUBSET Rows
         /\ IsFn(s.edits) /\ IsFn(s.inserts)
         /\ DOMAIN s.inserts \subseteq 0..(n - 1)
         /\ \A r \in DOMAIN s.edits : s.edits[r] \in Cells /\ s.edits[r] # Empty
         /\ \A k \in DOMAIN s.inserts : s.inserts[k] \in Cells
<1>1. /\ s \in [edits : Partial(Rows, Cells), inserts : Partial(Slots, Cells), deletes : SUBSET Rows]
      /\ \A r \in DOMAIN s.edits : s.edits[r] # Empty
      /\ DOMAIN s.inserts \subseteq 0..(n - 1)
  BY DEF Sound, Contents, Partial
<1> QED
  BY <1>1, PartialType

\* Contents with the parts of sound contents are sound.
LEMMA SoundFrom ==
  ASSUME NEW n, NEW e \in Partial(Rows, Cells), NEW i \in Partial(Slots, Cells),
         NEW d \in SUBSET Rows, \A r \in DOMAIN e : e[r] # Empty, DOMAIN i \subseteq 0..(n - 1)
  PROVE  [edits |-> e, inserts |-> i, deletes |-> d] \in Sound(n)
BY DEF Sound, Contents, Partial

\* The cells staged for a row are a row of cells.
LEMMA CellsOfType ==
  ASSUME NEW n, NEW s \in Sound(n), NEW row \in RowRefs
  PROVE  CellsOf(s, row) \in Cells
BY SoundParts, EmptyCells DEF CellsOf

\* An existing row: the edit is replaced, or dropped when nothing is left of it.
LEMMA PutExisting ==
  ASSUME NEW n, NEW s \in Sound(n), NEW r \in Rows, NEW column \in Columns,
         NEW v \in Values \cup {NoValue}
  PROVE  /\ Put(s, Existing(r), column, v) \in Sound(n)
         /\ Put(Put(s, Existing(r), column, v), Existing(r), column,
                Value(s, Existing(r), column)) = s
<1> DEFINE row == Existing(r)
           old == CellsOf(s, row)
           new == WithCell(old, column, v)
           t == Put(s, row, column, v)
           w == Value(s, row, column)
<1>0. row \in RowRefs /\ row.kind = "existing" /\ row.at = r
  BY DEF RowRefs, Existing
<1>1. old \in Cells /\ new \in Cells
  BY <1>0, CellsOfType, WithCellType
<1>2. WithCell(new, column, w) = old
  BY <1>1, CellBack DEF Value
<1>3. old = IF r \in DOMAIN s.edits THEN s.edits[r] ELSE Empty
  BY <1>0 DEF CellsOf
<1>p. /\ s = [edits |-> s.edits, inserts |-> s.inserts, deletes |-> s.deletes]
      /\ s.edits \in Partial(Rows, Cells) /\ s.inserts \in Partial(Slots, Cells)
      /\ s.deletes \in SUBSET Rows /\ IsFn(s.edits)
      /\ DOMAIN s.inserts \subseteq 0..(n - 1)
      /\ \A x \in DOMAIN s.edits : s.edits[x] # Empty
  BY SoundParts
<1> DEFINE E == IF new = Empty THEN Without(s.edits, r) ELSE With(s.edits, r, new)
<1>4. t = [edits |-> E, inserts |-> s.inserts, deletes |-> s.deletes]
  BY <1>0, <1>p DEF Put
<1>5. E \in Partial(Rows, Cells)
  BY <1>1, <1>p, PartialWith, PartialWithout
<1>6. \A x \in DOMAIN E : E[x] # Empty
  BY <1>p DEF With, Without
<1>7. CellsOf(t, row) = new
  <2>1. CellsOf(t, row) = IF r \in DOMAIN E THEN E[r] ELSE Empty
    BY <1>0, <1>4 DEF CellsOf
  <2> QED
    BY <2>1 DEF With, Without
<1> HIDE DEF new, w
<1> DEFINE B == IF old = Empty THEN Without(E, r) ELSE With(E, r, old)
<1>8. Put(t, row, column, w) = [edits |-> B, inserts |-> s.inserts, deletes |-> s.deletes]
  <2> HIDE DEF t, row, E
  <2>1. WithCell(CellsOf(t, row), column, w) = old
    BY <1>2, <1>7
  <2> HIDE DEF old
  <2> QED
    BY <2>1, <1>0, <1>4 DEF Put
<1>9. B = s.edits
  <2>1. CASE r \in DOMAIN s.edits
    <3>1. old = s.edits[r] /\ old # Empty
      BY <1>3, <1>p, <2>1
    <3> HIDE DEF old
    <3>2. B = With(E, r, s.edits[r])
      BY <3>1
    <3> QED
      BY <2>1, <3>2, <1>p, WithWith, WithWithout
  <2>2. CASE r \notin DOMAIN s.edits
    <3>1. old = Empty
      BY <1>3, <2>2
    <3> HIDE DEF old
    <3>2. B = Without(E, r)
      BY <3>1
    <3> QED
      BY <2>2, <3>2, <1>p, WithoutWith, WithoutAbsent, WithoutTwice
  <2> QED
    BY <2>1, <2>2
<1>10. t \in Sound(n)
  <2> HIDE DEF E, t
  <2> QED
    BY <1>4, <1>5, <1>6, <1>p, SoundFrom
<1> QED
  BY <1>8, <1>9, <1>10, <1>p DEF w

\* A new row: its cells are replaced, and a row that is gone stays gone.
LEMMA PutNew ==
  ASSUME NEW n, NEW s \in Sound(n), NEW k \in Slots, NEW column \in Columns,
         NEW v \in Values \cup {NoValue}
  PROVE  /\ Put(s, New(k), column, v) \in Sound(n)
         /\ Put(Put(s, New(k), column, v), New(k), column, Value(s, New(k), column)) = s
<1> DEFINE row == New(k)
           old == CellsOf(s, row)
           new == WithCell(old, column, v)
           t == Put(s, row, column, v)
           w == Value(s, row, column)
<1>0. row \in RowRefs /\ row.kind = "new" /\ row.at = k
  BY DEF RowRefs, New
<1>1. old \in Cells /\ new \in Cells
  BY <1>0, CellsOfType, WithCellType
<1>2. WithCell(new, column, w) = old
  BY <1>1, CellBack DEF Value
<1>p. /\ s = [edits |-> s.edits, inserts |-> s.inserts, deletes |-> s.deletes]
      /\ s.edits \in Partial(Rows, Cells) /\ s.inserts \in Partial(Slots, Cells)
      /\ s.deletes \in SUBSET Rows /\ IsFn(s.inserts)
      /\ DOMAIN s.inserts \subseteq 0..(n - 1)
      /\ \A x \in DOMAIN s.edits : s.edits[x] # Empty
  BY SoundParts
<1>a. CASE k \notin DOMAIN s.inserts
  <2>1. \A u : Put(s, row, column, u) = s
    BY <1>0, <1>a DEF Put
  <2> QED
    BY <2>1
<1>b. CASE k \in DOMAIN s.inserts
  <2> DEFINE I == With(s.inserts, k, new)
  <2>1. old = s.inserts[k]
    BY <1>0, <1>b DEF CellsOf
  <2>2. t = [edits |-> s.edits, inserts |-> I, deletes |-> s.deletes]
    BY <1>0, <1>b, <1>p DEF Put
  <2>3. I \in Partial(Slots, Cells) /\ DOMAIN I = DOMAIN s.inserts
    <3>1. I \in Partial(Slots, Cells)
      BY <1>1, <1>p, PartialWith
    <3>2. DOMAIN I = DOMAIN s.inserts
      BY <1>b DEF With
    <3> QED
      BY <3>1, <3>2
  <2>4. CellsOf(t, row) = new
    <3>1. CellsOf(t, row) = I[k]
      BY <1>0, <1>b, <2>2, <2>3 DEF CellsOf
    <3> QED
      BY <3>1 DEF With
  <2> HIDE DEF new, w
  <2>5. Put(t, row, column, w)
          = [edits |-> s.edits, inserts |-> With(I, k, old), deletes |-> s.deletes]
    <3> HIDE DEF t, row, I
    <3>1. WithCell(CellsOf(t, row), column, w) = old
      BY <1>2, <2>4
    <3> HIDE DEF old
    <3> QED
      BY <3>1, <1>0, <1>b, <2>2, <2>3 DEF Put
  <2>6. With(I, k, old) = s.inserts
    BY <1>b, <1>p, <2>1, WithWith
  <2>7. t \in Sound(n)
    <3> HIDE DEF I, t
    <3> QED
      BY <2>2, <2>3, <1>p, SoundFrom
  <2> QED
    BY <2>5, <2>6, <2>7, <1>p DEF w
<1> QED
  BY <1>a, <1>b

\* Either kind of row.
LEMMA PutBack ==
  ASSUME NEW n, NEW s \in Sound(n), NEW row \in RowRefs, NEW column \in Columns,
         NEW v \in Values \cup {NoValue}
  PROVE  /\ Put(s, row, column, v) \in Sound(n)
         /\ Put(Put(s, row, column, v), row, column, Value(s, row, column)) = s
         /\ Value(s, row, column) \in Values \cup {NoValue}
<1>1. Value(s, row, column) \in Values \cup {NoValue}
  BY CellsOfType, CellBack DEF Value
<1>2. row \in {Existing(r) : r \in Rows} \cup {New(k) : k \in Slots}
  BY DEF RowRefs, Existing, New
<1> QED
  BY <1>1, <1>2, PutExisting, PutNew

(***************************************************************************)
(* Links, and chains of them.                                              *)
(***************************************************************************)
\* What takes a step back is a step the other way.
LEMMA LinkBack ==
  ASSUME NEW step, NEW s, NEW t, Link(step, s, t)
  PROVE  Link(Inverted(t, step), t, s)
<1> DEFINE back == Inverted(t, step)
<1>1. s = Undone(t, step) /\ t = Undone(s, back) /\ Inverted(s, back) = step
  BY DEF Link
<1> HIDE DEF back
<1>2. s = Undone(t, Inverted(s, back)) /\ Inverted(t, Inverted(s, back)) = back
  BY <1>1 DEF back
<1>3. Link(back, t, s)
  BY <1>1, <1>2 DEF Link
<1> QED
  BY <1>3 DEF back

\* The step `set_cell' and `revert_cell' record.
LEMMA LinkSet ==
  ASSUME NEW n, NEW s \in Sound(n), NEW row \in RowRefs, NEW column \in Columns,
         NEW v \in Values \cup {NoValue}
  PROVE  LET step == [op |-> "set", row |-> row, column |-> column,
                      before |-> Value(s, row, column), after |-> v]
         IN step \in SoundSteps(n) /\ Link(step, s, Put(s, row, column, v))
<1> DEFINE w == Value(s, row, column)
           t == Put(s, row, column, v)
           step == [op |-> "set", row |-> row, column |-> column, before |-> w, after |-> v]
           back == [op |-> "set", row |-> row, column |-> column, before |-> v, after |-> w]
<1>1. Put(t, row, column, w) = s /\ w \in Values \cup {NoValue}
  BY PutBack
<1> HIDE DEF w, t
<1>2. Undone(t, step) = s
  BY <1>1 DEF Undone
<1>3. \A u : Inverted(u, step) = back /\ Inverted(u, back) = step
  BY DEF Inverted
<1>4. Undone(s, back) = t
  BY DEF Undone, t
<1>5. step \in SoundSteps(n)
  BY <1>1 DEF SoundSteps, Steps
<1>6. Link(step, s, t)
  <2> HIDE DEF step, back
  <2> QED
    BY <1>2, <1>3, <1>4 DEF Link
<1> QED
  BY <1>5, <1>6 DEF w, t

\* The step `insert_row' records.
LEMMA LinkInsert ==
  ASSUME NEW n \in Slots, NEW s \in Sound(n)
  PROVE  LET step == [op |-> "insert", slot |-> n]
             t == [s EXCEPT !.inserts = With(s.inserts, n, Empty)]
         IN step \in SoundSteps(n + 1) /\ t \in Sound(n + 1) /\ Link(step, s, t)
<1> DEFINE step == [op |-> "insert", slot |-> n]
           back == [op |-> "discard", slot |-> n, values |-> Empty]
           I == With(s.inserts, n, Empty)
           t == [s EXCEPT !.inserts = I]
<1>0. n \in Nat
  BY ChangesAssumption DEF Slots
<1>p. /\ s = [edits |-> s.edits, inserts |-> s.inserts, deletes |-> s.deletes]
      /\ s.edits \in Partial(Rows, Cells) /\ s.inserts \in Partial(Slots, Cells)
      /\ s.deletes \in SUBSET Rows /\ IsFn(s.inserts)
      /\ DOMAIN s.inserts \subseteq 0..(n - 1)
      /\ \A x \in DOMAIN s.edits : s.edits[x] # Empty
  BY SoundParts
<1>1. n \notin DOMAIN s.inserts
  BY <1>0, <1>p
<1>2. t = [edits |-> s.edits, inserts |-> I, deletes |-> s.deletes]
  BY <1>p
<1>3. I \in Partial(Slots, Cells) /\ DOMAIN I = DOMAIN s.inserts \cup {n}
  <2>1. I \in Partial(Slots, Cells)
    BY <1>p, PartialWith, EmptyCells
  <2>2. DOMAIN I = DOMAIN s.inserts \cup {n}
    BY DEF With
  <2> QED
    BY <2>1, <2>2
<1>4. t \in Sound(n + 1)
  <2>1. DOMAIN I \subseteq 0..((n + 1) - 1)
    BY <1>0, <1>3, <1>p
  <2> HIDE DEF I, t
  <2> QED
    BY <1>2, <1>3, <1>p, <2>1, SoundFrom
<1>5. step \in SoundSteps(n + 1)
  BY <1>0 DEF SoundSteps, Steps
<1>6. Without(I, n) = s.inserts
  BY <1>1, <1>p, WithoutWith
<1>7. I[n] = Empty
  BY DEF With
<1> HIDE DEF I
<1>8. Undone(t, step) = s
  BY <1>2, <1>6, <1>p DEF Undone
<1>9. Inverted(t, step) = back
  BY <1>2, <1>3, <1>7 DEF Inverted, CellsOf, New
<1>10. Undone(s, back) = t
  BY DEF Undone, I
<1>11. Inverted(s, back) = step
  BY DEF Inverted
<1>12. Link(step, s, t)
  <2> HIDE DEF step, back, t
  <2> QED
    BY <1>8, <1>9, <1>10, <1>11 DEF Link
<1> QED
  BY <1>4, <1>5, <1>12 DEF I

\* The step `delete_row' records on a new row.
LEMMA LinkDiscard ==
  ASSUME NEW n \in Nat, NEW s \in Sound(n), NEW k \in DOMAIN s.inserts
  PROVE  LET step == [op |-> "discard", slot |-> k, values |-> s.inserts[k]]
             t == [s EXCEPT !.inserts = Without(s.inserts, k)]
         IN step \in SoundSteps(n) /\ t \in Sound(n) /\ Link(step, s, t)
<1> DEFINE step == [op |-> "discard", slot |-> k, values |-> s.inserts[k]]
           back == [op |-> "insert", slot |-> k]
           I == Without(s.inserts, k)
           t == [s EXCEPT !.inserts = I]
<1>p. /\ s = [edits |-> s.edits, inserts |-> s.inserts, deletes |-> s.deletes]
      /\ s.edits \in Partial(Rows, Cells) /\ s.inserts \in Partial(Slots, Cells)
      /\ s.deletes \in SUBSET Rows /\ IsFn(s.inserts)
      /\ DOMAIN s.inserts \subseteq 0..(n - 1)
      /\ \A x \in DOMAIN s.edits : s.edits[x] # Empty
      /\ s.inserts[k] \in Cells
  BY SoundParts
<1>1. k \in Slots /\ k < n
  <2>1. k \in 0..(n - 1)
    BY <1>p
  <2>2. DOMAIN s.inserts \subseteq Slots
    BY <1>p, PartialType
  <2> QED
    BY <2>1, <2>2
<1>2. t = [edits |-> s.edits, inserts |-> I, deletes |-> s.deletes]
  BY <1>p
<1>3. I \in Partial(Slots, Cells)
  BY <1>p, PartialWithout
<1>4. t \in Sound(n)
  <2>1. DOMAIN I \subseteq 0..(n - 1)
    BY <1>p DEF Without
  <2> HIDE DEF I, t
  <2> QED
    BY <1>2, <1>3, <1>p, <2>1, SoundFrom
<1>5. step \in SoundSteps(n)
  BY <1>1, <1>p DEF SoundSteps, Steps
<1>6. With(I, k, s.inserts[k]) = s.inserts
  BY <1>p, WithWithout
<1> HIDE DEF I
<1>7. Undone(t, step) = s
  BY <1>2, <1>6, <1>p DEF Undone
<1>8. \A u : Inverted(u, step) = back
  BY DEF Inverted
<1>9. Undone(s, back) = t
  BY DEF Undone, I
<1>10. Inverted(s, back) = step
  BY DEF Inverted, CellsOf, New
<1>11. Link(step, s, t)
  <2> HIDE DEF step, back, t
  <2> QED
    BY <1>7, <1>8, <1>9, <1>10 DEF Link
<1> QED
  BY <1>4, <1>5, <1>11 DEF I

\* The steps `delete_row' and `undelete_row' record on an existing row.
LEMMA LinkDelete ==
  ASSUME NEW n, NEW s \in Sound(n), NEW r \in Rows, NEW added \in BOOLEAN,
         added = (r \notin s.deletes)
  PROVE  LET step == [op |-> "delete", row |-> r, added |-> added]
             t == [s EXCEPT !.deletes = IF added THEN s.deletes \cup {r} ELSE s.deletes \ {r}]
         IN step \in SoundSteps(n) /\ t \in Sound(n) /\ Link(step, s, t)
<1> DEFINE step == [op |-> "delete", row |-> r, added |-> added]
           back == [op |-> "delete", row |-> r, added |-> ~added]
           D == IF added THEN s.deletes \cup {r} ELSE s.deletes \ {r}
           t == [s EXCEPT !.deletes = D]
<1>p. /\ s = [edits |-> s.edits, inserts |-> s.inserts, deletes |-> s.deletes]
      /\ s.edits \in Partial(Rows, Cells) /\ s.inserts \in Partial(Slots, Cells)
      /\ s.deletes \in SUBSET Rows
      /\ DOMAIN s.inserts \subseteq 0..(n - 1)
      /\ \A x \in DOMAIN s.edits : s.edits[x] # Empty
  BY SoundParts
<1>2. t = [edits |-> s.edits, inserts |-> s.inserts, deletes |-> D]
  <2> HIDE DEF D
  <2> QED
    BY <1>p
<1>4. t \in Sound(n)
  <2>1. D \in SUBSET Rows
    BY <1>p
  <2> HIDE DEF D, t
  <2> QED
    BY <1>2, <1>p, <2>1, SoundFrom
<1>5. step \in SoundSteps(n)
  BY DEF SoundSteps, Steps
<1>6. (IF added THEN D \ {r} ELSE D \cup {r}) = s.deletes
  OBVIOUS
<1>7. Undone(t, step) = s
  BY <1>2, <1>6, <1>p DEF Undone
<1>8. \A u : Inverted(u, step) = back /\ Inverted(u, back) = step
  BY DEF Inverted
<1>9. Undone(s, back) = t
  BY DEF Undone
<1>10. Link(step, s, t)
  <2> HIDE DEF step, back, t
  <2> QED
    BY <1>7, <1>8, <1>9 DEF Link
<1> QED
  BY <1>4, <1>5, <1>10

\* A step is recorded at the end of a chain.
LEMMA ChainPush ==
  ASSUME NEW H, NEW T, NEW stack \in Seq(T), NEW history \in Seq(H), NEW s \in H, NEW t,
         NEW step \in T, Chain(stack, history, s), Link(step, s, t)
  PROVE  Chain(Append(stack, step), Append(history, s), t)
<1> DEFINE n == Len(stack)
<1>1. n \in Nat /\ Len(history) = n
  BY DEF Chain
<1>2. Len(Append(stack, step)) = n + 1 /\ Len(Append(history, s)) = n + 1
  BY <1>1
<1>3. SUFFICES ASSUME NEW i \in 1..(n + 1)
               PROVE  Link(Append(stack, step)[i], Append(history, s)[i],
                           IF i = n + 1 THEN t ELSE Append(history, s)[i + 1])
  BY <1>2 DEF Chain
<1>4. CASE i = n + 1
  BY <1>1, <1>4
<1>5. CASE i = n
  <2>1. i \in 1..n /\ i # n + 1
    BY <1>1, <1>5
  <2>2. Append(stack, step)[i] = stack[i] /\ Append(history, s)[i] = history[i]
    BY <1>1, <2>1
  <2>3. Append(history, s)[i + 1] = s
    BY <1>1, <1>5
  <2>4. Link(stack[i], history[i], s)
    BY <1>5, <2>1 DEF Chain
  <2> QED
    BY <2>1, <2>2, <2>3, <2>4
<1>6. CASE i \in 1..(n - 1)
  <2>1. i \in 1..n /\ i # n + 1 /\ i # n /\ i + 1 \in 1..n
    BY <1>1, <1>6
  <2>2. /\ Append(stack, step)[i] = stack[i]
        /\ Append(history, s)[i] = history[i]
        /\ Append(history, s)[i + 1] = history[i + 1]
    BY <1>1, <2>1
  <2>3. Link(stack[i], history[i], history[i + 1])
    BY <2>1 DEF Chain
  <2> QED
    BY <2>1, <2>2, <2>3
<1> QED
  BY <1>1, <1>4, <1>5, <1>6

\* The last step of a chain is taken off it.
LEMMA ChainPop ==
  ASSUME NEW H, NEW T, NEW stack \in Seq(T), NEW history \in Seq(H), NEW s,
         Chain(stack, history, s), stack # <<>>
  PROVE  /\ Len(stack) \in Nat \ {0}
         /\ Len(history) = Len(stack)
         /\ stack[Len(stack)] \in T /\ history[Len(history)] \in H
         /\ Link(stack[Len(stack)], history[Len(history)], s)
         /\ SubSeq(stack, 1, Len(stack) - 1) \in Seq(T)
         /\ SubSeq(history, 1, Len(history) - 1) \in Seq(H)
         /\ Chain(SubSeq(stack, 1, Len(stack) - 1), SubSeq(history, 1, Len(history) - 1),
                  history[Len(history)])
<1> DEFINE n == Len(stack)
           S == SubSeq(stack, 1, n - 1)
           B == SubSeq(history, 1, n - 1)
<1>1. n \in Nat \ {0} /\ Len(history) = n
  BY DEF Chain
<1>2. n \in 1..n
  BY <1>1
<1>3. stack[n] \in T /\ history[n] \in H
  BY <1>1, <1>2
<1>4. Link(stack[n], history[n], s)
  BY <1>2 DEF Chain
<1>5. /\ S \in Seq(T) /\ B \in Seq(H)
      /\ Len(S) = n - 1 /\ Len(B) = n - 1
      /\ \A i \in 1..(n - 1) : S[i] = stack[i] /\ B[i] = history[i]
  BY <1>1
<1> HIDE DEF S, B
<1>6. Chain(S, B, history[n])
  <2>1. SUFFICES ASSUME NEW i \in 1..(n - 1)
                 PROVE  Link(S[i], B[i], IF i = n - 1 THEN history[n] ELSE B[i + 1])
    BY <1>5 DEF Chain
  <2>2. i \in 1..n /\ i # n
    BY <1>1
  <2>3. Link(stack[i], history[i], history[i + 1])
    BY <2>2 DEF Chain
  <2>4. CASE i = n - 1
    BY <1>1, <1>5, <2>3, <2>4
  <2>5. CASE i # n - 1
    <3>1. i + 1 \in 1..(n - 1)
      BY <1>1, <2>5
    <3> QED
      BY <1>5, <2>3, <2>5, <3>1
  <2> QED
    BY <2>4, <2>5
<1> QED
  BY <1>1, <1>3, <1>4, <1>5, <1>6 DEF S, B

\* A chain of no steps.
LEMMA ChainEmpty == \A s : Chain(<<>>, <<>>, s)
BY DEF Chain

\* What named only slots below n names only slots below a larger bound.
LEMMA SoundGrows ==
  ASSUME NEW n \in Nat, NEW m \in Nat, n <= m
  PROVE  Sound(n) \subseteq Sound(m) /\ SoundSteps(n) \subseteq SoundSteps(m)
<1>1. 0..(n - 1) \subseteq 0..(m - 1)
  OBVIOUS
<1>2. Sound(n) \subseteq Sound(m)
  BY <1>1 DEF Sound
<1>3. \A step \in Steps : step.op \in {"insert", "discard"} => step.slot \in Nat
  BY ChangesAssumption DEF Steps, Slots
<1>4. SoundSteps(n) \subseteq SoundSteps(m)
  BY <1>3 DEF SoundSteps
<1> QED
  BY <1>2, <1>4

(***************************************************************************)
(* The invariant, action by action.                                        *)
(***************************************************************************)
\* The invariant holds of a new change set.
LEMMA InitInv == Init => Inv
<1> SUFFICES ASSUME Init PROVE Inv
  OBVIOUS
<1>1. EmptyContents \in Sound(0)
  <2>1. Empty \in Partial(Rows, Cells) /\ Empty \in Partial(Slots, Cells) /\ DOMAIN Empty = {}
    <3>1. Empty \in [{} -> Cells]
      BY DEF Empty
    <3> QED
      BY <3>1, EmptyCells DEF Partial
  <2> QED
    BY <2>1, SoundFrom DEF EmptyContents
<1> HIDE DEF EmptyContents
<1> QED
  BY <1>1, ChainEmpty, ChangesAssumption DEF Init, Inv, NewChanges

\* Recording a linked step keeps the invariant.
LEMMA RecordInv ==
  ASSUME Inv, NEW m \in 0..MaxSlots, changes.next_slot <= m,
         NEW t \in Sound(m), NEW step \in SoundSteps(m), Link(step, changes.staged, t),
         changes' = [staged |-> t, next_slot |-> m, undo |-> Append(changes.undo, step),
                     redo |-> <<>>],
         past' = Append(past, changes.staged), future' = <<>>
  PROVE  Inv'
<1> DEFINE n == changes.next_slot
<1>1. n \in Nat /\ m \in Nat /\ n <= m
  BY ChangesAssumption DEF Inv
<1>2. Sound(n) \subseteq Sound(m) /\ SoundSteps(n) \subseteq SoundSteps(m)
  BY <1>1, SoundGrows
<1>3. /\ changes.staged \in Sound(m) /\ past \in Seq(Sound(m))
      /\ changes.undo \in Seq(SoundSteps(m))
  BY <1>2 DEF Inv
<1>4. Chain(Append(changes.undo, step), Append(past, changes.staged), t)
  BY <1>3, ChainPush DEF Inv
<1>5. Append(past, changes.staged) \in Seq(Sound(m)) /\ Append(changes.undo, step) \in Seq(SoundSteps(m))
  BY <1>3
<1> QED
  BY <1>4, <1>5, ChainEmpty DEF Inv

\* A call that records nothing keeps the invariant.
LEMMA NothingInv == Inv /\ UNCHANGED vars => Inv'
BY DEF Inv, vars

\* The change set a recorded step leaves.
LEMMA RecordIs ==
  ASSUME Inv, NEW t, NEW step, NEW m
  PROVE  /\ Record(changes, t, step)
              = [staged |-> t, next_slot |-> changes.next_slot,
                 undo |-> Append(changes.undo, step), redo |-> <<>>]
         /\ [Record(changes, t, step) EXCEPT !.next_slot = m]
              = [staged |-> t, next_slot |-> m,
                 undo |-> Append(changes.undo, step), redo |-> <<>>]
<1> DEFINE w == Append(changes.undo, step)
           z == changes.next_slot
<1>1. Record(changes, t, step) = [staged |-> t, next_slot |-> z, undo |-> w, redo |-> <<>>]
  BY DEF Record
<1> HIDE DEF w, z
<1>2. [[staged |-> t, next_slot |-> z, undo |-> w, redo |-> <<>>] EXCEPT !.next_slot = m]
        = [staged |-> t, next_slot |-> m, undo |-> w, redo |-> <<>>]
  OBVIOUS
<1> QED
  BY <1>1, <1>2 DEF w, z

\* What a recording call leaves beside it.
LEMMA Recording ==
  ASSUME Inv, NEW t, NEW step, NEW m,
         Recorded([staged |-> t, next_slot |-> m, undo |-> Append(changes.undo, step),
                   redo |-> <<>>])
  PROVE  /\ changes' = [staged |-> t, next_slot |-> m, undo |-> Append(changes.undo, step),
                        redo |-> <<>>]
         /\ past' = Append(past, changes.staged) /\ future' = <<>>
<1>1. changes.undo \in Seq(SoundSteps(changes.next_slot))
  BY DEF Inv
<1>2. Append(changes.undo, step) # changes.undo
  <2>1. Len(Append(changes.undo, step)) # Len(changes.undo)
    BY <1>1
  <2> QED
    BY <2>1
<1> QED
  BY <1>2 DEF Recorded

\* A linked step recorded without a slot keeps the invariant.
LEMMA RecordHereInv ==
  ASSUME Inv, NEW t \in Sound(changes.next_slot), NEW step \in SoundSteps(changes.next_slot),
         Link(step, changes.staged, t), Recorded(Record(changes, t, step))
  PROVE  Inv'
<1>1. changes.next_slot \in 0..MaxSlots /\ changes.next_slot <= changes.next_slot
  BY ChangesAssumption DEF Inv
<1>2. Recorded([staged |-> t, next_slot |-> changes.next_slot,
                undo |-> Append(changes.undo, step), redo |-> <<>>])
  BY RecordIs
<1>3. /\ changes' = [staged |-> t, next_slot |-> changes.next_slot,
                     undo |-> Append(changes.undo, step), redo |-> <<>>]
      /\ past' = Append(past, changes.staged) /\ future' = <<>>
  BY <1>2, Recording
<1> QED
  BY <1>1, <1>3, RecordInv

\* A call with nothing to do records nothing.
LEMMA RecordNothing == Inv /\ Recorded(changes) => Inv'
BY NothingInv DEF Recorded, vars

\* Setting a cell keeps the invariant.
LEMMA SetInv == Inv /\ Set => Inv'
<1> SUFFICES ASSUME Inv, Set PROVE Inv'
  OBVIOUS
<1>1. PICK row \in RowRefs, column \in Columns, value \in Values :
        Recorded(SetCell(changes, row, column, value))
  BY DEF Set
<1>2. changes.staged \in Sound(changes.next_slot)
  BY DEF Inv
<1> QED
  BY <1>1, <1>2, PutBack, LinkSet, RecordHereInv DEF SetCell

\* Adding a row keeps the invariant.
LEMMA InsertInv == Inv /\ Insert => Inv'
<1> SUFFICES ASSUME Inv, Insert PROVE Inv'
  OBVIOUS
<1> DEFINE n == changes.next_slot
           s == changes.staged
           step == [op |-> "insert", slot |-> n]
           t == [s EXCEPT !.inserts = With(s.inserts, n, Empty)]
<1>1. n \in 0..MaxSlots /\ n < MaxSlots /\ s \in Sound(n)
  BY DEF Inv, Insert
<1>2. n \in Slots /\ n + 1 \in 0..MaxSlots /\ n <= n + 1
  BY <1>1, ChangesAssumption DEF Slots
<1>3. step \in SoundSteps(n + 1) /\ t \in Sound(n + 1) /\ Link(step, s, t)
  BY <1>1, <1>2, LinkInsert
<1> HIDE DEF step, t
<1>4. Recorded([staged |-> t, next_slot |-> n + 1, undo |-> Append(changes.undo, step),
                redo |-> <<>>])
  <2>1. InsertRow(changes) = [Record(changes, t, step) EXCEPT !.next_slot = n + 1]
    <3>1. Record(changes, t, step).next_slot = n
      BY DEF Record
    <3> QED
      BY <3>1 DEF InsertRow, step, t
  <2> QED
    BY <2>1, RecordIs DEF Insert
<1>5. /\ changes' = [staged |-> t, next_slot |-> n + 1, undo |-> Append(changes.undo, step),
                     redo |-> <<>>]
      /\ past' = Append(past, changes.staged) /\ future' = <<>>
  BY <1>4, Recording
<1> QED
  BY <1>2, <1>3, <1>5, RecordInv

\* Deleting a row keeps the invariant, whichever kind of row it is.
LEMMA DeleteInv == Inv /\ Delete => Inv'
<1> SUFFICES ASSUME Inv, Delete PROVE Inv'
  OBVIOUS
<1>1. PICK row \in RowRefs : Recorded(DeleteRow(changes, row))
  BY DEF Delete
<1> DEFINE s == changes.staged
<1>2. s \in Sound(changes.next_slot) /\ changes.next_slot \in Nat
  BY ChangesAssumption DEF Inv
<1>3. CASE row.kind = "existing" /\ row.at \notin s.deletes
  <2> DEFINE step == [op |-> "delete", row |-> row.at, added |-> TRUE]
             t == [s EXCEPT !.deletes = s.deletes \cup {row.at}]
  <2>1. row.at \in Rows
    BY <1>3 DEF RowRefs
  <2>2. step \in SoundSteps(changes.next_slot) /\ t \in Sound(changes.next_slot) /\ Link(step, s, t)
    <3>1. TRUE = (row.at \notin s.deletes)
      BY <1>3
    <3>2. t = [s EXCEPT !.deletes = IF TRUE THEN s.deletes \cup {row.at} ELSE s.deletes \ {row.at}]
      OBVIOUS
    <3> QED
      BY <1>2, <2>1, <3>1, <3>2, LinkDelete
  <2>3. DeleteRow(changes, row) = Record(changes, t, step)
    BY <1>3 DEF DeleteRow
  <2> QED
    BY <1>1, <2>2, <2>3, RecordHereInv
<1>4. CASE row.kind = "new" /\ row.at \in DOMAIN s.inserts
  <2> DEFINE step == [op |-> "discard", slot |-> row.at, values |-> s.inserts[row.at]]
             t == [s EXCEPT !.inserts = Without(s.inserts, row.at)]
  <2>2. step \in SoundSteps(changes.next_slot) /\ t \in Sound(changes.next_slot) /\ Link(step, s, t)
    BY <1>2, <1>4, LinkDiscard
  <2>3. DeleteRow(changes, row) = Record(changes, t, step)
    BY <1>4 DEF DeleteRow
  <2> QED
    BY <1>1, <2>2, <2>3, RecordHereInv
<1>5. CASE ~(row.kind = "existing" /\ row.at \notin s.deletes)
           /\ ~(row.kind = "new" /\ row.at \in DOMAIN s.inserts)
  <2>1. DeleteRow(changes, row) = changes
    BY <1>5 DEF DeleteRow
  <2> QED
    BY <1>1, <2>1, RecordNothing
<1> QED
  BY <1>3, <1>4, <1>5

\* Taking a deletion back keeps the invariant.
LEMMA UndeleteInv == Inv /\ Undelete => Inv'
<1> SUFFICES ASSUME Inv, Undelete PROVE Inv'
  OBVIOUS
<1>1. PICK r \in Rows : Recorded(UndeleteRow(changes, r))
  BY DEF Undelete
<1> DEFINE s == changes.staged
<1>2. s \in Sound(changes.next_slot)
  BY DEF Inv
<1>3. CASE r \in s.deletes
  <2> DEFINE step == [op |-> "delete", row |-> r, added |-> FALSE]
             t == [s EXCEPT !.deletes = s.deletes \ {r}]
  <2>1. step \in SoundSteps(changes.next_slot) /\ t \in Sound(changes.next_slot) /\ Link(step, s, t)
    <3>1. FALSE = (r \notin s.deletes)
      BY <1>3
    <3>2. t = [s EXCEPT !.deletes = IF FALSE THEN s.deletes \cup {r} ELSE s.deletes \ {r}]
      OBVIOUS
    <3> QED
      BY <1>2, <3>1, <3>2, LinkDelete
  <2>2. UndeleteRow(changes, r) = Record(changes, t, step)
    BY <1>3 DEF UndeleteRow
  <2> QED
    BY <1>1, <2>1, <2>2, RecordHereInv
<1>4. CASE r \notin s.deletes
  BY <1>1, <1>4, RecordNothing DEF UndeleteRow
<1> QED
  BY <1>3, <1>4

\* Reverting a cell keeps the invariant.
LEMMA RevertInv == Inv /\ Revert => Inv'
<1> SUFFICES ASSUME Inv, Revert PROVE Inv'
  OBVIOUS
<1>1. PICK row \in RowRefs, column \in Columns : Recorded(RevertCell(changes, row, column))
  BY DEF Revert
<1> DEFINE s == changes.staged
<1>2. s \in Sound(changes.next_slot)
  BY DEF Inv
<1>3. CASE Value(s, row, column) = NoValue
  BY <1>1, <1>3, RecordNothing DEF RevertCell
<1>4. CASE Value(s, row, column) # NoValue
  BY <1>1, <1>2, <1>4, PutBack, LinkSet, RecordHereInv DEF RevertCell
<1> QED
  BY <1>3, <1>4

\* Clearing keeps the invariant.
LEMMA ClearInv == Inv /\ Clear => Inv'
<1> SUFFICES ASSUME Inv, Clear PROVE Inv'
  OBVIOUS
<1>1. EmptyContents \in Sound(changes.next_slot)
  <2>1. Empty \in Partial(Rows, Cells) /\ Empty \in Partial(Slots, Cells) /\ DOMAIN Empty = {}
    <3>1. Empty \in [{} -> Cells]
      BY DEF Empty
    <3> QED
      BY <3>1, EmptyCells DEF Partial
  <2> QED
    BY <2>1, SoundFrom DEF EmptyContents
<1> HIDE DEF EmptyContents
<1>2. changes' = [staged |-> EmptyContents, next_slot |-> changes.next_slot,
                  undo |-> <<>>, redo |-> <<>>]
  BY DEF Clear, Cleared, NewChanges
<1> QED
  BY <1>1, <1>2, ChainEmpty DEF Clear, Inv

\* What takes a sound step back, from sound contents, is a sound step.
LEMMA InvertedSound ==
  ASSUME NEW n, NEW s \in Sound(n), NEW step \in SoundSteps(n)
  PROVE  Inverted(s, step) \in SoundSteps(n)
<1>1. CASE step.op = "set"
  BY <1>1 DEF Inverted, SoundSteps, Steps
<1>2. CASE step.op = "insert"
  <2>1. step.slot \in Slots /\ step.slot < n
    BY <1>2 DEF SoundSteps, Steps
  <2>2. CellsOf(s, New(step.slot)) \in Cells
    BY <2>1, CellsOfType DEF RowRefs, New
  <2> QED
    BY <1>2, <2>1, <2>2 DEF Inverted, SoundSteps, Steps
<1>3. CASE step.op = "discard"
  BY <1>3 DEF Inverted, SoundSteps, Steps
<1>4. CASE step.op = "delete"
  BY <1>4 DEF Inverted, SoundSteps, Steps
<1> QED
  BY <1>1, <1>2, <1>3, <1>4 DEF SoundSteps, Steps

\* Undo gives back the contents the last step was recorded on, and keeps the invariant.
LEMMA UndoInv == Inv /\ Undo => Inv' /\ changes'.staged = past[Len(past)]
<1> SUFFICES ASSUME Inv, Undo PROVE Inv' /\ changes'.staged = past[Len(past)]
  OBVIOUS
<1> DEFINE n == changes.next_slot
           s == changes.staged
           step == changes.undo[Len(changes.undo)]
           back == Inverted(s, step)
           t == past[Len(past)]
           U == SubSeq(changes.undo, 1, Len(changes.undo) - 1)
           P == SubSeq(past, 1, Len(past) - 1)
<1>0. /\ n \in 0..MaxSlots /\ s \in Sound(n)
      /\ past \in Seq(Sound(n)) /\ future \in Seq(Sound(n))
      /\ changes.undo \in Seq(SoundSteps(n)) /\ changes.redo \in Seq(SoundSteps(n))
      /\ Chain(changes.undo, past, s) /\ Chain(changes.redo, future, s)
      /\ changes.undo # <<>>
  BY DEF Inv, Undo
<1>1. /\ step \in SoundSteps(n) /\ t \in Sound(n) /\ Link(step, t, s)
      /\ U \in Seq(SoundSteps(n)) /\ P \in Seq(Sound(n)) /\ Chain(U, P, t)
  BY <1>0, ChainPop
<1>2. changes' = [staged |-> t, next_slot |-> n, undo |-> U, redo |-> Append(changes.redo, back)]
  <2>1. Undone(s, step) = t
    BY <1>1 DEF Link
  <2> QED
    BY <2>1, <1>0 DEF Undo, UndoStep, Inv
<1>3. past' = P /\ future' = Append(future, s)
  BY DEF Undo
<1> HIDE DEF t, U, P, step
<1>4. back \in SoundSteps(n)
  BY <1>0, <1>1, InvertedSound
<1>5. Link(back, s, t)
  BY <1>1, LinkBack
<1> HIDE DEF back
<1>6. Chain(Append(changes.redo, back), Append(future, s), t)
  BY <1>0, <1>4, <1>5, ChainPush
<1>7. Append(changes.redo, back) \in Seq(SoundSteps(n)) /\ Append(future, s) \in Seq(Sound(n))
  BY <1>0, <1>4
<1>8. Inv'
  BY <1>0, <1>1, <1>2, <1>3, <1>6, <1>7 DEF Inv
<1> QED
  BY <1>2, <1>8 DEF t

\* Redo gives back the contents the last undo left, and keeps the invariant.
LEMMA RedoInv == Inv /\ Redo => Inv' /\ changes'.staged = future[Len(future)]
<1> SUFFICES ASSUME Inv, Redo PROVE Inv' /\ changes'.staged = future[Len(future)]
  OBVIOUS
<1> DEFINE n == changes.next_slot
           s == changes.staged
           step == changes.redo[Len(changes.redo)]
           back == Inverted(s, step)
           t == future[Len(future)]
           R == SubSeq(changes.redo, 1, Len(changes.redo) - 1)
           F == SubSeq(future, 1, Len(future) - 1)
<1>0. /\ n \in 0..MaxSlots /\ s \in Sound(n)
      /\ past \in Seq(Sound(n)) /\ future \in Seq(Sound(n))
      /\ changes.undo \in Seq(SoundSteps(n)) /\ changes.redo \in Seq(SoundSteps(n))
      /\ Chain(changes.undo, past, s) /\ Chain(changes.redo, future, s)
      /\ changes.redo # <<>>
  BY DEF Inv, Redo
<1>1. /\ step \in SoundSteps(n) /\ t \in Sound(n) /\ Link(step, t, s)
      /\ R \in Seq(SoundSteps(n)) /\ F \in Seq(Sound(n)) /\ Chain(R, F, t)
  BY <1>0, ChainPop
<1>2. changes' = [staged |-> t, next_slot |-> n, undo |-> Append(changes.undo, back), redo |-> R]
  <2>1. Undone(s, step) = t
    BY <1>1 DEF Link
  <2> QED
    BY <2>1, <1>0 DEF Redo, RedoStep, Inv
<1>3. future' = F /\ past' = Append(past, s)
  BY DEF Redo
<1> HIDE DEF t, R, F, step
<1>4. back \in SoundSteps(n)
  BY <1>0, <1>1, InvertedSound
<1>5. Link(back, s, t)
  BY <1>1, LinkBack
<1> HIDE DEF back
<1>6. Chain(Append(changes.undo, back), Append(past, s), t)
  BY <1>0, <1>4, <1>5, ChainPush
<1>7. Append(changes.undo, back) \in Seq(SoundSteps(n)) /\ Append(past, s) \in Seq(Sound(n))
  BY <1>0, <1>4
<1>8. Inv'
  BY <1>0, <1>1, <1>2, <1>3, <1>6, <1>7 DEF Inv
<1> QED
  BY <1>2, <1>8 DEF t

\* Every step keeps the invariant.
LEMMA StepInv == Inv /\ [Next]_vars => Inv'
BY SetInv, InsertInv, DeleteInv, UndeleteInv, RevertInv, ClearInv, UndoInv, RedoInv, NothingInv
   DEF Next

(***************************************************************************)
(* The theorems.                                                           *)
(***************************************************************************)
\* The invariant holds throughout.
THEOREM Invariance == Spec => []Inv
<1>1. Init => Inv
  BY InitInv
<1>2. Inv /\ [Next]_vars => Inv'
  BY StepInv
<1> QED
  BY <1>1, <1>2, PTL DEF Spec

\* The type invariant: what is staged, both stacks and what they stand for
\* stay well typed under any sequence of calls (change.rs, PendingChanges).
THEOREM TypeCorrect == Spec => []TypeOK
<1>1. Inv => TypeOK
  <2> SUFFICES ASSUME Inv PROVE TypeOK
    OBVIOUS
  <2>1. Sound(changes.next_slot) \subseteq Contents /\ SoundSteps(changes.next_slot) \subseteq Steps
    BY DEF Sound, SoundSteps
  <2>2. /\ changes.staged \in Contents /\ past \in Seq(Contents) /\ future \in Seq(Contents)
        /\ changes.undo \in Seq(Steps) /\ changes.redo \in Seq(Steps)
    BY <2>1 DEF Inv
  <2> QED
    BY <2>2 DEF Inv, TypeOK
<1> QED
  BY <1>1, Invariance, PTL

\* No edited row is without a staged cell, so what the Commit button counts is
\* what it changes (change.rs, put and counts).
THEOREM NoEmptyEdits == Spec => []NoEmptyEdit
<1>1. Inv => NoEmptyEdit
  BY DEF Inv, Sound, NoEmptyEdit
<1> QED
  BY <1>1, Invariance, PTL

\* The rows staged and the steps on both stacks only name slots handed out
\* already (change.rs, RowRef::New), so a slot is never handed out twice.
THEOREM OnlyHandedOut == Spec => []SlotsHandedOut
<1>1. Inv => SlotsHandedOut
  <2> SUFFICES ASSUME Inv PROVE SlotsHandedOut
    OBVIOUS
  <2>1. DOMAIN changes.staged.inserts \subseteq 0..(changes.next_slot - 1)
    BY DEF Inv, Sound
  <2>2. \A stack \in {changes.undo, changes.redo} : \A i \in 1..Len(stack) :
          stack[i] \in SoundSteps(changes.next_slot)
    BY DEF Inv
  <2> QED
    BY <2>1, <2>2 DEF SlotsHandedOut, SoundSteps
<1> QED
  BY <1>1, Invariance, PTL

\* Whatever is called, no row counts as edited without a staged cell, and no slot
\* comes to mean two rows (change.rs, put and RowRef::New).
THEOREM StagedStaysSound == Spec => []StagedIsSound
  BY NoEmptyEdits, OnlyHandedOut, PTL DEF StagedIsSound

\* Undo gives back exactly what was staged before the step it takes back
\* (change.rs, undo and invert).
THEOREM UndoIsExact == Spec => UndoRestores
<1>1. Inv /\ [Next]_vars => [Undo => changes'.staged = past[Len(past)]]_vars
  BY UndoInv
<1> QED
  BY <1>1, Invariance, PTL DEF Spec, UndoRestores

\* Redo gives back exactly what was staged before the undo it takes back
\* (change.rs, redo and invert).
THEOREM RedoIsExact == Spec => RedoRestores
<1>1. Inv /\ [Next]_vars => [Redo => changes'.staged = future[Len(future)]]_vars
  BY RedoInv
<1> QED
  BY <1>1, Invariance, PTL DEF Spec, RedoRestores

(***************************************************************************)
(* The grid.  A gesture keeps a change set well formed and leaves alone    *)
(* what it does not name; a gesture over several rows is followed row by   *)
(* row (UpTo), each on what the rows before it left.                       *)
(***************************************************************************)
\* Well formed change sets that have handed out the slots below n.
Sets(n) == [staged : Sound(n), next_slot : {n}, undo : Seq(SoundSteps(n)), redo : Seq(SoundSteps(n))]

\* Counting up to N.
LEMMA UpTo ==
  ASSUME NEW N \in Nat, NEW G, 0 \in G, \A i \in 1..N : i - 1 \in G => i \in G
  PROVE  \A i \in 0..N : i \in G
<1> DEFINE Bad == {i \in 0..N : i \notin G}
<1>1. SUFFICES ASSUME Bad # {} PROVE FALSE
  OBVIOUS
<1>2. PICK n \in Bad : \A m \in Bad : <<m, n>> \notin OpToRel(<, Nat)
  <2>1. Bad \in SUBSET Nat
    OBVIOUS
  <2> HIDE DEF Bad
  <2> QED
    BY <1>1, <2>1, WFMin, NatLessThanWellFounded
<1>3. \A m \in Bad : ~(m < n)
  <2>1. Bad \in SUBSET Nat /\ n \in Nat
    OBVIOUS
  <2> HIDE DEF Bad
  <2> QED
    BY <1>2, <2>1, Zenon DEF OpToRel
<1>4. n \in 1..N /\ n - 1 \in 0..N /\ n - 1 < n
  <2>1. n \in 0..N /\ n \notin G
    OBVIOUS
  <2>2. n # 0
    BY <2>1
  <2> HIDE DEF Bad
  <2> QED
    BY <2>1, <2>2
<1>5. n - 1 \in G
  BY <1>3, <1>4
<1> QED
  BY <1>2, <1>4, <1>5

\* A loop of N rounds over the members of a set.
Rounds(f, N, S, c, F) ==
  f \in [0..N -> S] /\ f[0] = c /\ \A i \in 1..N : f[i] = F[i][f[i - 1]]

LEMMA Iterates ==
  ASSUME NEW N \in Nat, NEW S, NEW c \in S, NEW F \in [1..N -> [S -> S]]
  PROVE  \E f : Rounds(f, N, S, c, F)
<1> DEFINE To(n, f) == f[0] = c /\ \A i \in 1..n : f[i] = F[i][f[i - 1]]
           G == {n \in 0..N : \E f \in [0..n -> S] : To(n, f)}
<1>1. 0 \in G
  <2> DEFINE f == [i \in 0..0 |-> c]
  <2>1. f \in [0..0 -> S] /\ f[0] = c
    OBVIOUS
  <2>2. To(0, f)
    BY <2>1
  <2>3. 0 \in 0..N
    OBVIOUS
  <2> HIDE DEF f, To
  <2> QED
    BY <2>1, <2>2, <2>3
<1>2. ASSUME NEW n \in 1..N, n - 1 \in G PROVE n \in G
  <2>1. PICK f \in [0..(n - 1) -> S] : To(n - 1, f)
    BY <1>2
  <2> DEFINE g == [i \in 0..n |-> IF i = n THEN F[n][f[n - 1]] ELSE f[i]]
  <2>2. n - 1 \in 0..(n - 1) /\ n \in Nat
    OBVIOUS
  <2>3. F[n][f[n - 1]] \in S
    BY <2>2
  <2>4. \A i \in 0..n : i # n => i \in 0..(n - 1)
    OBVIOUS
  <2>5. g \in [0..n -> S]
    BY <2>3, <2>4
  <2>6. g[0] = c
    BY <2>1, <2>2
  <2>7. ASSUME NEW i \in 1..n PROVE g[i] = F[i][g[i - 1]]
    <3>1. i \in 0..n /\ i - 1 \in 0..n /\ i - 1 # n
      OBVIOUS
    <3>2. g[i - 1] = f[i - 1]
      BY <3>1
    <3>3. CASE i = n
      BY <3>1, <3>2, <3>3
    <3>4. CASE i # n
      <4>1. i \in 1..(n - 1)
        BY <3>4
      <4>2. g[i] = f[i]
        BY <3>1, <3>4
      <4> QED
        BY <2>1, <3>2, <4>1, <4>2
    <3> QED
      BY <3>3, <3>4
  <2> HIDE DEF g
  <2>8. To(n, g)
    BY <2>6, <2>7
  <2> QED
    BY <2>5, <2>8
<1> HIDE DEF G
<1>3. \A n \in 0..N : n \in G
  BY <1>1, <1>2, UpTo
<1>4. N \in G
  BY <1>3
<1> QED
  BY <1>4 DEF G, Rounds

(***************************************************************************)
(* One call.                                                               *)
(***************************************************************************)
\* A recorded step.
LEMMA RecordSound ==
  ASSUME NEW n \in Nat, NEW c \in Sets(n), NEW t \in Sound(n), NEW step \in SoundSteps(n)
  PROVE  Record(c, t, step) \in Sets(n) /\ Record(c, t, step).staged = t
BY DEF Record, Sets

\* The parts of a change set.
LEMMA SetParts ==
  ASSUME NEW n, NEW c \in Sets(n)
  PROVE  /\ c = [staged |-> c.staged, next_slot |-> c.next_slot, undo |-> c.undo, redo |-> c.redo]
         /\ c.staged \in Sound(n) /\ c.next_slot = n
         /\ c.undo \in Seq(SoundSteps(n)) /\ c.redo \in Seq(SoundSteps(n))
BY DEF Sets

\* Two contents with the same parts are the same.
LEMMA StagedParts ==
  ASSUME NEW n, NEW s \in Sound(n), NEW e, NEW i, NEW d
  PROVE  /\ [s EXCEPT !.edits = e] = [edits |-> e, inserts |-> s.inserts, deletes |-> s.deletes]
         /\ [s EXCEPT !.inserts = i] = [edits |-> s.edits, inserts |-> i, deletes |-> s.deletes]
         /\ [s EXCEPT !.deletes = d] = [edits |-> s.edits, inserts |-> s.inserts, deletes |-> d]
BY SoundParts

\* Setting a cell.
LEMMA SetCellSound ==
  ASSUME NEW n \in Nat, NEW c \in Sets(n), NEW row \in RowRefs, NEW column \in Columns,
         NEW value \in Values
  PROVE  SetCell(c, row, column, value) \in Sets(n)
BY SetParts, PutBack, LinkSet, RecordSound DEF SetCell

\* Marking a row that exists for deletion.
LEMMA DeleteExisting ==
  ASSUME NEW n \in Nat, NEW c \in Sets(n), NEW r \in Rows
  PROVE  /\ DeleteRow(c, Existing(r)) \in Sets(n)
         /\ DeleteRow(c, Existing(r)).staged.edits = c.staged.edits
         /\ DeleteRow(c, Existing(r)).staged.inserts = c.staged.inserts
         /\ DeleteRow(c, Existing(r)).staged.deletes = c.staged.deletes \cup {r}
<1> DEFINE s == c.staged
           row == Existing(r)
           step == [op |-> "delete", row |-> r, added |-> TRUE]
           t == [s EXCEPT !.deletes = s.deletes \cup {r}]
<1>1. s \in Sound(n)
  BY SetParts
<1>2. row.kind = "existing" /\ row.at = r
  BY DEF Existing
<1>3. CASE r \in s.deletes
  <2>1. DeleteRow(c, row) = c
    BY <1>2, <1>3 DEF DeleteRow
  <2>2. s.deletes \cup {r} = s.deletes
    BY <1>3
  <2> QED
    BY <2>1, <2>2
<1>4. CASE r \notin s.deletes
  <2>1. step \in SoundSteps(n) /\ t \in Sound(n)
    <3>1. TRUE = (r \notin s.deletes)
      BY <1>4
    <3>2. t = [s EXCEPT !.deletes = IF TRUE THEN s.deletes \cup {r} ELSE s.deletes \ {r}]
      OBVIOUS
    <3> QED
      BY <1>1, <3>1, <3>2, LinkDelete
  <2>2. DeleteRow(c, row) = Record(c, t, step)
    BY <1>2, <1>4 DEF DeleteRow
  <2>3. t = [edits |-> s.edits, inserts |-> s.inserts, deletes |-> s.deletes \cup {r}]
    BY <1>1, StagedParts
  <2> HIDE DEF t, step
  <2>4. Record(c, t, step) \in Sets(n) /\ Record(c, t, step).staged = t
    BY <2>1, RecordSound
  <2> QED
    BY <2>2, <2>3, <2>4
<1> QED
  BY <1>3, <1>4

\* Taking the mark off.
LEMMA UndeleteExisting ==
  ASSUME NEW n \in Nat, NEW c \in Sets(n), NEW r \in Rows
  PROVE  /\ UndeleteRow(c, r) \in Sets(n)
         /\ UndeleteRow(c, r).staged.edits = c.staged.edits
         /\ UndeleteRow(c, r).staged.inserts = c.staged.inserts
         /\ UndeleteRow(c, r).staged.deletes = c.staged.deletes \ {r}
<1> DEFINE s == c.staged
           step == [op |-> "delete", row |-> r, added |-> FALSE]
           t == [s EXCEPT !.deletes = s.deletes \ {r}]
<1>1. s \in Sound(n)
  BY SetParts
<1>3. CASE r \notin s.deletes
  <2>1. UndeleteRow(c, r) = c
    BY <1>3 DEF UndeleteRow
  <2>2. s.deletes \ {r} = s.deletes
    BY <1>3
  <2> QED
    BY <2>1, <2>2
<1>4. CASE r \in s.deletes
  <2>1. step \in SoundSteps(n) /\ t \in Sound(n)
    <3>1. FALSE = (r \notin s.deletes)
      BY <1>4
    <3>2. t = [s EXCEPT !.deletes = IF FALSE THEN s.deletes \cup {r} ELSE s.deletes \ {r}]
      OBVIOUS
    <3> QED
      BY <1>1, <3>1, <3>2, LinkDelete
  <2>2. UndeleteRow(c, r) = Record(c, t, step)
    BY <1>4 DEF UndeleteRow
  <2>3. t = [edits |-> s.edits, inserts |-> s.inserts, deletes |-> s.deletes \ {r}]
    BY <1>1, StagedParts
  <2> HIDE DEF t, step
  <2>4. Record(c, t, step) \in Sets(n) /\ Record(c, t, step).staged = t
    BY <2>1, RecordSound
  <2> QED
    BY <2>2, <2>3, <2>4
<1> QED
  BY <1>3, <1>4

\* Dropping a new row.
LEMMA DeleteNew ==
  ASSUME NEW n \in Nat, NEW c \in Sets(n), NEW k
  PROVE  /\ DeleteRow(c, New(k)) \in Sets(n)
         /\ DeleteRow(c, New(k)).staged.edits = c.staged.edits
         /\ DeleteRow(c, New(k)).staged.inserts = Without(c.staged.inserts, k)
         /\ DeleteRow(c, New(k)).staged.deletes = c.staged.deletes
<1> DEFINE s == c.staged
           row == New(k)
           step == [op |-> "discard", slot |-> k, values |-> s.inserts[k]]
           t == [s EXCEPT !.inserts = Without(s.inserts, k)]
<1>1. s \in Sound(n) /\ IsFn(s.inserts)
  BY SetParts, SoundParts
<1>2. row.kind = "new" /\ row.at = k
  BY DEF New
<1>3. CASE k \notin DOMAIN s.inserts
  <2>1. DeleteRow(c, row) = c
    BY <1>2, <1>3 DEF DeleteRow
  <2>2. Without(s.inserts, k) = s.inserts
    BY <1>1, <1>3, WithoutAbsent
  <2> QED
    BY <2>1, <2>2
<1>4. CASE k \in DOMAIN s.inserts
  <2>1. step \in SoundSteps(n) /\ t \in Sound(n)
    BY <1>1, <1>4, LinkDiscard
  <2>2. DeleteRow(c, row) = Record(c, t, step)
    BY <1>2, <1>4 DEF DeleteRow
  <2>3. t = [edits |-> s.edits, inserts |-> Without(s.inserts, k), deletes |-> s.deletes]
    <3> DEFINE I == Without(s.inserts, k)
    <3> HIDE DEF I
    <3>1. [s EXCEPT !.inserts = I] = [edits |-> s.edits, inserts |-> I, deletes |-> s.deletes]
      BY <1>1, StagedParts
    <3> QED
      BY <3>1 DEF I
  <2> HIDE DEF t, step
  <2>4. Record(c, t, step) \in Sets(n) /\ Record(c, t, step).staged = t
    BY <2>1, RecordSound
  <2> QED
    BY <2>2, <2>3, <2>4
<1> QED
  BY <1>3, <1>4

\* An existing row's cell is written: the row's other cells, and the other rows', stay.
LEMMA PutCells ==
  ASSUME NEW n, NEW s \in Sound(n), NEW r \in Rows, NEW column
  PROVE  /\ Put(s, Existing(r), column, NoValue).inserts = s.inserts
         /\ Put(s, Existing(r), column, NoValue).deletes = s.deletes
         /\ CellsOf(Put(s, Existing(r), column, NoValue), Existing(r))
              = Without(CellsOf(s, Existing(r)), column)
         /\ \A q \in Rows \ {r} :
              CellsOf(Put(s, Existing(r), column, NoValue), Existing(q)) = CellsOf(s, Existing(q))
<1> DEFINE row == Existing(r)
           new == Without(CellsOf(s, row), column)
           t == Put(s, row, column, NoValue)
           E == IF new = Empty THEN Without(s.edits, r) ELSE With(s.edits, r, new)
<1>1. \A q : Existing(q).kind = "existing" /\ Existing(q).at = q
  BY DEF Existing
<1>2. WithCell(CellsOf(s, row), column, NoValue) = new
  BY DEF WithCell
<1>3. t = [edits |-> E, inserts |-> s.inserts, deletes |-> s.deletes]
  <2>1. CASE new = Empty
    <3>1. t = [s EXCEPT !.edits = Without(s.edits, r)]
      BY <1>1, <1>2, <2>1 DEF Put
    <3>2. E = Without(s.edits, r)
      BY <2>1
    <3> HIDE DEF t, E
    <3> QED
      BY <3>1, <3>2, StagedParts
  <2>2. CASE new # Empty
    <3>1. t = [s EXCEPT !.edits = With(s.edits, r, new)]
      BY <1>1, <1>2, <2>2 DEF Put
    <3>2. E = With(s.edits, r, new)
      BY <2>2
    <3> HIDE DEF t, E, new
    <3> QED
      BY <3>1, <3>2, StagedParts
  <2> QED
    BY <2>1, <2>2
<1> HIDE DEF t
<1>4. CellsOf(t, row) = IF r \in DOMAIN E THEN E[r] ELSE Empty
  BY <1>1, <1>3 DEF CellsOf
<1>5. CellsOf(t, row) = new
  <2> HIDE DEF new
  <2> QED
    BY <1>4 DEF With, Without
<1>6. ASSUME NEW q \in Rows \ {r} PROVE CellsOf(t, Existing(q)) = CellsOf(s, Existing(q))
  <2>1. CellsOf(t, Existing(q)) = IF q \in DOMAIN E THEN E[q] ELSE Empty
    BY <1>1, <1>3 DEF CellsOf
  <2>2. CellsOf(s, Existing(q)) = IF q \in DOMAIN s.edits THEN s.edits[q] ELSE Empty
    BY <1>1 DEF CellsOf
  <2> HIDE DEF new
  <2> QED
    BY <2>1, <2>2 DEF With, Without
<1>7. t.inserts = s.inserts /\ t.deletes = s.deletes
  BY <1>3
<1> QED
  BY <1>5, <1>6, <1>7 DEF t

\* Taking an existing row's cell back.
LEMMA RevertExisting ==
  ASSUME NEW n \in Nat, NEW c \in Sets(n), NEW r \in Rows, NEW column \in Columns
  PROVE  /\ RevertCell(c, Existing(r), column) \in Sets(n)
         /\ RevertCell(c, Existing(r), column).staged.inserts = c.staged.inserts
         /\ RevertCell(c, Existing(r), column).staged.deletes = c.staged.deletes
         /\ CellsOf(RevertCell(c, Existing(r), column).staged, Existing(r))
              = Without(CellsOf(c.staged, Existing(r)), column)
         /\ \A q \in Rows \ {r} :
              CellsOf(RevertCell(c, Existing(r), column).staged, Existing(q))
                = CellsOf(c.staged, Existing(q))
<1> DEFINE s == c.staged
           row == Existing(r)
           d == RevertCell(c, row, column)
           cells == CellsOf(s, row)
           t == Put(s, row, column, NoValue)
           step == [op |-> "set", row |-> row, column |-> column,
                    before |-> Value(s, row, column), after |-> NoValue]
<1>1. s \in Sound(n) /\ row \in RowRefs
  BY SetParts DEF RowRefs, Existing
<1>2. cells \in Cells
  BY <1>1, CellsOfType
<1>3. IsFn(cells) /\ \A x \in DOMAIN cells : cells[x] \in Values
  BY <1>2, PartialType DEF Cells, Partial
<1>4. CASE Value(s, row, column) = NoValue
  <2>1. d = c
    BY <1>4 DEF RevertCell
  <2>2. column \notin DOMAIN cells
    <3> HIDE DEF cells
    <3>1. At(cells, column) = NoValue
      BY <1>4 DEF Value, cells
    <3> QED
      BY <1>3, <3>1, ChangesAssumption DEF At
  <2>3. Without(cells, column) = cells
    BY <1>3, <2>2, WithoutAbsent
  <2> HIDE DEF d
  <2> QED
    BY <2>1, <2>3 DEF d
<1>5. CASE Value(s, row, column) # NoValue
  <2>1. d = Record(c, t, step)
    BY <1>5 DEF RevertCell
  <2>2. step \in SoundSteps(n)
    BY <1>1, LinkSet
  <2>3. t \in Sound(n)
    BY <1>1, PutBack
  <2> HIDE DEF step
  <2>4. d \in Sets(n) /\ d.staged = t
    <3> HIDE DEF d, t
    <3> QED
      BY <2>1, <2>2, <2>3, RecordSound
  <2>5. t.inserts = s.inserts
    BY <1>1, PutCells
  <2>6. t.deletes = s.deletes
    BY <1>1, PutCells
  <2>7. CellsOf(t, row) = Without(cells, column)
    BY <1>1, PutCells
  <2>8. \A q \in Rows \ {r} : CellsOf(t, Existing(q)) = CellsOf(s, Existing(q))
    BY <1>1, PutCells
  <2> HIDE DEF d, t
  <2> QED
    BY <2>4, <2>5, <2>6, <2>7, <2>8 DEF d
<1> QED
  BY <1>4, <1>5

\* Adding a row.
LEMMA InsertSound ==
  ASSUME NEW n \in Slots, NEW c \in Sets(n)
  PROVE  /\ InsertRow(c) \in Sets(n + 1)
         /\ DOMAIN InsertRow(c).staged.inserts = DOMAIN c.staged.inserts \cup {n}
<1> DEFINE s == c.staged
           step == [op |-> "insert", slot |-> n]
           t == [s EXCEPT !.inserts = With(s.inserts, n, Empty)]
<1>1. /\ s \in Sound(n) /\ c.next_slot = n
      /\ c.undo \in Seq(SoundSteps(n))
  BY SetParts
<1>2. step \in SoundSteps(n + 1) /\ t \in Sound(n + 1)
  BY <1>1, LinkInsert
<1>3. DOMAIN t.inserts = DOMAIN s.inserts \cup {n}
  <2> DEFINE I == With(s.inserts, n, Empty)
  <2>1. DOMAIN I = DOMAIN s.inserts \cup {n}
    BY DEF With
  <2> HIDE DEF I
  <2>2. [s EXCEPT !.inserts = I].inserts = I
    BY <1>1, SoundParts
  <2> QED
    BY <2>1, <2>2 DEF I
<1> HIDE DEF t, step
<1>4. InsertRow(c) = [staged |-> t, next_slot |-> n + 1, undo |-> Append(c.undo, step), redo |-> <<>>]
  <2> DEFINE w == Append(c.undo, step)
             d == [staged |-> t, next_slot |-> n, undo |-> w, redo |-> <<>>]
  <2>1. Record(c, t, step) = d
    BY <1>1 DEF Record
  <2>2. InsertRow(c) = [Record(c, t, step) EXCEPT !.next_slot = @ + 1]
    BY <1>1 DEF InsertRow, t, step
  <2>3. InsertRow(c) = [d EXCEPT !.next_slot = @ + 1]
    BY <2>1, <2>2
  <2> HIDE DEF w
  <2> QED
    BY <2>3 DEF w
<1>5. n \in Nat
  BY ChangesAssumption DEF Slots
<1>6. SoundSteps(n) \subseteq SoundSteps(n + 1)
  BY <1>5, SoundGrows
<1>7. Append(c.undo, step) \in Seq(SoundSteps(n + 1))
  <2>1. c.undo \in Seq(SoundSteps(n + 1))
    BY <1>1, <1>6
  <2> QED
    BY <1>2, <2>1
<1>8. <<>> \in Seq(SoundSteps(n + 1))
  OBVIOUS
<1> DEFINE w == Append(c.undo, step)
<1> HIDE DEF w
<1>9. [staged |-> t, next_slot |-> n + 1, undo |-> w, redo |-> <<>>] \in Sets(n + 1)
  BY <1>2, <1>7, <1>8 DEF Sets, w
<1> QED
  BY <1>3, <1>4, <1>9 DEF w

\* A step taken back leaves sound contents.
LEMMA UndoneSound ==
  ASSUME NEW n \in Nat, NEW s \in Sound(n), NEW step \in SoundSteps(n)
  PROVE  Undone(s, step) \in Sound(n)
<1>p. /\ s = [edits |-> s.edits, inserts |-> s.inserts, deletes |-> s.deletes]
      /\ s.edits \in Partial(Rows, Cells) /\ s.inserts \in Partial(Slots, Cells)
      /\ s.deletes \in SUBSET Rows
      /\ DOMAIN s.inserts \subseteq 0..(n - 1)
      /\ \A x \in DOMAIN s.edits : s.edits[x] # Empty
  BY SoundParts
<1>1. CASE step.op = "set"
  <2>1. /\ step.row \in RowRefs /\ step.column \in Columns
        /\ step.before \in Values \cup {NoValue}
    BY <1>1 DEF SoundSteps, Steps
  <2> QED
    BY <1>1, <2>1, PutBack DEF Undone
<1>2. CASE step.op = "insert"
  <2> DEFINE I == Without(s.inserts, step.slot)
  <2>1. Undone(s, step) = [edits |-> s.edits, inserts |-> I, deletes |-> s.deletes]
    BY <1>2, StagedParts DEF Undone
  <2>2. I \in Partial(Slots, Cells)
    BY <1>p, PartialWithout
  <2>3. DOMAIN I \subseteq 0..(n - 1)
    BY <1>p DEF Without
  <2> HIDE DEF I
  <2> QED
    BY <1>p, <2>1, <2>2, <2>3, SoundFrom
<1>3. CASE step.op = "discard"
  <2> DEFINE I == With(s.inserts, step.slot, step.values)
  <2>1. step.slot \in Slots /\ step.slot < n /\ step.values \in Cells
    BY <1>3 DEF SoundSteps, Steps
  <2>2. Undone(s, step) = [edits |-> s.edits, inserts |-> I, deletes |-> s.deletes]
    BY <1>3, StagedParts DEF Undone
  <2>3. I \in Partial(Slots, Cells)
    BY <1>p, <2>1, PartialWith
  <2>4. step.slot \in 0..(n - 1)
    BY <2>1, ChangesAssumption DEF Slots
  <2>5. DOMAIN I \subseteq 0..(n - 1)
    BY <1>p, <2>4 DEF With
  <2> HIDE DEF I
  <2> QED
    BY <1>p, <2>2, <2>3, <2>5, SoundFrom
<1>4. CASE step.op = "delete"
  <2> DEFINE D == IF step.added THEN s.deletes \ {step.row} ELSE s.deletes \cup {step.row}
  <2>1. step.row \in Rows
    BY <1>4 DEF SoundSteps, Steps
  <2>2. D \in SUBSET Rows
    BY <1>p, <2>1
  <2>3. Undone(s, step) = [s EXCEPT !.deletes = D]
    BY <1>4 DEF Undone
  <2> HIDE DEF D
  <2>4. Undone(s, step) = [edits |-> s.edits, inserts |-> s.inserts, deletes |-> D]
    BY <2>3, StagedParts
  <2> QED
    BY <1>p, <2>2, <2>4, SoundFrom
<1> QED
  BY <1>1, <1>2, <1>3, <1>4 DEF SoundSteps, Steps

\* The last step of a stack, and the stack without it.
LEMMA Popped ==
  ASSUME NEW T, NEW stack \in Seq(T), stack # <<>>
  PROVE  stack[Len(stack)] \in T /\ SubSeq(stack, 1, Len(stack) - 1) \in Seq(T)
<1>1. Len(stack) \in Nat \ {0}
  OBVIOUS
<1>2. Len(stack) \in 1..Len(stack)
  BY <1>1
<1> QED
  BY <1>1, <1>2

\* Undo and redo, whatever is on the stacks.
LEMMA StepsSound ==
  ASSUME NEW n \in Nat, NEW c \in Sets(n)
  PROVE  UndoStep(c) \in Sets(n) /\ RedoStep(c) \in Sets(n)
<1>1. /\ c = [staged |-> c.staged, next_slot |-> c.next_slot, undo |-> c.undo, redo |-> c.redo]
      /\ c.staged \in Sound(n) /\ c.next_slot = n
      /\ c.undo \in Seq(SoundSteps(n)) /\ c.redo \in Seq(SoundSteps(n))
  BY SetParts
<1>2. ASSUME c.undo # <<>> PROVE UndoStep(c) \in Sets(n)
  <2> DEFINE step == c.undo[Len(c.undo)]
             t == Undone(c.staged, step)
             U == SubSeq(c.undo, 1, Len(c.undo) - 1)
             back == Inverted(c.staged, step)
             R == Append(c.redo, back)
  <2>1. UndoStep(c) = [staged |-> t, next_slot |-> n, undo |-> U, redo |-> R]
    BY <1>1, <1>2 DEF UndoStep
  <2>2. step \in SoundSteps(n) /\ U \in Seq(SoundSteps(n))
    BY <1>1, <1>2, Popped
  <2> HIDE DEF step, U
  <2>3. t \in Sound(n) /\ back \in SoundSteps(n)
    BY <1>1, <2>2, UndoneSound, InvertedSound
  <2> HIDE DEF back
  <2>4. R \in Seq(SoundSteps(n))
    BY <1>1, <2>3
  <2> HIDE DEF t, R
  <2> QED
    BY <2>1, <2>2, <2>3, <2>4 DEF Sets
<1>3. ASSUME c.redo # <<>> PROVE RedoStep(c) \in Sets(n)
  <2> DEFINE step == c.redo[Len(c.redo)]
             t == Undone(c.staged, step)
             R == SubSeq(c.redo, 1, Len(c.redo) - 1)
             back == Inverted(c.staged, step)
             U == Append(c.undo, back)
  <2>1. RedoStep(c) = [staged |-> t, next_slot |-> n, undo |-> U, redo |-> R]
    BY <1>1, <1>3 DEF RedoStep
  <2>2. step \in SoundSteps(n) /\ R \in Seq(SoundSteps(n))
    BY <1>1, <1>3, Popped
  <2> HIDE DEF step, R
  <2>3. t \in Sound(n) /\ back \in SoundSteps(n)
    BY <1>1, <2>2, UndoneSound, InvertedSound
  <2> HIDE DEF back
  <2>4. U \in Seq(SoundSteps(n))
    BY <1>1, <2>3
  <2> HIDE DEF t, U
  <2> QED
    BY <2>1, <2>2, <2>3, <2>4 DEF Sets
<1>4. c.undo = <<>> => UndoStep(c) \in Sets(n)
  BY DEF UndoStep
<1>5. c.redo = <<>> => RedoStep(c) \in Sets(n)
  BY DEF RedoStep
<1> QED
  BY <1>2, <1>3, <1>4, <1>5

(***************************************************************************)
(* Display rows.                                                           *)
(***************************************************************************)
\* How many of the new rows come no later than a slot.
Place(k, D) == Cardinality({j \in D : j <= k})

\* New rows are numbered from one, in slot order.
LEMMA PlaceGrows ==
  ASSUME NEW D \in SUBSET Nat, IsFiniteSet(D), NEW i \in D, NEW j \in D, i < j
  PROVE  Place(i, D) < Place(j, D)
<1> DEFINE below == {k \in D : k <= i}
           upto == {k \in D : k <= j}
<1>1. IsFiniteSet(upto)
  BY FS_Subset
<1>2. below \subseteq upto /\ j \in upto /\ j \notin below
  <2>1. i \in Nat /\ j \in Nat /\ \A k \in D : k \in Nat
    OBVIOUS
  <2>2. ASSUME NEW k \in D, k <= i PROVE k <= j
    BY <2>1, <2>2
  <2>3. j <= j /\ ~(j <= i)
    BY <2>1
  <2> QED
    BY <2>2, <2>3
<1>3. /\ IsFiniteSet(below) /\ Cardinality(below) <= Cardinality(upto)
      /\ (Cardinality(upto) = Cardinality(below) => upto = below)
  BY <1>1, <1>2, FS_Subset
<1>4. Cardinality(below) \in Nat /\ Cardinality(upto) \in Nat
  BY <1>1, <1>3, FS_CardinalityType
<1>5. Cardinality(below) # Cardinality(upto)
  BY <1>2, <1>3
<1>6. Place(i, D) = Cardinality(below) /\ Place(j, D) = Cardinality(upto)
  BY DEF Place
<1> HIDE DEF below, upto
<1> QED
  BY <1>3, <1>4, <1>5, <1>6

\* Every number up to how many there are is one new row's.
LEMMA EveryPlace ==
  ASSUME NEW D \in SUBSET Nat, IsFiniteSet(D)
  PROVE  \A m \in 1..Cardinality(D) : \E k \in D : Place(k, D) = m
<1>1. Cardinality(D) \in Nat
  BY FS_CardinalityType
<1>2. ASSUME NEW i \in D PROVE Place(i, D) \in 1..Cardinality(D)
  <2> DEFINE below == {k \in D : k <= i}
  <2>1. IsFiniteSet(below) /\ Cardinality(below) <= Cardinality(D)
    BY <1>1, FS_Subset
  <2>2. Cardinality(below) \in Nat
    BY <2>1, FS_CardinalityType
  <2>3. i \in below
    OBVIOUS
  <2>4. Cardinality(below) # 0
    BY <2>1, <2>3, FS_EmptySet
  <2>5. Place(i, D) = Cardinality(below)
    BY DEF Place
  <2> HIDE DEF below
  <2> QED
    BY <1>1, <2>1, <2>2, <2>4, <2>5
<1>3. ASSUME NEW i \in D, NEW j \in D, Place(i, D) = Place(j, D) PROVE i = j
  <2>1. i \in Nat /\ j \in Nat /\ Place(i, D) \in Nat
    BY <1>1, <1>2
  <2>2. ~(i < j) /\ ~(j < i)
    BY <1>3, <2>1, PlaceGrows
  <2> QED
    BY <2>1, <2>2
<1> DEFINE f == [i \in D |-> Place(i, D)]
<1>4. f \in Injection(D, 1..Cardinality(D))
  BY <1>2, <1>3 DEF Injection, IsInjective
<1>5. IsFiniteSet(1..Cardinality(D)) /\ Cardinality(1..Cardinality(D)) = Cardinality(D)
  BY <1>1, FS_Interval
<1>6. f \in Surjection(D, 1..Cardinality(D))
  BY <1>4, <1>5, FS_Injection
<1> QED
  BY <1>6 DEF Surjection

\* How many rows there are.
LEMMA Counts ==
  ASSUME NEW n \in 0..MaxSlots, NEW s \in Sound(n)
  PROVE  /\ Cardinality(Rows) \in Nat /\ MaxSlots \in Nat
         /\ IsFiniteSet(DOMAIN s.inserts) /\ DOMAIN s.inserts \in SUBSET Nat
         /\ Cardinality(DOMAIN s.inserts) \in 0..n
         /\ \A row \in Nat : row \in Rows <=> row < Cardinality(Rows)
<1>1. Cardinality(Rows) \in Nat /\ Rows = 0..(Cardinality(Rows) - 1)
  BY GridAssumption, FS_CardinalityType
<1>2. MaxSlots \in Nat /\ n \in Nat
  BY ChangesAssumption
<1>3. DOMAIN s.inserts \subseteq 0..(n - 1)
  BY SoundParts
<1>4. IsFiniteSet(0..(n - 1)) /\ Cardinality(0..(n - 1)) = n
  <2>1. 0 \in Int /\ n - 1 \in Int
    BY <1>2
  <2>2. IsFiniteSet(0..(n - 1))
        /\ Cardinality(0..(n - 1)) = IF 0 > n - 1 THEN 0 ELSE (n - 1) - 0 + 1
    BY <2>1, FS_Interval
  <2> QED
    BY <1>2, <2>2
<1>5. IsFiniteSet(DOMAIN s.inserts) /\ Cardinality(DOMAIN s.inserts) <= n
  BY <1>3, <1>4, FS_Subset
<1>6. Cardinality(DOMAIN s.inserts) \in Nat
  BY <1>5, FS_CardinalityType
<1>7. DOMAIN s.inserts \in SUBSET Nat
  BY <1>2, <1>3
<1>8. Cardinality(DOMAIN s.inserts) \in 0..n
  BY <1>2, <1>5, <1>6
<1>9. ASSUME NEW row \in Nat PROVE row \in Rows <=> row < Cardinality(Rows)
  BY <1>1
<1> QED
  BY <1>1, <1>2, <1>5, <1>7, <1>8, <1>9

\* What a display row is.
LEMMA RowRefIs ==
  ASSUME NEW n \in 0..MaxSlots, NEW s \in Sound(n), NEW row \in Nat
  PROVE  /\ row \in Rows => RowRef(s, row) = Existing(row)
         /\ row \notin Rows /\ row < RowCount(s) =>
              /\ NthNew(s, row - Cardinality(Rows) + 1) \in DOMAIN s.inserts
              /\ Place(NthNew(s, row - Cardinality(Rows) + 1), DOMAIN s.inserts)
                   = row - Cardinality(Rows) + 1
              /\ RowRef(s, row) = New(NthNew(s, row - Cardinality(Rows) + 1))
         /\ row \notin Rows /\ ~(row < RowCount(s)) => RowRef(s, row) = NoRow
<1> DEFINE R == Cardinality(Rows)
           D == DOMAIN s.inserts
           nth == row - R + 1
<1>1. /\ R \in Nat /\ IsFiniteSet(D) /\ D \in SUBSET Nat /\ Cardinality(D) \in Nat
      /\ (row \in Rows <=> row < R)
  BY Counts, ChangesAssumption
<1>2. RowCount(s) = R + Cardinality(D)
  BY DEF RowCount
<1>3. row \in Rows => RowRef(s, row) = Existing(row)
  BY DEF RowRef
<1>4. row \notin Rows => nth \in Nat /\ 1 <= nth /\ (nth <= Cardinality(D) <=> row < RowCount(s))
  BY <1>1, <1>2
<1>5. row \notin Rows /\ nth <= Cardinality(D) => RowRef(s, row) = New(NthNew(s, nth))
  BY DEF RowRef
<1>6. row \notin Rows /\ ~(nth <= Cardinality(D)) => RowRef(s, row) = NoRow
  BY DEF RowRef
<1>7. ASSUME row \notin Rows, nth <= Cardinality(D)
      PROVE  NthNew(s, nth) \in D /\ Place(NthNew(s, nth), D) = nth
  <2>1. nth \in 1..Cardinality(D)
    BY <1>1, <1>4, <1>7
  <2> HIDE DEF nth
  <2>2. \E k \in D : Place(k, D) = nth
    <3> HIDE DEF D
    <3> QED
      BY <1>1, <2>1, EveryPlace
  <2>3. NthNew(s, nth) = CHOOSE k \in D : Place(k, D) = nth
    BY DEF NthNew, Place
  <2> HIDE DEF D
  <2> QED
    BY <2>2, <2>3
<1> HIDE DEF nth, D
<1> QED
  BY <1>3, <1>4, <1>5, <1>6, <1>7 DEF nth, D

\* A display row is a row of the change set, or no row.
LEMMA RowRefType ==
  ASSUME NEW n \in 0..MaxSlots, NEW s \in Sound(n), NEW row \in Nat
  PROVE  \/ row \in Rows /\ RowRef(s, row) = Existing(row)
         \/ row \notin Rows /\ \E k \in DOMAIN s.inserts : RowRef(s, row) = New(k)
         \/ row \notin Rows /\ RowRef(s, row) = NoRow
<1>1. CASE row \in Rows
  BY <1>1, RowRefIs
<1>2. CASE row \notin Rows /\ row < RowCount(s)
  <2> DEFINE k == NthNew(s, row - Cardinality(Rows) + 1)
  <2>1. k \in DOMAIN s.inserts /\ RowRef(s, row) = New(k)
    BY <1>2, RowRefIs
  <2> HIDE DEF k
  <2> QED
    BY <1>2, <2>1
<1>3. CASE row \notin Rows /\ ~(row < RowCount(s))
  BY <1>3, RowRefIs
<1> QED
  BY <1>1, <1>2, <1>3

\* Every row of the screen names a row there is, and no two the same one.
LEMMA ScreenNames ==
  ASSUME NEW n \in 0..MaxSlots, pending.staged \in Sound(n)
  PROVE  RowsAreThere
<1> DEFINE s == pending.staged
           R == Cardinality(Rows)
           D == DOMAIN s.inserts
<1>0. s \in Sound(n)
  OBVIOUS
<1>1. R \in Nat /\ Cardinality(D) \in Nat /\ RowCount(s) = R + Cardinality(D)
  BY <1>0, Counts, ChangesAssumption DEF RowCount
<1>2. \A k : Existing(k).kind = "existing" /\ Existing(k).at = k /\ New(k).kind = "new" /\ New(k).at = k
  BY DEF Existing, New
<1>3. ASSUME NEW row \in 0..(RowCount(s) - 1)
      PROVE  /\ row \in Nat /\ row < RowCount(s)
             /\ row \in Rows => RowRef(s, row) = Existing(row)
             /\ row \notin Rows =>
                  \E k \in D : RowRef(s, row) = New(k) /\ Place(k, D) = row - R + 1
  <2>1. row \in Nat /\ row < RowCount(s)
    BY <1>1
  <2>2. row \in Rows => RowRef(s, row) = Existing(row)
    BY <1>0, <2>1, RowRefIs
  <2> DEFINE k == NthNew(s, row - R + 1)
  <2>3. row \notin Rows => k \in D /\ RowRef(s, row) = New(k) /\ Place(k, D) = row - R + 1
    BY <1>0, <2>1, RowRefIs
  <2> HIDE DEF k
  <2> QED
    BY <2>1, <2>2, <2>3
<1>4. ASSUME NEW row \in 0..(RowCount(s) - 1)
      PROVE  RowRef(s, row) \in {Existing(r) : r \in Rows} \cup {New(k) : k \in D}
  BY <1>3
<1>5. ASSUME NEW row \in 0..(RowCount(s) - 1), NEW other \in 0..(RowCount(s) - 1),
             RowRef(s, other) = RowRef(s, row)
      PROVE  other = row
  <2>1. CASE row \in Rows
    <3>1. other \in Rows
      BY <1>2, <1>3, <1>5, <2>1
    <3> QED
      BY <1>2, <1>3, <1>5, <2>1, <3>1
  <2>2. CASE row \notin Rows
    <3>1. other \notin Rows
      BY <1>2, <1>3, <1>5, <2>2
    <3>2. PICK k \in D : RowRef(s, row) = New(k) /\ Place(k, D) = row - R + 1
      BY <1>3, <2>2
    <3>3. PICK j \in D : RowRef(s, other) = New(j) /\ Place(j, D) = other - R + 1
      BY <1>3, <3>1
    <3>4. j = k
      BY <1>2, <1>5, <3>2, <3>3
    <3>5. row - R + 1 = other - R + 1
      BY <3>2, <3>3, <3>4
    <3>6. row \in Nat /\ other \in Nat
      BY <1>3
    <3> QED
      BY <1>1, <3>5, <3>6
  <2> QED
    BY <2>1, <2>2
<1> QED
  BY <1>4, <1>5 DEF RowsAreThere

(***************************************************************************)
(* The cells of one row.                                                   *)
(***************************************************************************)
\* The loop over the columns, round by round.
LEMMA CellsLoop ==
  ASSUME NEW n \in Nat, NEW c \in Sets(n), NEW r \in Rows
  PROVE  \E g : /\ g[0] = c /\ RevertCells(c, Existing(r)) = g[Cardinality(Columns)]
                /\ \A i \in 1..Cardinality(Columns) :
                     g[i] = RevertCell(g[i - 1], Existing(r), i - 1)
<1> DEFINE N == Cardinality(Columns)
           row == Existing(r)
           Equals(f) == f = [i \in 0..N |-> IF i = 0 THEN c ELSE RevertCell(f[i - 1], row, i - 1)]
           F == [i \in 1..N |-> [d \in Sets(n) |-> RevertCell(d, row, i - 1)]]
<1>1. N \in Nat /\ Columns = 0..(N - 1)
  BY GridAssumption, FS_CardinalityType
<1> HIDE DEF N
<1>2. \A i \in 1..N : i - 1 \in Columns /\ i \in 0..N /\ i # 0 /\ i - 1 \in 0..N
  BY <1>1
<1>3. F \in [1..N -> [Sets(n) -> Sets(n)]]
  <2>1. \A i \in 1..N : \A d \in Sets(n) : RevertCell(d, row, i - 1) \in Sets(n)
    BY <1>2, RevertExisting
  <2> QED
    BY <2>1
<1>4. PICK f : Rounds(f, N, Sets(n), c, F)
  <2> DEFINE S == Sets(n)
  <2>1. F \in [1..N -> [S -> S]] /\ c \in S /\ N \in Nat
    BY <1>1, <1>3
  <2> HIDE DEF F, S
  <2>2. \E f : Rounds(f, N, S, c, F)
    BY <2>1, Iterates
  <2> QED
    BY <2>2 DEF S
<1>5. Equals(f)
  <2> DEFINE h == [i \in 0..N |-> IF i = 0 THEN c ELSE RevertCell(f[i - 1], row, i - 1)]
  <2>1. \A i \in 1..N : f[i] = RevertCell(f[i - 1], row, i - 1)
    BY <1>2, <1>4 DEF Rounds
  <2>2. \A i \in 0..N : i = 0 \/ i \in 1..N
    BY <1>1
  <2>3. \A i \in 0..N : f[i] = h[i]
    BY <1>4, <2>1, <2>2 DEF Rounds
  <2>4. h = [i \in 0..N |-> h[i]] /\ f = [i \in 0..N |-> f[i]]
    BY <1>4 DEF Rounds
  <2> HIDE DEF h
  <2>5. f = h
    BY <2>3, <2>4
  <2> QED
    BY <2>5 DEF h
<1> DEFINE g == CHOOSE x : Equals(x)
<1>6. Equals(g)
  BY <1>5, Zenon
<1>7. RevertCells(c, row) = g[N]
  BY Zenon DEF RevertCells, N
<1> HIDE DEF g
<1>8. g[0] = c
  <2>1. 0 \in 0..N
    BY <1>1
  <2> QED
    BY <1>6, <2>1
<1>9. \A i \in 1..N : g[i] = RevertCell(g[i - 1], row, i - 1)
  BY <1>2, <1>6
<1> QED
  BY <1>7, <1>8, <1>9 DEF N

\* Nothing is left staged in the row's cells, and nothing else is touched.
LEMMA RevertCellsIs ==
  ASSUME NEW n \in Nat, NEW c \in Sets(n), NEW r \in Rows
  PROVE  /\ RevertCells(c, Existing(r)) \in Sets(n)
         /\ RevertCells(c, Existing(r)).staged.inserts = c.staged.inserts
         /\ RevertCells(c, Existing(r)).staged.deletes = c.staged.deletes
         /\ CellsOf(RevertCells(c, Existing(r)).staged, Existing(r)) = Empty
         /\ \A q \in Rows \ {r} :
              CellsOf(RevertCells(c, Existing(r)).staged, Existing(q)) = CellsOf(c.staged, Existing(q))
<1> DEFINE N == Cardinality(Columns)
           row == Existing(r)
           Left(i, d) ==
             /\ d \in Sets(n)
             /\ d.staged.inserts = c.staged.inserts /\ d.staged.deletes = c.staged.deletes
             /\ \A x \in DOMAIN CellsOf(d.staged, row) : ~(x \in 0..(i - 1))
             /\ \A q \in Rows \ {r} :
                  CellsOf(d.staged, Existing(q)) = CellsOf(c.staged, Existing(q))
<1>1. N \in Nat /\ Columns = 0..(N - 1)
  BY GridAssumption, FS_CardinalityType
<1>2. PICK g : /\ g[0] = c /\ RevertCells(c, row) = g[N]
               /\ \A i \in 1..N : g[i] = RevertCell(g[i - 1], row, i - 1)
  BY CellsLoop
<1> HIDE DEF N
<1> DEFINE G == {i \in 0..N : Left(i, g[i])}
<1>3. 0 \in G
  <2>1. 0 \in 0..N /\ \A x : ~(x \in 0..(0 - 1))
    BY <1>1
  <2>2. Left(0, c)
    BY <2>1
  <2> HIDE DEF Left
  <2> QED
    BY <1>2, <2>1, <2>2
<1>4. ASSUME NEW i \in 1..N, i - 1 \in G PROVE i \in G
  <2> DEFINE d == g[i - 1]
             e == RevertCell(d, row, i - 1)
  <2>1. Left(i - 1, d) /\ i \in 0..N /\ i - 1 \in Columns /\ i \in Nat
    BY <1>1, <1>4
  <2>2. g[i] = e
    BY <1>2
  <2> HIDE DEF d
  <2>3. d \in Sets(n)
    BY <2>1
  <2>4. e \in Sets(n)
    BY <2>1, <2>3, RevertExisting
  <2>5. e.staged.inserts = d.staged.inserts
    BY <2>1, <2>3, RevertExisting
  <2>6. e.staged.deletes = d.staged.deletes
    BY <2>1, <2>3, RevertExisting
  <2>7. CellsOf(e.staged, row) = Without(CellsOf(d.staged, row), i - 1)
    BY <2>1, <2>3, RevertExisting
  <2>8. \A q \in Rows \ {r} : CellsOf(e.staged, Existing(q)) = CellsOf(d.staged, Existing(q))
    BY <2>1, <2>3, RevertExisting
  <2>9. \A x \in DOMAIN CellsOf(e.staged, row) : ~(x \in 0..(i - 1))
    <3>1. DOMAIN CellsOf(e.staged, row) = DOMAIN CellsOf(d.staged, row) \ {i - 1}
      BY <2>7 DEF Without
    <3>2. \A x \in DOMAIN CellsOf(d.staged, row) : ~(x \in 0..((i - 1) - 1))
      BY <2>1
    <3>3. \A x : x \in 0..(i - 1) => x = i - 1 \/ x \in 0..((i - 1) - 1)
      BY <2>1
    <3> HIDE DEF e, row
    <3> QED
      BY <3>1, <3>2, <3>3
  <2> HIDE DEF e, row
  <2>10. Left(i, e)
    BY <2>1, <2>4, <2>5, <2>6, <2>8, <2>9
  <2> HIDE DEF Left
  <2> QED
    BY <2>1, <2>2, <2>10
<1> HIDE DEF G
<1>5. \A i \in 0..N : i \in G
  BY <1>1, <1>3, <1>4, UpTo
<1>6. Left(N, g[N])
  BY <1>1, <1>5 DEF G
<1> DEFINE d == RevertCells(c, row)
<1>7. Left(N, d)
  BY <1>2, <1>6
<1> HIDE DEF d
<1>8. CellsOf(d.staged, row) = Empty
  <2>1. d.staged \in Sound(n) /\ row \in RowRefs
    BY <1>7, SetParts DEF RowRefs, Existing
  <2>2. CellsOf(d.staged, row) \in Cells
    BY <2>1, CellsOfType
  <2> DEFINE cells == CellsOf(d.staged, row)
  <2>3. IsFn(cells) /\ DOMAIN cells \subseteq Columns
    BY <2>2, PartialType DEF Cells, Partial
  <2>4. \A x \in DOMAIN cells : ~(x \in 0..(N - 1))
    BY <1>7
  <2> HIDE DEF cells
  <2>5. DOMAIN cells = {}
    BY <1>1, <2>3, <2>4
  <2> QED
    BY <2>3, <2>5 DEF IsFn, Empty, cells
<1> HIDE DEF row
<1> QED
  BY <1>7, <1>8 DEF d, row

(***************************************************************************)
(* One row of a gesture.                                                   *)
(***************************************************************************)
\* Deleting one row.
LEMMA DeleteOneSound ==
  ASSUME NEW n \in 0..MaxSlots, NEW c \in Sets(n), NEW row \in Nat, NEW marked \in BOOLEAN
  PROVE  DeleteOne(c, row, marked) \in Sets(n)
<1>1. n \in Nat /\ c.staged \in Sound(n)
  BY ChangesAssumption, SetParts
<1>2. CASE row \in Rows /\ marked
  BY <1>1, <1>2, UndeleteExisting DEF DeleteOne
<1>3. CASE ~(row \in Rows /\ marked) /\ RowRef(c.staged, row) = NoRow
  BY <1>3 DEF DeleteOne
<1>4. CASE ~(row \in Rows /\ marked) /\ RowRef(c.staged, row) # NoRow
  <2>1. DeleteOne(c, row, marked) = DeleteRow(c, RowRef(c.staged, row))
    BY <1>4 DEF DeleteOne
  <2> QED
    BY <1>1, <1>4, <2>1, RowRefType, DeleteExisting, DeleteNew
<1> QED
  BY <1>2, <1>3, <1>4

\* Reverting one row.
LEMMA RevertOneSound ==
  ASSUME NEW n \in 0..MaxSlots, NEW c \in Sets(n), NEW row \in Nat
  PROVE  RevertOne(c, row) \in Sets(n)
<1>1. n \in Nat /\ c.staged \in Sound(n)
  BY ChangesAssumption, SetParts
<1>2. CASE row \in Rows /\ RowRef(c.staged, row) = Existing(row)
  <2>1. RevertOne(c, row) = RevertCells(UndeleteRow(c, row), Existing(row))
    BY <1>2 DEF RevertOne, Existing
  <2>2. UndeleteRow(c, row) \in Sets(n)
    BY <1>1, <1>2, UndeleteExisting
  <2> QED
    BY <1>1, <1>2, <2>1, <2>2, RevertCellsIs
<1>3. ASSUME NEW k, RowRef(c.staged, row) = New(k) PROVE RevertOne(c, row) \in Sets(n)
  <2>1. RevertOne(c, row) = DeleteRow(c, New(k))
    BY <1>3 DEF RevertOne, New
  <2> QED
    BY <1>1, <2>1, DeleteNew
<1>4. CASE RowRef(c.staged, row) = NoRow
  BY <1>4 DEF RevertOne, NoRow
<1> QED
  BY <1>1, <1>2, <1>3, <1>4, RowRefType

(***************************************************************************)
(* The rows of a gesture.                                                  *)
(***************************************************************************)
\* The loop over the rows to delete, round by round.
LEMMA DeleteLoop ==
  ASSUME NEW n \in 0..MaxSlots, NEW c \in Sets(n), NEW rows, NEW marked \in BOOLEAN
  PROVE  \E g : /\ g[0] = c /\ DeleteEach(c, rows, marked) = g[Displayed + 1]
                /\ \A i \in 1..(Displayed + 1) :
                     g[i] = IF i - 1 \in rows THEN DeleteOne(g[i - 1], i - 1, marked) ELSE g[i - 1]
<1> DEFINE N == Displayed + 1
           Round(f, i) == CASE i = 0 -> c
                            [] i > 0 /\ i - 1 \in rows -> DeleteOne(f[i - 1], i - 1, marked)
                            [] OTHER -> f[i - 1]
           Equals(f) == f = [i \in 0..N |-> Round(f, i)]
           F == [i \in 1..N |-> [d \in Sets(n) |->
                   IF i - 1 \in rows THEN DeleteOne(d, i - 1, marked) ELSE d]]
<1>1. N \in Nat
  BY GridAssumption, ChangesAssumption, FS_CardinalityType DEF Displayed
<1> HIDE DEF N
<1>2. \A i \in 1..N : i - 1 \in Nat /\ i \in 0..N /\ i # 0 /\ i > 0 /\ i - 1 \in 0..N
  BY <1>1
<1>3. F \in [1..N -> [Sets(n) -> Sets(n)]]
  <2>1. \A i \in 1..N : \A d \in Sets(n) : DeleteOne(d, i - 1, marked) \in Sets(n)
    BY <1>2, DeleteOneSound
  <2> QED
    BY <2>1
<1>4. PICK f : Rounds(f, N, Sets(n), c, F)
  <2> DEFINE S == Sets(n)
  <2>1. F \in [1..N -> [S -> S]] /\ c \in S /\ N \in Nat
    BY <1>1, <1>3
  <2> HIDE DEF F, S
  <2>2. \E f : Rounds(f, N, S, c, F)
    BY <2>1, Iterates
  <2> QED
    BY <2>2 DEF S
<1>5. Equals(f)
  <2> DEFINE h == [i \in 0..N |-> Round(f, i)]
  <2>1. f[0] = c /\ 0 \in 0..N /\ Round(f, 0) = c
    BY <1>1, <1>4 DEF Rounds
  <2>2. ASSUME NEW i \in 1..N PROVE f[i] = Round(f, i)
    <3>1. f[i - 1] \in Sets(n)
      BY <1>2, <1>4 DEF Rounds
    <3>2. f[i] = IF i - 1 \in rows THEN DeleteOne(f[i - 1], i - 1, marked) ELSE f[i - 1]
      BY <1>4, <3>1 DEF Rounds
    <3> QED
      BY <1>2, <3>2
  <2>3. \A i \in 0..N : i = 0 \/ i \in 1..N
    BY <1>1
  <2>4. h = [i \in 0..N |-> h[i]] /\ f = [i \in 0..N |-> f[i]]
    BY <1>4 DEF Rounds
  <2> HIDE DEF Round
  <2>5. \A i \in 0..N : f[i] = h[i]
    BY <2>1, <2>2, <2>3
  <2> HIDE DEF h
  <2>6. f = h
    BY <2>4, <2>5
  <2> QED
    BY <2>6 DEF h
<1> DEFINE g == CHOOSE x : Equals(x)
<1>6. Equals(g)
  BY <1>5, Zenon
<1>7. DeleteEach(c, rows, marked) = g[N]
  BY Zenon DEF DeleteEach, N
<1> HIDE DEF g
<1>8. g[0] = c
  <2>1. 0 \in 0..N
    BY <1>1
  <2> QED
    BY <1>6, <2>1
<1>9. ASSUME NEW i \in 1..N
      PROVE  g[i] = IF i - 1 \in rows THEN DeleteOne(g[i - 1], i - 1, marked) ELSE g[i - 1]
  <2>1. g[i] = Round(g, i)
    <3> HIDE DEF Round
    <3> QED
      BY <1>2, <1>6
  <2> QED
    BY <1>2, <2>1
<1> QED
  BY <1>7, <1>8, <1>9 DEF N

\* The loop over the rows to revert, round by round.
LEMMA RevertLoop ==
  ASSUME NEW n \in 0..MaxSlots, NEW c \in Sets(n), NEW rows
  PROVE  \E g : /\ g[0] = c /\ RevertEach(c, rows) = g[Displayed + 1]
                /\ \A i \in 1..(Displayed + 1) :
                     g[i] = IF i - 1 \in rows THEN RevertOne(g[i - 1], i - 1) ELSE g[i - 1]
<1> DEFINE N == Displayed + 1
           Round(f, i) == CASE i = 0 -> c
                            [] i > 0 /\ i - 1 \in rows -> RevertOne(f[i - 1], i - 1)
                            [] OTHER -> f[i - 1]
           Equals(f) == f = [i \in 0..N |-> Round(f, i)]
           F == [i \in 1..N |-> [d \in Sets(n) |->
                   IF i - 1 \in rows THEN RevertOne(d, i - 1) ELSE d]]
<1>1. N \in Nat
  BY GridAssumption, ChangesAssumption, FS_CardinalityType DEF Displayed
<1> HIDE DEF N
<1>2. \A i \in 1..N : i - 1 \in Nat /\ i \in 0..N /\ i # 0 /\ i > 0 /\ i - 1 \in 0..N
  BY <1>1
<1>3. F \in [1..N -> [Sets(n) -> Sets(n)]]
  <2>1. \A i \in 1..N : \A d \in Sets(n) : RevertOne(d, i - 1) \in Sets(n)
    BY <1>2, RevertOneSound
  <2> QED
    BY <2>1
<1>4. PICK f : Rounds(f, N, Sets(n), c, F)
  <2> DEFINE S == Sets(n)
  <2>1. F \in [1..N -> [S -> S]] /\ c \in S /\ N \in Nat
    BY <1>1, <1>3
  <2> HIDE DEF F, S
  <2>2. \E f : Rounds(f, N, S, c, F)
    BY <2>1, Iterates
  <2> QED
    BY <2>2 DEF S
<1>5. Equals(f)
  <2> DEFINE h == [i \in 0..N |-> Round(f, i)]
  <2>1. f[0] = c /\ 0 \in 0..N /\ Round(f, 0) = c
    BY <1>1, <1>4 DEF Rounds
  <2>2. ASSUME NEW i \in 1..N PROVE f[i] = Round(f, i)
    <3>1. f[i - 1] \in Sets(n)
      BY <1>2, <1>4 DEF Rounds
    <3>2. f[i] = IF i - 1 \in rows THEN RevertOne(f[i - 1], i - 1) ELSE f[i - 1]
      BY <1>4, <3>1 DEF Rounds
    <3> QED
      BY <1>2, <3>2
  <2>3. \A i \in 0..N : i = 0 \/ i \in 1..N
    BY <1>1
  <2>4. h = [i \in 0..N |-> h[i]] /\ f = [i \in 0..N |-> f[i]]
    BY <1>4 DEF Rounds
  <2> HIDE DEF Round
  <2>5. \A i \in 0..N : f[i] = h[i]
    BY <2>1, <2>2, <2>3
  <2> HIDE DEF h
  <2>6. f = h
    BY <2>4, <2>5
  <2> QED
    BY <2>6 DEF h
<1> DEFINE g == CHOOSE x : Equals(x)
<1>6. Equals(g)
  BY <1>5, Zenon
<1>7. RevertEach(c, rows) = g[N]
  BY Zenon DEF RevertEach, N
<1> HIDE DEF g
<1>8. g[0] = c
  <2>1. 0 \in 0..N
    BY <1>1
  <2> QED
    BY <1>6, <2>1
<1>9. ASSUME NEW i \in 1..N
      PROVE  g[i] = IF i - 1 \in rows THEN RevertOne(g[i - 1], i - 1) ELSE g[i - 1]
  <2>1. g[i] = Round(g, i)
    <3> HIDE DEF Round
    <3> QED
      BY <1>2, <1>6
  <2> QED
    BY <1>2, <2>1
<1> QED
  BY <1>7, <1>8, <1>9 DEF N

\* The loop keeps the change set well formed.
LEMMA DeleteEachSound ==
  ASSUME NEW n \in 0..MaxSlots, NEW c \in Sets(n), NEW rows, NEW marked \in BOOLEAN
  PROVE  DeleteEach(c, rows, marked) \in Sets(n)
<1> DEFINE N == Displayed + 1
<1>1. N \in Nat
  BY GridAssumption, ChangesAssumption, FS_CardinalityType DEF Displayed
<1>2. PICK g : /\ g[0] = c /\ DeleteEach(c, rows, marked) = g[N]
               /\ \A i \in 1..N :
                    g[i] = IF i - 1 \in rows THEN DeleteOne(g[i - 1], i - 1, marked) ELSE g[i - 1]
  BY DeleteLoop
<1> HIDE DEF N
<1> DEFINE G == {i \in 0..N : g[i] \in Sets(n)}
<1>3. 0 \in G
  BY <1>1, <1>2
<1>4. ASSUME NEW i \in 1..N, i - 1 \in G PROVE i \in G
  <2>1. g[i - 1] \in Sets(n) /\ i - 1 \in Nat /\ i \in 0..N
    BY <1>1, <1>4
  <2> QED
    BY <1>2, <2>1, DeleteOneSound
<1> HIDE DEF G
<1>5. \A i \in 0..N : i \in G
  BY <1>1, <1>3, <1>4, UpTo
<1> QED
  BY <1>1, <1>2, <1>5 DEF G

\* The loop keeps the change set well formed.
LEMMA RevertEachSound ==
  ASSUME NEW n \in 0..MaxSlots, NEW c \in Sets(n), NEW rows
  PROVE  RevertEach(c, rows) \in Sets(n)
<1> DEFINE N == Displayed + 1
<1>1. N \in Nat
  BY GridAssumption, ChangesAssumption, FS_CardinalityType DEF Displayed
<1>2. PICK g : /\ g[0] = c /\ RevertEach(c, rows) = g[N]
               /\ \A i \in 1..N :
                    g[i] = IF i - 1 \in rows THEN RevertOne(g[i - 1], i - 1) ELSE g[i - 1]
  BY RevertLoop
<1> HIDE DEF N
<1> DEFINE G == {i \in 0..N : g[i] \in Sets(n)}
<1>3. 0 \in G
  BY <1>1, <1>2
<1>4. ASSUME NEW i \in 1..N, i - 1 \in G PROVE i \in G
  <2>1. g[i - 1] \in Sets(n) /\ i - 1 \in Nat /\ i \in 0..N
    BY <1>1, <1>4
  <2> QED
    BY <1>2, <2>1, RevertOneSound
<1> HIDE DEF G
<1>5. \A i \in 0..N : i \in G
  BY <1>1, <1>3, <1>4, UpTo
<1> QED
  BY <1>1, <1>2, <1>5 DEF G

\* With nothing staged there is nothing to revert, and no step is recorded.
LEMMA RevertNothing ==
  ASSUME NEW rows
  PROVE  RevertEach(NewChanges, rows) = NewChanges
<1> DEFINE c == NewChanges
           N == Displayed + 1
<1>0. 0 \in 0..MaxSlots /\ c \in Sets(0) /\ c.staged = EmptyContents
  <2>1. Empty \in [{} -> Cells]
    BY DEF Empty
  <2>2. Empty \in Partial(Rows, Cells) /\ Empty \in Partial(Slots, Cells) /\ DOMAIN Empty = {}
    BY <2>1, EmptyCells DEF Partial
  <2>3. EmptyContents \in Sound(0)
    BY <2>2, SoundFrom DEF EmptyContents
  <2> HIDE DEF EmptyContents
  <2> QED
    BY <2>3, ChangesAssumption DEF NewChanges, Sets
<1>1. /\ EmptyContents.deletes = {} /\ EmptyContents.edits = Empty
      /\ EmptyContents.inserts = Empty /\ DOMAIN Empty = {}
  BY DEF EmptyContents, Empty
<1> HIDE DEF c
<1>2. ASSUME NEW r \in Rows PROVE RevertCells(c, Existing(r)) = c
  <2> DEFINE M == Cardinality(Columns)
  <2>1. M \in Nat
    BY GridAssumption, FS_CardinalityType
  <2>2. PICK g : /\ g[0] = c /\ RevertCells(c, Existing(r)) = g[M]
                 /\ \A i \in 1..M : g[i] = RevertCell(g[i - 1], Existing(r), i - 1)
    BY <1>0, CellsLoop
  <2> HIDE DEF M
  <2>3. CellsOf(EmptyContents, Existing(r)) = Empty
    BY <1>1 DEF CellsOf, Existing
  <2>4. \A column : RevertCell(c, Existing(r), column) = c
    BY <1>0, <1>1, <2>3 DEF RevertCell, Value, At
  <2> DEFINE G == {i \in 0..M : g[i] = c}
  <2>5. 0 \in G
    BY <2>1, <2>2
  <2>6. ASSUME NEW i \in 1..M, i - 1 \in G PROVE i \in G
    <3>1. i \in 0..M /\ g[i - 1] = c
      BY <2>1, <2>6
    <3> QED
      BY <2>2, <2>4, <3>1
  <2> HIDE DEF G
  <2>7. \A i \in 0..M : i \in G
    BY <2>1, <2>5, <2>6, UpTo
  <2> QED
    BY <2>1, <2>2, <2>7 DEF G
<1>3. ASSUME NEW row \in Nat PROVE RevertOne(c, row) = c
  <2>1. \/ row \in Rows /\ RowRef(c.staged, row) = Existing(row)
        \/ RowRef(c.staged, row) = NoRow
    <3>1. c.staged \in Sound(0)
      BY <1>0, SetParts
    <3>2. ~\E k \in DOMAIN c.staged.inserts : RowRef(c.staged, row) = New(k)
      BY <1>0, <1>1
    <3> QED
      BY <1>0, <3>1, <3>2, RowRefType
  <2>2. CASE row \in Rows /\ RowRef(c.staged, row) = Existing(row)
    <3>1. RevertOne(c, row) = RevertCells(UndeleteRow(c, row), Existing(row))
      BY <2>2 DEF RevertOne, Existing
    <3>2. UndeleteRow(c, row) = c
      BY <1>0, <1>1 DEF UndeleteRow
    <3> QED
      BY <1>2, <2>2, <3>1, <3>2
  <2>3. CASE RowRef(c.staged, row) = NoRow
    BY <2>3 DEF RevertOne, NoRow
  <2> QED
    BY <2>1, <2>2, <2>3
<1>4. N \in Nat
  BY GridAssumption, ChangesAssumption, FS_CardinalityType DEF Displayed
<1>5. PICK g : /\ g[0] = c /\ RevertEach(c, rows) = g[N]
               /\ \A i \in 1..N :
                    g[i] = IF i - 1 \in rows THEN RevertOne(g[i - 1], i - 1) ELSE g[i - 1]
  BY <1>0, RevertLoop
<1> HIDE DEF N
<1> DEFINE G == {i \in 0..N : g[i] = c}
<1>6. 0 \in G
  BY <1>4, <1>5
<1>7. ASSUME NEW i \in 1..N, i - 1 \in G PROVE i \in G
  <2>1. g[i - 1] = c /\ i - 1 \in Nat /\ i \in 0..N
    BY <1>4, <1>7
  <2> QED
    BY <1>3, <1>5, <2>1
<1> HIDE DEF G
<1>8. \A i \in 0..N : i \in G
  BY <1>4, <1>6, <1>7, UpTo
<1> QED
  BY <1>4, <1>5, <1>8 DEF G, c

\* Of contents c, the rows given are deleted in d and nothing else is changed.
Deleted(c, d, rows, marked) ==
  LET slots == {k \in DOMAIN c.inserts : \E r \in rows \ Rows : RowRef(c, r) = New(k)}
  IN /\ d.edits = c.edits
     /\ d.inserts = [k \in DOMAIN c.inserts \ slots |-> c.inserts[k]]
     /\ marked => d.deletes = c.deletes \ rows
     /\ ~marked => d.deletes = c.deletes \cup (rows \cap Rows)

\* The loop marks, unmarks and drops exactly the rows it is given.
LEMMA DeleteEachIs ==
  ASSUME NEW n \in 0..MaxSlots, NEW c \in Sets(n), NEW rows \in SUBSET (0..Displayed),
         \A p, q \in rows \ Rows : p = q,
         NEW marked \in BOOLEAN, marked => rows \subseteq c.staged.deletes
  PROVE  Deleted(c.staged, DeleteEach(c, rows, marked).staged, rows, marked)
<1> DEFINE N == Displayed + 1
           s == c.staged
           D == DOMAIN s.inserts
           Done(i) == {q \in rows : q < i}
           Dropped(i) == {k \in D : \E q \in Done(i) \ Rows : RowRef(s, q) = New(k)}
           Marks(i) == IF marked THEN s.deletes \ Done(i) ELSE s.deletes \cup (Done(i) \cap Rows)
           So(i, d) == /\ d \in Sets(n) /\ d.staged.edits = s.edits
                       /\ d.staged.inserts = [k \in D \ Dropped(i) |-> s.inserts[k]]
                       /\ d.staged.deletes = Marks(i)
<1>1. N \in Nat /\ Displayed \in Nat
  BY GridAssumption, ChangesAssumption, FS_CardinalityType DEF Displayed
<1>2. PICK g : /\ g[0] = c /\ DeleteEach(c, rows, marked) = g[N]
               /\ \A i \in 1..N :
                    g[i] = IF i - 1 \in rows THEN DeleteOne(g[i - 1], i - 1, marked) ELSE g[i - 1]
  BY DeleteLoop
<1>3. /\ n \in Nat /\ s \in Sound(n) /\ IsFn(s.inserts) /\ s.deletes \in SUBSET Rows
  BY ChangesAssumption, SetParts, SoundParts
<1>4. \A q \in rows : q \in Nat /\ q < N
  BY <1>1
<1> HIDE DEF N
<1>5. s.inserts = [k \in D |-> s.inserts[k]]
  BY <1>3 DEF IsFn
<1> DEFINE G == {i \in 0..N : So(i, g[i])}
<1>6. 0 \in G
  <2>0. \A q \in rows : ~(q < 0)
    BY <1>4
  <2>1. Done(0) = {}
    BY <2>0
  <2> HIDE DEF Done
  <2>2. Dropped(0) = {} /\ Marks(0) = s.deletes
    BY <2>1
  <2> HIDE DEF Dropped, Marks
  <2>3. [k \in D \ Dropped(0) |-> s.inserts[k]] = s.inserts
    BY <1>5, <2>2
  <2>4. So(0, c)
    BY <2>2, <2>3
  <2> HIDE DEF So
  <2> QED
    BY <1>1, <1>2, <2>4
<1>7. ASSUME NEW i \in 1..N, i - 1 \in G PROVE i \in G
  <2> DEFINE q == i - 1
             d == g[q]
             e == g[i]
  <2>0. So(q, d) /\ q \in Nat /\ i \in 0..N /\ i = q + 1 /\ q < i
    BY <1>1, <1>7
  <2> HIDE DEF q, d, e
  <2>a. e = IF q \in rows THEN DeleteOne(d, q, marked) ELSE d
    BY <1>2 DEF d, e, q
  <2>b. So(i, e) => i \in G
    BY <2>0 DEF e
  <2>c. Done(i) = IF q \in rows THEN Done(q) \cup {q} ELSE Done(q)
    <3>1. \A p \in rows : p < i <=> p < q \/ p = q
      BY <1>4, <2>0
    <3> QED
      BY <3>1
  <2>d. \A p \in Done(q) : p \in rows /\ p # q
    BY <1>4, <2>0
  <2>e. /\ d \in Sets(n) /\ d.staged.edits = s.edits
        /\ d.staged.inserts = [k \in D \ Dropped(q) |-> s.inserts[k]]
        /\ d.staged.deletes = Marks(q)
    BY <2>0
  <2>f. d.staged \in Sound(n)
    BY <2>e, SetParts
  <2> HIDE DEF Done, G
  <2>1. CASE q \notin rows
    <3>1. So(i, e)
      BY <2>0, <2>a, <2>c, <2>1
    <3> QED
      BY <2>b, <3>1
  <2>2. CASE q \in rows /\ q \in Rows
    <3>1. Done(i) = Done(q) \cup {q} /\ Done(i) \ Rows = Done(q) \ Rows
      BY <2>c, <2>2
    <3>2. Dropped(i) = Dropped(q)
      BY <3>1
    <3>3. e = DeleteOne(d, q, marked)
      BY <2>a, <2>2
    <3>4. /\ e \in Sets(n) /\ e.staged.edits = d.staged.edits
          /\ e.staged.inserts = d.staged.inserts
          /\ e.staged.deletes = IF marked THEN d.staged.deletes \ {q} ELSE d.staged.deletes \cup {q}
      <4>1. CASE marked
        <5>1. e = UndeleteRow(d, q)
          BY <2>2, <3>3, <4>1 DEF DeleteOne
        <5>2. e \in Sets(n)
          BY <1>3, <2>2, <2>e, <5>1, UndeleteExisting
        <5>3. e.staged.edits = d.staged.edits
          BY <1>3, <2>2, <2>e, <5>1, UndeleteExisting
        <5>4. e.staged.inserts = d.staged.inserts
          BY <1>3, <2>2, <2>e, <5>1, UndeleteExisting
        <5>5. e.staged.deletes = d.staged.deletes \ {q}
          BY <1>3, <2>2, <2>e, <5>1, UndeleteExisting
        <5> QED
          BY <4>1, <5>2, <5>3, <5>4, <5>5
      <4>2. CASE ~marked
        <5>1. RowRef(d.staged, q) = Existing(q) /\ Existing(q) # NoRow
          BY <2>0, <2>2, <2>f, RowRefIs DEF Existing, NoRow
        <5>2. e = DeleteRow(d, Existing(q))
          BY <2>2, <3>3, <4>2, <5>1 DEF DeleteOne
        <5>3. e \in Sets(n)
          BY <1>3, <2>2, <2>e, <5>2, DeleteExisting
        <5>4. e.staged.edits = d.staged.edits
          BY <1>3, <2>2, <2>e, <5>2, DeleteExisting
        <5>5. e.staged.inserts = d.staged.inserts
          BY <1>3, <2>2, <2>e, <5>2, DeleteExisting
        <5>6. e.staged.deletes = d.staged.deletes \cup {q}
          BY <1>3, <2>2, <2>e, <5>2, DeleteExisting
        <5> QED
          BY <4>2, <5>3, <5>4, <5>5, <5>6
      <4> QED
        BY <4>1, <4>2
    <3>5. e.staged.deletes = Marks(i)
      <4>1. CASE marked
        <5>1. e.staged.deletes = (s.deletes \ Done(q)) \ {q} /\ Marks(i) = s.deletes \ Done(i)
          BY <2>e, <3>4, <4>1
        <5> QED
          BY <3>1, <5>1
      <4>2. CASE ~marked
        <5>1. /\ e.staged.deletes = (s.deletes \cup (Done(q) \cap Rows)) \cup {q}
              /\ Marks(i) = s.deletes \cup (Done(i) \cap Rows)
          BY <2>e, <3>4, <4>2
        <5> QED
          BY <2>2, <3>1, <5>1
      <4> QED
        BY <4>1, <4>2
    <3> HIDE DEF Dropped, Marks
    <3>6. So(i, e)
      BY <2>e, <3>2, <3>4, <3>5
    <3> QED
      BY <2>b, <3>6
  <2>3. CASE q \in rows /\ q \notin Rows
    <3>1. ~marked
      BY <1>3, <2>3
    <3>2. Done(q) \ Rows = {} /\ Done(i) \ Rows = {q} /\ Done(i) \cap Rows = Done(q) \cap Rows
      BY <2>3, <2>c, <2>d
    <3>3. Dropped(q) = {} /\ Dropped(i) = {k \in D : RowRef(s, q) = New(k)} /\ Marks(i) = Marks(q)
      BY <3>1, <3>2
    <3> HIDE DEF Dropped, Marks
    <3>4. d.staged.inserts = s.inserts
      BY <1>5, <2>e, <3>3
    <3>5. RowRef(d.staged, q) = RowRef(s, q)
      BY <3>4 DEF RowRef, NthNew
    <3>6. e = DeleteOne(d, q, marked)
      BY <2>a, <2>3
    <3>7. \A k : New(k) # NoRow /\ New(k).at = k
      BY DEF New, NoRow
    <3>8. CASE RowRef(s, q) = NoRow
      <4>1. e = d
        BY <2>3, <3>5, <3>6, <3>8 DEF DeleteOne
      <4>2. Dropped(i) = Dropped(q)
        BY <3>3, <3>7, <3>8
      <4>3. So(i, e)
        BY <2>e, <3>3, <4>1, <4>2
      <4> QED
        BY <2>b, <4>3
    <3>9. ASSUME NEW k \in D, RowRef(s, q) = New(k) PROVE So(i, e)
      <4>1. e = DeleteRow(d, New(k))
        BY <2>3, <3>5, <3>6, <3>7, <3>9 DEF DeleteOne
      <4>2. Dropped(i) = {k}
        BY <3>3, <3>7, <3>9
      <4>3. e \in Sets(n)
        BY <1>3, <2>e, <4>1, DeleteNew
      <4>4. e.staged.edits = s.edits
        BY <1>3, <2>e, <4>1, DeleteNew
      <4>5. e.staged.inserts = Without(s.inserts, k)
        BY <1>3, <2>e, <3>4, <4>1, DeleteNew
      <4>6. e.staged.deletes = Marks(i)
        BY <1>3, <2>e, <3>3, <4>1, DeleteNew
      <4>7. Without(s.inserts, k) = [j \in D \ {k} |-> s.inserts[j]]
        BY DEF Without
      <4> QED
        BY <4>2, <4>3, <4>4, <4>5, <4>6, <4>7
    <3>10. (\E k \in D : RowRef(s, q) = New(k)) \/ RowRef(s, q) = NoRow
      BY <1>3, <2>0, <2>3, RowRefType
    <3> HIDE DEF So
    <3> QED
      BY <2>b, <3>8, <3>9, <3>10
  <2> QED
    BY <2>1, <2>2, <2>3
<1> HIDE DEF G
<1>8. \A i \in 0..N : i \in G
  BY <1>1, <1>6, <1>7, UpTo
<1>9. So(N, g[N])
  <2> HIDE DEF So
  <2> QED
    BY <1>1, <1>8 DEF G
<1>10. Done(N) = rows
  BY <1>4
<1> HIDE DEF Done
<1>11. Marks(N) = IF marked THEN s.deletes \ rows ELSE s.deletes \cup (rows \cap Rows)
  BY <1>10
<1> HIDE DEF Marks
<1>12. Dropped(N) = {k \in D : \E r \in rows \ Rows : RowRef(s, r) = New(k)}
  BY <1>10
<1> HIDE DEF Dropped
<1> DEFINE d == DeleteEach(c, rows, marked)
<1>13. /\ d.staged.edits = s.edits
       /\ d.staged.inserts = [k \in D \ Dropped(N) |-> s.inserts[k]]
       /\ d.staged.deletes = Marks(N)
  BY <1>2, <1>9
<1> HIDE DEF d
<1> QED
  BY <1>11, <1>12, <1>13 DEF d, Deleted

\* Reverting a row that exists leaves it neither marked nor edited.
LEMMA RevertOneIs ==
  ASSUME NEW n \in 0..MaxSlots, NEW c \in Sets(n), NEW r \in Rows
  PROVE  /\ RevertOne(c, r) \in Sets(n)
         /\ RevertOne(c, r).staged.inserts = c.staged.inserts
         /\ RevertOne(c, r).staged.deletes = c.staged.deletes \ {r}
         /\ CellsOf(RevertOne(c, r).staged, Existing(r)) = Empty
         /\ \A q \in Rows \ {r} :
              CellsOf(RevertOne(c, r).staged, Existing(q)) = CellsOf(c.staged, Existing(q))
<1> DEFINE u == UndeleteRow(c, r)
           e == RevertCells(u, Existing(r))
<1>0. r \in Nat
  <2> DEFINE C == Cardinality(Rows)
  <2>1. C \in Nat /\ Rows = 0..(C - 1)
    BY GridAssumption, FS_CardinalityType
  <2> HIDE DEF C
  <2> QED
    BY <2>1
<1>1. n \in Nat /\ c.staged \in Sound(n) /\ r \in Nat
  BY <1>0, ChangesAssumption, SetParts
<1>2. RowRef(c.staged, r) = Existing(r)
  BY <1>1, RowRefIs
<1>3. RevertOne(c, r) = e
  BY <1>2 DEF RevertOne, Existing
<1>4. u \in Sets(n)
  BY <1>1, UndeleteExisting
<1>5. u.staged.edits = c.staged.edits
  BY <1>1, UndeleteExisting
<1>6. u.staged.inserts = c.staged.inserts
  BY <1>1, UndeleteExisting
<1>7. u.staged.deletes = c.staged.deletes \ {r}
  BY <1>1, UndeleteExisting
<1>8. \A q : CellsOf(u.staged, Existing(q)) = CellsOf(c.staged, Existing(q))
  BY <1>5 DEF CellsOf, Existing
<1> HIDE DEF u
<1>9. e \in Sets(n)
  BY <1>1, <1>4, RevertCellsIs
<1>10. e.staged.inserts = u.staged.inserts
  BY <1>1, <1>4, RevertCellsIs
<1>11. e.staged.deletes = u.staged.deletes
  BY <1>1, <1>4, RevertCellsIs
<1>12. CellsOf(e.staged, Existing(r)) = Empty
  BY <1>1, <1>4, RevertCellsIs
<1>13. \A q \in Rows \ {r} : CellsOf(e.staged, Existing(q)) = CellsOf(u.staged, Existing(q))
  BY <1>1, <1>4, RevertCellsIs
<1> HIDE DEF e
<1> QED
  BY <1>3, <1>6, <1>7, <1>8, <1>9, <1>10, <1>11, <1>12, <1>13

\* The loop takes everything off the rows it is given, when they exist, and
\* leaves the others alone.
LEMMA RevertEachIs ==
  ASSUME NEW n \in 0..MaxSlots, NEW c \in Sets(n), NEW rows \in SUBSET Rows
  PROVE  LET d == RevertEach(c, rows).staged
         IN /\ d.inserts = c.staged.inserts
            /\ d.deletes = c.staged.deletes \ rows
            /\ rows \cap DOMAIN d.edits = {}
            /\ \A q \in Rows \ rows : CellsOf(d, Existing(q)) = CellsOf(c.staged, Existing(q))
<1> DEFINE N == Displayed + 1
           s == c.staged
           Done(i) == {q \in rows : q < i}
           So(i, d) == /\ d \in Sets(n)
                       /\ d.staged.inserts = s.inserts
                       /\ d.staged.deletes = s.deletes \ Done(i)
                       /\ \A q \in Done(i) : CellsOf(d.staged, Existing(q)) = Empty
                       /\ \A q \in Rows \ Done(i) :
                            CellsOf(d.staged, Existing(q)) = CellsOf(s, Existing(q))
<1>1. /\ N \in Nat /\ n \in Nat
      /\ \A q \in Rows : q \in Nat /\ q < N
  <2>1. Cardinality(Rows) \in Nat /\ Rows = 0..(Cardinality(Rows) - 1)
    BY GridAssumption, FS_CardinalityType
  <2> DEFINE C == Cardinality(Rows)
  <2> HIDE DEF C
  <2>2. N = C + MaxSlots + 1 /\ C \in Nat /\ Rows = 0..(C - 1) /\ MaxSlots \in Nat
    BY <2>1, ChangesAssumption DEF Displayed, C
  <2> HIDE DEF N
  <2> QED
    BY <2>2
<1>2. PICK g : /\ g[0] = c /\ RevertEach(c, rows) = g[N]
               /\ \A i \in 1..N :
                    g[i] = IF i - 1 \in rows THEN RevertOne(g[i - 1], i - 1) ELSE g[i - 1]
  BY RevertLoop
<1> HIDE DEF N
<1> DEFINE G == {i \in 0..N : So(i, g[i])}
<1>3. 0 \in G
  <2>0. \A q \in rows : ~(q < 0)
    BY <1>1
  <2>1. Done(0) = {}
    BY <2>0
  <2> HIDE DEF Done
  <2>2. So(0, c)
    BY <2>1
  <2> HIDE DEF So
  <2> QED
    BY <1>1, <1>2, <2>2
<1>4. ASSUME NEW i \in 1..N, i - 1 \in G PROVE i \in G
  <2> DEFINE q == i - 1
             d == g[q]
             e == g[i]
  <2>0. So(q, d) /\ q \in Nat /\ i \in 0..N /\ i = q + 1
    BY <1>1, <1>4
  <2> HIDE DEF q, d, e
  <2>a. e = IF q \in rows THEN RevertOne(d, q) ELSE d
    BY <1>2 DEF d, e, q
  <2>b. So(i, e) => i \in G
    BY <2>0 DEF e
  <2>c. Done(i) = IF q \in rows THEN Done(q) \cup {q} ELSE Done(q)
    <3>1. \A p \in rows : p < i <=> p < q \/ p = q
      BY <1>1, <2>0
    <3> QED
      BY <3>1
  <2>d. \A p \in Done(q) : p \in rows /\ p # q
    BY <1>1, <2>0
  <2> HIDE DEF Done, G
  <2>1. CASE q \notin rows
    <3>1. So(i, e)
      BY <2>0, <2>a, <2>c, <2>1
    <3> QED
      BY <2>b, <3>1
  <2>2. CASE q \in rows
    <3>1. q \in Rows /\ q \notin Done(q) /\ Done(i) = Done(q) \cup {q}
      BY <2>2, <2>c, <2>d
    <3>2. d \in Sets(n)
      BY <2>0
    <3>3. e = RevertOne(d, q)
      BY <2>2, <2>a
    <3>4. e \in Sets(n)
      BY <3>1, <3>2, <3>3, RevertOneIs
    <3>5. e.staged.inserts = d.staged.inserts
      BY <3>1, <3>2, <3>3, RevertOneIs
    <3>6. e.staged.deletes = d.staged.deletes \ {q}
      BY <3>1, <3>2, <3>3, RevertOneIs
    <3>7. CellsOf(e.staged, Existing(q)) = Empty
      BY <3>1, <3>2, <3>3, RevertOneIs
    <3>8. \A p \in Rows \ {q} : CellsOf(e.staged, Existing(p)) = CellsOf(d.staged, Existing(p))
      BY <3>1, <3>2, <3>3, RevertOneIs
    <3>9. e.staged.deletes = s.deletes \ Done(i)
      BY <2>0, <3>1, <3>6
    <3>10. ASSUME NEW p \in Done(i) PROVE CellsOf(e.staged, Existing(p)) = Empty
      <4>1. CASE p = q
        BY <3>7, <4>1
      <4>2. CASE p # q
        <5>1. p \in Done(q) /\ p \in Rows \ {q}
          BY <2>d, <3>1, <4>2
        <5> QED
          BY <2>0, <3>8, <5>1
      <4> QED
        BY <4>1, <4>2
    <3>11. ASSUME NEW p \in Rows \ Done(i)
           PROVE  CellsOf(e.staged, Existing(p)) = CellsOf(s, Existing(p))
      <4>1. p \in Rows \ Done(q) /\ p \in Rows \ {q}
        BY <3>1
      <4> QED
        BY <2>0, <3>8, <4>1
    <3>12. So(i, e)
      BY <2>0, <3>4, <3>5, <3>9, <3>10, <3>11
    <3> QED
      BY <2>b, <3>12
  <2> QED
    BY <2>1, <2>2
<1> HIDE DEF G
<1>5. \A i \in 0..N : i \in G
  BY <1>1, <1>3, <1>4, UpTo
<1>6. So(N, g[N])
  <2> HIDE DEF So
  <2> QED
    BY <1>1, <1>5 DEF G
<1>7. Done(N) = rows
  BY <1>1
<1> HIDE DEF Done
<1> DEFINE d == RevertEach(c, rows)
<1>8. /\ d \in Sets(n)
      /\ d.staged.inserts = s.inserts
      /\ d.staged.deletes = s.deletes \ rows
      /\ \A q \in rows : CellsOf(d.staged, Existing(q)) = Empty
      /\ \A q \in Rows \ rows : CellsOf(d.staged, Existing(q)) = CellsOf(s, Existing(q))
  BY <1>2, <1>6, <1>7
<1> HIDE DEF d
<1>9. \A q \in DOMAIN d.staged.edits : d.staged.edits[q] # Empty
  BY <1>8, SetParts, SoundParts
<1>10. \A q \in rows : q \notin DOMAIN d.staged.edits
  <2>1. \A q \in DOMAIN d.staged.edits : CellsOf(d.staged, Existing(q)) = d.staged.edits[q]
    BY DEF CellsOf, Existing
  <2> QED
    BY <1>8, <1>9, <2>1
<1> QED
  BY <1>8, <1>10 DEF d

(***************************************************************************)
(* The grid's invariant, action by action.                                 *)
(***************************************************************************)
GridInv ==
    /\ pending.next_slot \in 0..MaxSlots /\ pending \in Sets(pending.next_slot)
    /\ editable \in BOOLEAN
    /\ selection \in SUBSET (0..Displayed) /\ cursor \in 0..Displayed
    /\ editing \in [row : 0..Displayed, column : Columns] \cup {NoEdit}
    /\ ~editable => pending = NewChanges /\ editing = NoEdit

\* A new change set.
LEMMA NewSound ==
  /\ NewChanges.next_slot \in 0..MaxSlots /\ NewChanges \in Sets(NewChanges.next_slot)
  /\ NewChanges.staged = EmptyContents
  /\ UndoStep(NewChanges) = NewChanges /\ RedoStep(NewChanges) = NewChanges
<1>1. Empty \in [{} -> Cells]
  BY DEF Empty
<1>2. Empty \in Partial(Rows, Cells) /\ Empty \in Partial(Slots, Cells) /\ DOMAIN Empty = {}
  BY <1>1, EmptyCells DEF Partial
<1>3. EmptyContents \in Sound(0)
  BY <1>2, SoundFrom DEF EmptyContents
<1> HIDE DEF EmptyContents
<1>4. NewChanges \in Sets(0) /\ NewChanges.staged = EmptyContents /\ NewChanges.next_slot = 0
  BY <1>3 DEF NewChanges, Sets
<1>5. NewChanges.undo = <<>> /\ NewChanges.redo = <<>>
  BY DEF NewChanges
<1>6. UndoStep(NewChanges) = NewChanges /\ RedoStep(NewChanges) = NewChanges
  BY <1>5 DEF UndoStep, RedoStep
<1> QED
  BY <1>4, <1>6, ChangesAssumption

\* The bound on the display rows.
LEMMA Screen ==
  ASSUME NEW n \in 0..MaxSlots, NEW s \in Sound(n)
  PROVE  /\ Displayed \in Nat /\ RowCount(s) \in 0..Displayed
         /\ {0} \cap Rows \in SUBSET (0..Displayed)
<1> DEFINE C == Cardinality(Rows)
           K == Cardinality(DOMAIN s.inserts)
<1>1. C \in Nat /\ MaxSlots \in Nat /\ K \in 0..n
  BY Counts
<1>2. RowCount(s) = C + K /\ Displayed = C + MaxSlots
  BY DEF RowCount, Displayed
<1> HIDE DEF C, K
<1> QED
  BY <1>1, <1>2

\* What the open cell editor leaves.
LEMMA StagedSound ==
  ASSUME GridInv, NEW value \in Values
  PROVE  /\ Staged(value) \in Sets(pending.next_slot)
         /\ editing = NoEdit => Staged(value) = pending
<1> DEFINE n == pending.next_slot
           s == pending.staged
<1>1. n \in 0..MaxSlots /\ n \in Nat /\ pending \in Sets(n) /\ s \in Sound(n)
  BY SetParts, ChangesAssumption DEF GridInv
<1>2. editing = NoEdit => Staged(value) = pending
  BY DEF Staged
<1>3. ASSUME editing # NoEdit PROVE Staged(value) \in Sets(n)
  <2> DEFINE row == editing.row
             target == RowRef(s, row)
  <2>1. row \in 0..Displayed /\ editing.column \in Columns
    BY <1>3 DEF GridInv
  <2>2. row \in Nat
    BY <2>1, <1>1, Screen
  <2>3. Staged(value) = SetCellAt(pending, row, editing.column, value)
    BY <1>3 DEF Staged
  <2>4. DOMAIN s.inserts \subseteq Slots
    BY <1>1, SoundParts, PartialType
  <2>5. target = NoRow \/ target \in RowRefs
    BY <1>1, <2>2, <2>4, RowRefType DEF RowRefs, Existing, New
  <2>6. CASE target = NoRow
    BY <1>1, <2>3, <2>6 DEF SetCellAt
  <2>7. CASE target # NoRow
    <3>1. Staged(value) = SetCell(pending, target, editing.column, value)
      BY <2>3, <2>7 DEF SetCellAt
    <3>2. target \in RowRefs
      BY <2>5, <2>7
    <3> HIDE DEF target
    <3> QED
      BY <1>1, <2>1, <3>1, <3>2, SetCellSound
  <2> QED
    BY <2>6, <2>7
<1> QED
  BY <1>1, <1>2, <1>3

\* A change set that names no more slots is well formed after a gesture.
LEMMA TouchedInv ==
  ASSUME GridInv, NEW c \in Sets(pending.next_slot), pending' = c
  PROVE  /\ pending'.next_slot \in 0..MaxSlots /\ pending' \in Sets(pending'.next_slot)
         /\ pending'.staged \in Sound(pending'.next_slot)
BY SetParts DEF GridInv

\* A press keeps the invariant.
LEMMA SelectInv == GridInv /\ Select => GridInv'
<1> SUFFICES ASSUME GridInv, Select PROVE GridInv'
  OBVIOUS
<1>1. PICK value \in Values : pending' = Staged(value)
  BY DEF Select, Touch
<1>2. Staged(value) \in Sets(pending.next_slot) /\ (editing = NoEdit => pending' = pending)
  BY <1>1, StagedSound
<1>3. /\ pending'.next_slot \in 0..MaxSlots /\ pending' \in Sets(pending'.next_slot)
      /\ pending'.staged \in Sound(pending'.next_slot)
  BY <1>1, <1>2, TouchedInv
<1> DEFINE top == RowCount(pending'.staged) - 1
<1>4. PICK lo \in 0..top, hi \in 0..top : selection' = lo..hi /\ cursor' \in {lo, hi} /\ lo <= hi
  BY DEF Select
<1>5. Displayed \in Nat /\ RowCount(pending'.staged) \in 0..Displayed
  BY <1>3, Screen
<1>6. selection' \in SUBSET (0..Displayed) /\ cursor' \in 0..Displayed
  BY <1>4, <1>5
<1> QED
  BY <1>2, <1>3, <1>6 DEF GridInv, Select, NoEdit

\* Opening, closing and staging the cell editor keep the invariant.
LEMMA EditorInv == GridInv /\ (BeginEdit \/ StageEdit \/ CancelEdit) => GridInv'
<1> SUFFICES ASSUME GridInv, BeginEdit \/ StageEdit \/ CancelEdit PROVE GridInv'
  OBVIOUS
<1>1. CASE BeginEdit
  BY <1>1 DEF BeginEdit, GridInv
<1>2. CASE StageEdit
  <2>1. PICK value \in Values : pending' = Staged(value)
    BY <1>2 DEF StageEdit, Touch
  <2>2. Staged(value) \in Sets(pending.next_slot)
    BY StagedSound
  <2>3. pending'.next_slot \in 0..MaxSlots /\ pending' \in Sets(pending'.next_slot)
    BY <2>1, <2>2, TouchedInv
  <2> QED
    BY <1>2, <2>3 DEF GridInv, StageEdit
<1>3. CASE CancelEdit
  BY <1>3 DEF CancelEdit, GridInv
<1> QED
  BY <1>1, <1>2, <1>3

\* Adding a row keeps the invariant.
LEMMA AddRowInv == GridInv /\ AddRow => GridInv'
<1> SUFFICES ASSUME GridInv, AddRow PROVE GridInv'
  OBVIOUS
<1> DEFINE n == pending.next_slot
<1>1. n \in Slots /\ pending \in Sets(n) /\ n \in Nat /\ n + 1 \in 0..MaxSlots
  BY ChangesAssumption DEF GridInv, AddRow, Slots
<1>2. pending' = InsertRow(pending)
  BY DEF AddRow, Touch
<1> HIDE DEF n
<1>3. pending' \in Sets(n + 1)
  BY <1>1, <1>2, InsertSound
<1>4. DOMAIN pending'.staged.inserts = DOMAIN pending.staged.inserts \cup {n}
  BY <1>1, <1>2, InsertSound
<1>5. pending'.next_slot = n + 1 /\ pending'.staged \in Sound(n + 1)
  BY <1>3, SetParts
<1> DEFINE K == Cardinality(DOMAIN pending'.staged.inserts)
           C == Cardinality(Rows)
<1>6. K # 0
  <2>1. IsFiniteSet(DOMAIN pending'.staged.inserts)
    BY <1>1, <1>5, Counts
  <2>2. n \in DOMAIN pending'.staged.inserts
    BY <1>4
  <2> QED
    BY <2>1, <2>2, FS_EmptySet
<1>7. K \in 0..(n + 1) /\ C \in Nat /\ RowCount(pending'.staged) = C + K
  BY <1>1, <1>5, Counts DEF RowCount
<1>8. Displayed \in Nat /\ RowCount(pending'.staged) \in 0..Displayed
  BY <1>1, <1>5, Screen
<1> HIDE DEF K, C
<1>9. cursor' = RowCount(pending'.staged) - 1 /\ selection' = {cursor'}
  BY DEF AddRow
<1>10. cursor' \in 0..Displayed
  BY <1>1, <1>6, <1>7, <1>8, <1>9
<1>11. selection' \in SUBSET (0..Displayed)
  BY <1>9, <1>10
<1> QED
  BY <1>1, <1>3, <1>5, <1>10, <1>11 DEF GridInv, AddRow

\* The rows a gesture is about.
LEMMA SelectedType ==
  ASSUME GridInv
  PROVE  SelectedRows \in SUBSET (0..Displayed)
BY DEF GridInv, SelectedRows

\* Deleting and reverting rows keep the invariant.
LEMMA RowsInv == GridInv /\ (DeleteRows \/ RevertRows) => GridInv'
<1> SUFFICES ASSUME GridInv, DeleteRows \/ RevertRows PROVE GridInv'
  OBVIOUS
<1> DEFINE n == pending.next_slot
<1>1. n \in 0..MaxSlots /\ pending \in Sets(n)
  BY DEF GridInv
<1>2. CASE DeleteRows
  <2> DEFINE marked == SelectedRows \subseteq pending.staged.deletes
  <2>1. pending' = DeleteEach(pending, SelectedRows, marked)
    BY <1>2 DEF DeleteRows, Touch
  <2>2. marked \in BOOLEAN
    OBVIOUS
  <2> HIDE DEF marked
  <2>3. DeleteEach(pending, SelectedRows, marked) \in Sets(n)
    BY <1>1, <2>2, DeleteEachSound
  <2>4. pending'.next_slot \in 0..MaxSlots /\ pending' \in Sets(pending'.next_slot)
    BY <2>1, <2>3, TouchedInv
  <2> QED
    BY <1>2, <2>4 DEF GridInv, DeleteRows
<1>3. CASE RevertRows
  <2>1. pending' = RevertEach(pending, SelectedRows)
    BY <1>3 DEF RevertRows, Touch
  <2>2. RevertEach(pending, SelectedRows) \in Sets(n)
    BY <1>1, RevertEachSound
  <2>3. pending'.next_slot \in 0..MaxSlots /\ pending' \in Sets(pending'.next_slot)
    BY <2>1, <2>2, TouchedInv
  <2>4. ~editable => pending' = NewChanges
    BY <2>1, RevertNothing DEF GridInv
  <2> QED
    BY <1>3, <2>3, <2>4 DEF GridInv, RevertRows
<1> QED
  BY <1>2, <1>3

\* Undo and redo keep the invariant.
LEMMA StepsInv == GridInv /\ (UndoEdit \/ RedoEdit) => GridInv'
<1> SUFFICES ASSUME GridInv, UndoEdit \/ RedoEdit PROVE GridInv'
  OBVIOUS
<1>1. PICK c \in {UndoStep(pending), RedoStep(pending)} :
        /\ pending' = c /\ cursor' = Clamped(pending'.staged)
        /\ UNCHANGED <<editable, selection, editing>>
  BY DEF UndoEdit, RedoEdit
<1>2. c \in Sets(pending.next_slot)
  <2>1. pending.next_slot \in Nat /\ pending \in Sets(pending.next_slot)
    BY ChangesAssumption DEF GridInv
  <2> QED
    BY <2>1, StepsSound
<1>3. /\ pending'.next_slot \in 0..MaxSlots /\ pending' \in Sets(pending'.next_slot)
      /\ pending'.staged \in Sound(pending'.next_slot)
  BY <1>1, <1>2, TouchedInv
<1>4. Displayed \in Nat /\ RowCount(pending'.staged) \in 0..Displayed
  BY <1>3, Screen
<1>5. cursor' \in 0..Displayed
  <2> DEFINE k == RowCount(pending'.staged)
  <2>1. cursor' \in {cursor, k - 1, 0} /\ (cursor' = k - 1 => k > 0 \/ cursor' \in {cursor, 0})
    BY <1>1 DEF Clamped
  <2>2. cursor \in 0..Displayed
    BY DEF GridInv
  <2> HIDE DEF k
  <2> QED
    BY <1>4, <2>1, <2>2 DEF k
<1>6. ~editable => pending' = NewChanges
  BY <1>1, NewSound DEF GridInv
<1> QED
  BY <1>1, <1>3, <1>5, <1>6 DEF GridInv

\* Discarding, locking, unlocking and other rows keep the invariant.
LEMMA ReplacedInv == GridInv /\ (DiscardChanges \/ SetEditable \/ SetData) => GridInv'
<1> SUFFICES ASSUME GridInv, DiscardChanges \/ SetEditable \/ SetData PROVE GridInv'
  OBVIOUS
<1>1. NewChanges.next_slot \in 0..MaxSlots /\ NewChanges \in Sets(NewChanges.next_slot)
  BY NewSound
<1> HIDE DEF NewChanges
<1>2. CASE DiscardChanges
  BY <1>1, <1>2 DEF GridInv, DiscardChanges
<1>3. CASE SetEditable
  BY <1>1, <1>3 DEF GridInv, SetEditable
<1>4. CASE SetData
  <2>1. Displayed \in Nat /\ {0} \cap Rows \in SUBSET (0..Displayed)
    <3>1. 0 \in 0..MaxSlots /\ EmptyContents \in Sound(NewChanges.next_slot)
      BY NewSound, SetParts, ChangesAssumption
    <3> QED
      BY <1>1, <3>1, Screen
  <2>2. pending' \in {pending, NewChanges}
    BY <1>4 DEF SetData
  <2>3. ~editable => pending' = NewChanges
    BY <2>2 DEF GridInv
  <2>4. pending'.next_slot \in 0..MaxSlots /\ pending' \in Sets(pending'.next_slot)
    BY <1>1, <2>2 DEF GridInv
  <2> QED
    BY <1>4, <2>1, <2>3, <2>4 DEF GridInv, SetData
<1> QED
  BY <1>2, <1>3, <1>4

\* The invariant holds of a new grid, and of whatever a gesture leaves.
LEMMA GridStepInv == (GridInit => GridInv) /\ (GridInv /\ [GridNext]_gridVars => GridInv')
<1>1. ASSUME GridInit PROVE GridInv
  <2>1. NewChanges.next_slot \in 0..MaxSlots /\ NewChanges \in Sets(NewChanges.next_slot)
    BY NewSound
  <2> HIDE DEF NewChanges
  <2>2. Displayed \in Nat /\ {0} \cap Rows \in SUBSET (0..Displayed)
    <3>1. EmptyContents \in Sound(NewChanges.next_slot)
      BY NewSound, SetParts
    <3> QED
      BY <2>1, <3>1, Screen
  <2>3. /\ pending = NewChanges /\ editable = FALSE /\ editing = NoEdit
        /\ selection = {0} \cap Rows /\ cursor = 0
    BY <1>1 DEF GridInit
  <2>4. cursor \in 0..Displayed
    BY <2>2, <2>3
  <2>5. selection \in SUBSET (0..Displayed)
    BY <2>2, <2>3
  <2> QED
    BY <2>1, <2>3, <2>4, <2>5 DEF GridInv
<1>2. GridInv /\ UNCHANGED gridVars => GridInv'
  BY DEF GridInv, gridVars
<1> QED
  BY <1>1, <1>2, SelectInv, EditorInv, AddRowInv, RowsInv, StepsInv, ReplacedInv DEF GridNext

\* Every state of the grid is well typed, names the rows on its screen, and is
\* clean when it is locked.
LEMMA GridStates == GridInv => GridTypeOK /\ RowsAreThere /\ LockedIsClean
<1> SUFFICES ASSUME GridInv PROVE GridTypeOK /\ RowsAreThere /\ LockedIsClean
  OBVIOUS
<1> DEFINE n == pending.next_slot
           s == pending.staged
<1>1. n \in 0..MaxSlots /\ s \in Sound(n)
  BY SetParts DEF GridInv
<1>2. RowsAreThere
  BY <1>1, ScreenNames
<1>3. /\ s.deletes \in SUBSET Rows /\ s.edits \in Partial(Rows, Cells)
      /\ DOMAIN s.inserts \subseteq 0..(n - 1)
  BY <1>1, SoundParts
<1>4. DOMAIN s.edits \subseteq Rows
  BY <1>3, PartialType
<1>5. GridTypeOK
  BY <1>3, <1>4 DEF GridInv, GridTypeOK
<1>6. LockedIsClean
  BY NewSound DEF GridInv, LockedIsClean
<1> QED
  BY <1>2, <1>5, <1>6

\* What a revert of rows that exist leaves.
LEMMA RevertStep ==
  ASSUME GridInv, RevertRows, SelectedRows \subseteq Rows
  PROVE  LET before == pending.staged
             after == pending'.staged
         IN /\ SelectedRows \cap (DOMAIN after.edits \cup after.deletes) = {}
            /\ \A r \in Rows \ SelectedRows :
                 /\ CellsOf(after, Existing(r)) = CellsOf(before, Existing(r))
                 /\ (r \in after.deletes) = (r \in before.deletes)
            /\ after.inserts = before.inserts
<1> DEFINE rows == SelectedRows
           d == RevertEach(pending, rows)
           s == pending.staged
<1>1. pending.next_slot \in 0..MaxSlots /\ pending \in Sets(pending.next_slot)
  BY DEF GridInv
<1>2. rows \in SUBSET Rows
  OBVIOUS
<1>3. pending' = d
  BY DEF RevertRows, Touch
<1> HIDE DEF rows
<1>4. /\ d.staged.inserts = s.inserts /\ d.staged.deletes = s.deletes \ rows
      /\ rows \cap DOMAIN d.staged.edits = {}
      /\ \A q \in Rows \ rows : CellsOf(d.staged, Existing(q)) = CellsOf(s, Existing(q))
  BY <1>1, <1>2, RevertEachIs
<1> HIDE DEF d
<1>5. rows \cap (DOMAIN d.staged.edits \cup d.staged.deletes) = {}
  BY <1>4
<1>6. \A r \in Rows \ rows : (r \in d.staged.deletes) = (r \in s.deletes)
  BY <1>4
<1> QED
  BY <1>3, <1>4, <1>5, <1>6 DEF rows

\* What a deletion leaves.
LEMMA DeleteStep ==
  ASSUME GridInv, DeleteRows, \A p, q \in SelectedRows \ Rows : p = q
  PROVE  LET before == pending.staged
             after == pending'.staged
             slots == {k \in DOMAIN before.inserts :
                         \E r \in SelectedRows \ Rows : RowRef(before, r) = New(k)}
         IN /\ after.edits = before.edits
            /\ after.inserts = [k \in DOMAIN before.inserts \ slots |-> before.inserts[k]]
            /\ after.deletes = IF SelectedRows \subseteq before.deletes
                                THEN before.deletes \ SelectedRows
                                ELSE before.deletes \cup (SelectedRows \cap Rows)
<1> DEFINE rows == SelectedRows
           s == pending.staged
           marked == rows \subseteq s.deletes
           d == DeleteEach(pending, rows, marked)
           slots == {k \in DOMAIN s.inserts : \E r \in rows \ Rows : RowRef(s, r) = New(k)}
<1>1. pending.next_slot \in 0..MaxSlots /\ pending \in Sets(pending.next_slot)
  BY DEF GridInv
<1>2. rows \in SUBSET (0..Displayed) /\ \A p, q \in rows \ Rows : p = q
  BY SelectedType
<1>3. pending' = d
  BY DEF DeleteRows, Touch
<1>4. marked \in BOOLEAN /\ (marked => rows \subseteq s.deletes)
  OBVIOUS
<1> HIDE DEF rows, marked
<1>5. Deleted(s, d.staged, rows, marked)
  BY <1>1, <1>2, <1>4, DeleteEachIs
<1> HIDE DEF d, s
<1>6. /\ d.staged.edits = s.edits
      /\ d.staged.inserts = [k \in DOMAIN s.inserts \ slots |-> s.inserts[k]]
  BY <1>5 DEF Deleted
<1>7. marked => d.staged.deletes = s.deletes \ rows
  BY <1>5 DEF Deleted
<1>8. ~marked => d.staged.deletes = s.deletes \cup (rows \cap Rows)
  BY <1>5 DEF Deleted
<1>9. d.staged.deletes = IF rows \subseteq s.deletes THEN s.deletes \ rows
                         ELSE s.deletes \cup (rows \cap Rows)
  BY <1>7, <1>8 DEF marked
<1> QED
  BY <1>3, <1>6, <1>9 DEF rows, s

\* The grid does what it says, for any rows, columns, values and number of
\* steps: its display rows name each a row of their own, a locked grid is clean,
\* a revert takes off the rows that exist what was staged on them, a deletion
\* marks and drops what is selected, and what was staged ends with its rows
\* (state.rs, row_ref_in, set_editable, revert_rows, delete_rows, set_data_arc).
THEOREM GridEditsHold == GridSpec => GridHolds
<1>1. GridInit => GridInv
  BY GridStepInv
<1>2. GridInv /\ [GridNext]_gridVars => GridInv'
  BY GridStepInv
<1>3. GridInv => GridTypeOK /\ RowsAreThere /\ LockedIsClean
  BY GridStates
<1>4. GridInv =>
        [RevertRows /\ SelectedRows \subseteq Rows =>
           LET before == pending.staged
               after == pending'.staged
           IN /\ SelectedRows \cap (DOMAIN after.edits \cup after.deletes) = {}
              /\ \A r \in Rows \ SelectedRows :
                   /\ CellsOf(after, Existing(r)) = CellsOf(before, Existing(r))
                   /\ (r \in after.deletes) = (r \in before.deletes)
              /\ after.inserts = before.inserts]_gridVars
  BY RevertStep
<1>5. GridInv =>
        [DeleteRows /\ (\A p, q \in SelectedRows \ Rows : p = q) =>
           LET before == pending.staged
               after == pending'.staged
               slots == {k \in DOMAIN before.inserts :
                           \E r \in SelectedRows \ Rows : RowRef(before, r) = New(k)}
           IN /\ after.edits = before.edits
              /\ after.inserts = [k \in DOMAIN before.inserts \ slots |-> before.inserts[k]]
              /\ after.deletes = IF SelectedRows \subseteq before.deletes
                                  THEN before.deletes \ SelectedRows
                                  ELSE before.deletes \cup (SelectedRows \cap Rows)]_gridVars
  BY DeleteStep
<1>6. [SetData /\ pending.staged # EmptyContents =>
         \A c \in {UndoStep(pending'), RedoStep(pending')} : c.staged = EmptyContents]_gridVars
  <2> SUFFICES ASSUME SetData, pending.staged # EmptyContents
               PROVE  \A c \in {UndoStep(pending'), RedoStep(pending')} : c.staged = EmptyContents
    OBVIOUS
  <2>1. pending' = NewChanges
    BY DEF SetData
  <2> QED
    BY <2>1, NewSound
<1> QED
  BY <1>1, <1>2, <1>3, <1>4, <1>5, <1>6, PTL
     DEF GridSpec, GridHolds, RevertsExisting, DeletesSelected, StagedEndsWithItsRows
=============================================================================
