----------------------------- MODULE TableDesign -----------------------------
(***************************************************************************)
(* Designing a table: the editor of tupli/src/structure.rs, which types    *)
(* into a draft, and sqlgen/src/table.rs, which says what would make the   *)
(* server agree with it.  A column of the draft carries the name it has on *)
(* the server, its origin, so that a rename is told from a drop and an     *)
(* add.  A save is one transaction; what the table is afterwards is read   *)
(* from the catalog.                                                       *)
(*                                                                         *)
(* Texts are compared trimmed and are trimmed here.  What PostgreSQL makes *)
(* of a statement is external, and only as much of it as names and keys    *)
(* need: it may refuse any save for reasons of its own (a cast, a null in  *)
(* a column).  Its key is the set of its columns: their order is not read  *)
(* from the catalog.  A save whose answer is lost is module Commit's.      *)
(***************************************************************************)
EXTENDS Naturals, Sequences, FiniteSets, SequencesExt

CONSTANTS
    None,       \* Option::None
    Tables,     \* the tables there may be at first
    ColumnNames, TableNames, TypeNames, Defaults, Comments,  \* what is typed
    Others,     \* the columns other clients add
    MaxSteps,   \* bound: things the user does
    MaxForeign  \* bound: columns other clients add

NoText == ""

VARIABLES
    reference,  \* the table being edited, None for one that is not there yet
    original, draft,
    editing,    \* the field that is open
    input,      \* what is in it
    before,     \* and was when it was opened
    preview,    \* the statements on the sheet, and the drafts they were made of
    pending,    \* a save that waits for its answer, then for the catalog
    sent,       \* the statements at the server
    reading,    \* the catalog is being read
    tables,     \* the tables of the server
    snapshot,   \* as they were last read
    added,      \* columns other clients added that the editor has not seen
    doings

tdVars == <<reference, original, draft, editing, input, before, preview, pending, sent, reading,
            tables, snapshot, added, doings>>
field == <<editing, input, before>>
world == <<tables, snapshot, added>>
save == <<preview, pending, sent, reading>>

(***************************************************************************)
(* The draft.                                                              *)
(***************************************************************************)
\* ColumnDraft::of.  A server-owned column has no default to show.
ColumnOf(column, is_pk) ==
    [origin |-> column.name, name |-> column.name, type_name |-> column.type_name,
     nullable |-> column.nullable, default |-> IF column.owned THEN NoText ELSE column.default,
     is_pk |-> is_pk, owned |-> column.owned, comment |-> column.comment]

NewColumn == [origin |-> None, name |-> NoText, type_name |-> NoText, nullable |-> TRUE,
              default |-> NoText, is_pk |-> FALSE, owned |-> FALSE, comment |-> NoText]

\* TableDraft::of.
DraftOf(table) ==
    [name |-> table.name, comment |-> table.comment, keyed |-> table.key # {},
     columns |-> [i \in DOMAIN table.columns |->
                    ColumnOf(table.columns[i], table.columns[i].name \in table.key)]]

\* TableDraft::blank: one identity column, the key.
Blank ==
    [name |-> NoText, comment |-> NoText, keyed |-> FALSE,
     columns |-> <<[NewColumn EXCEPT !.name = "id", !.type_name = "t", !.nullable = FALSE,
                                     !.is_pk = TRUE, !.owned = TRUE]>>]

DefaultDraft == [name |-> NoText, comment |-> NoText, keyed |-> FALSE, columns |-> <<>>]

\* key: the key columns, in the order they are listed.
KeyList(d) == LET listed == SelectSeq(d.columns, LAMBDA c : c.is_pk)
              IN [i \in DOMAIN listed |-> listed[i].name]
Key(d) == Range(KeyList(d))

\* problems.
Problems(d) ==
    \/ d.name = NoText
    \/ d.columns = <<>>
    \/ \E i \in DOMAIN d.columns :
          \/ d.columns[i].name = NoText \/ d.columns[i].type_name = NoText
          \/ \E j \in 1..(i - 1) : d.columns[j].name = d.columns[i].name

(***************************************************************************)
(* The statements.                                                         *)
(***************************************************************************)
\* column_suffix, with the name and the type before it.
Definition(c) ==
    [name |-> c.name, type_name |-> c.type_name, nullable |-> c.nullable,
     default |-> IF c.owned THEN NoText ELSE c.default, owned |-> c.owned, comment |-> NoText]

\* The column of d that came from the server's column `origin'.
Was(d, origin) ==
    LET found == SelectSeq(d.columns, LAMBDA c : c.origin = origin)
    IN IF origin = None \/ found = <<>> THEN None ELSE found[1]

\* One statement for each column that has one, in the order of the list.
ForEach(columns, Statement(_)) == FlattenSeq([i \in DOMAIN columns |-> Statement(columns[i])])

When(condition, statement) == IF condition THEN <<statement>> ELSE <<>>

\* comment_statements: a column that was not there had nothing said of it.
CommentStatements(d, was) ==
    LET Said(c) == LET old == IF was = None THEN None ELSE Was(was, c.origin)
                   IN IF old = None THEN NoText ELSE old.comment
    IN When(d.comment # (IF was = None THEN NoText ELSE was.comment),
            [what |-> "about", text |-> d.comment])
       \o ForEach(d.columns, LAMBDA c :
            When(c.comment # Said(c), [what |-> "comment", column |-> c.name, text |-> c.comment]))

\* create.
Create(d) ==
    <<[what |-> "create", name |-> d.name, key |-> Key(d),
       columns |-> [i \in DOMAIN d.columns |-> Definition(d.columns[i])]]>>
    \o CommentStatements(d, None)

Renames(d) == ForEach(d.columns, LAMBDA c :
    When(c.origin # None /\ c.name # c.origin,
         [what |-> "rename", column |-> c.origin, to |-> c.name]))

Drops(was, d) == ForEach(was.columns, LAMBDA c :
    When(c.origin # None /\ Was(d, c.origin) = None, [what |-> "drop", column |-> c.origin]))

Adds(d) == ForEach(d.columns, LAMBDA c :
    When(c.origin = None, [what |-> "add", column |-> c.name, as |-> Definition(c)]))

Changes(was, d) == ForEach(d.columns, LAMBDA c :
    LET old == Was(was, c.origin)
    IN IF old = None THEN <<>>
       ELSE When(c.type_name # old.type_name,
                 [what |-> "type", column |-> c.name, to |-> c.type_name])
            \o When(c.nullable # old.nullable,
                    [what |-> "null", column |-> c.name, to |-> c.nullable])
            \o When(c.default # old.default,
                    [what |-> "default", column |-> c.name, to |-> c.default]))

\* The key is replaced whole when its names, in order, differ.
KeyStatements(was, d) ==
    IF KeyList(was) = KeyList(d) THEN <<>>
    ELSE When(was.keyed, [what |-> "unkey"]) \o When(Key(d) # {}, [what |-> "key", columns |-> Key(d)])

Called(was, d) == When(d.name # was.name, [what |-> "called", to |-> d.name])

\* alter: renames, drops, adds, changes, the key, comments, the table's name.
Alter(was, d) ==
    Renames(d) \o Drops(was, d) \o Adds(d) \o Changes(was, d) \o KeyStatements(was, d)
    \o CommentStatements(d, was) \o Called(was, d)

(***************************************************************************)
(* What the server makes of them.                                          *)
(***************************************************************************)
Refused == [refused |-> TRUE]
Names(t) == {t.columns[i].name : i \in DOMAIN t.columns}
Mapped(t, n, Change(_)) ==
    [t EXCEPT !.columns = [i \in DOMAIN @ |-> IF @[i].name = n THEN Change(@[i]) ELSE @[i]]]

\* A statement on table t, the names of the other tables being taken.
Allowed(t, s, taken) ==
    CASE s.what = "create" -> s.name \notin taken
      [] s.what \in {"type", "comment", "drop"} -> s.column \in Names(t)
      [] s.what = "rename" -> s.column \in Names(t) /\ s.to \notin Names(t)
      [] s.what = "add" -> s.column \notin Names(t)
      [] s.what \in {"null", "default"} ->
           /\ s.column \in Names(t)
           /\ \A c \in Range(t.columns) : c.name = s.column => ~c.owned
           /\ s.what = "null" /\ s.to => s.column \notin t.key
      [] s.what = "unkey" -> t.key # {}
      [] s.what = "key" -> t.key = {} /\ s.columns \subseteq Names(t)
      [] s.what = "called" -> s.to \notin taken
      [] s.what = "about" -> TRUE

Without(t, n) ==
    [t EXCEPT !.columns = SelectSeq(@, LAMBDA c : c.name # n), !.key = IF n \in @ THEN {} ELSE @]

Rekeyed(t, key) ==
    [t EXCEPT !.key = key,
              !.columns = [i \in DOMAIN @ |-> [@[i] EXCEPT !.nullable = @ /\ t.columns[i].name \notin key]]]

Done(t, s) ==
    CASE s.what = "create" ->
           Rekeyed([name |-> s.name, comment |-> NoText, key |-> {}, columns |-> s.columns], s.key)
      [] s.what = "rename" ->
           [Mapped(t, s.column, LAMBDA c : [c EXCEPT !.name = s.to]) EXCEPT
              !.key = IF s.column \in @ THEN (@ \ {s.column}) \union {s.to} ELSE @]
      [] s.what = "drop" -> Without(t, s.column)
      [] s.what = "add" -> [t EXCEPT !.columns = Append(@, s.as)]
      [] s.what = "type" -> Mapped(t, s.column, LAMBDA c : [c EXCEPT !.type_name = s.to])
      [] s.what = "null" -> Mapped(t, s.column, LAMBDA c : [c EXCEPT !.nullable = s.to])
      [] s.what = "default" -> Mapped(t, s.column, LAMBDA c : [c EXCEPT !.default = s.to])
      [] s.what = "comment" -> Mapped(t, s.column, LAMBDA c : [c EXCEPT !.comment = s.text])
      [] s.what = "unkey" -> [t EXCEPT !.key = {}]
      [] s.what = "key" -> Rekeyed(t, s.columns)
      [] s.what = "called" -> [t EXCEPT !.name = s.to]
      [] s.what = "about" -> [t EXCEPT !.comment = s.text]

\* One transaction: all of them, or none.
Outcome(t, statements, taken) ==
    FoldLeft(LAMBDA sofar, s : IF sofar = Refused \/ ~Allowed(sofar, s, taken) THEN Refused
                               ELSE Done(sofar, s),
             t, statements)
\* The table that is drawn: a key column is never null.
Drawn(d) ==
    [name |-> d.name, comment |-> d.comment, key |-> Key(d),
     columns |-> [i \in DOMAIN d.columns |->
        [Definition(d.columns[i]) EXCEPT !.comment = d.columns[i].comment,
                                         !.nullable = @ /\ ~d.columns[i].is_pk]]]

-----------------------------------------------------------------------------
(***************************************************************************)
(* The editor.                                                             *)
(***************************************************************************)
Slots == {[of |-> 0, field |-> f] : f \in {"name", "comment"}}
         \union {[of |-> i, field |-> f] : i \in DOMAIN draft.columns,
                                           f \in {"name", "type_name", "default", "comment"}}

\* A field is of a column, or of the table, which is 0.  A server-owned
\* column's type and default are shown and cannot be opened.
CanOpen(slot) ==
    slot.field \in {"type_name", "default"} => ~draft.columns[slot.of].owned

Offered(slot) ==
    CASE slot.field = "name" -> (IF slot.of = 0 THEN TableNames ELSE ColumnNames) \union {NoText}
      [] slot.field = "type_name" -> TypeNames \union {NoText}
      [] slot.field = "default" -> Defaults \union {NoText}
      [] slot.field = "comment" -> Comments \union {NoText}

TextOf(d, slot) == IF slot.of = 0 THEN d[slot.field] ELSE d.columns[slot.of][slot.field]
Written(d, slot, text) ==
    IF slot.of = 0 THEN [d EXCEPT ![slot.field] = text]
    ELSE [d EXCEPT !.columns[slot.of][slot.field] = text]

Closed == editing' = None /\ UNCHANGED <<input, before>>
Does == doings < MaxSteps /\ doings' = doings + 1
Editor == UNCHANGED <<reference, original, save, world>>

\* editing, creating, and new: a draft whose columns are all new has nothing
\* on the server to be compared with.
Init ==
    /\ \E some \in Tables :
          /\ tables = [n \in {some.name} |-> some]
          /\ \/ /\ reference = some.name /\ draft = DraftOf(some)
             \/ /\ reference = None /\ draft = Blank
    /\ original = IF \A i \in DOMAIN draft.columns : draft.columns[i].origin = None
                    THEN DefaultDraft ELSE draft
    /\ editing = None /\ input = NoText /\ before = NoText
    /\ preview = None /\ pending = None /\ sent = <<>> /\ reading = FALSE
    /\ snapshot = tables /\ added = {} /\ doings = 0

\* The sheet covers what a pointer can reach and leaves the keys where they
\* were.
Covered == preview # None

OpenField(slot) ==
    /\ ~Covered /\ slot # editing /\ CanOpen(slot)
    /\ editing' = slot /\ input' = TextOf(draft, slot) /\ before' = TextOf(draft, slot)
    /\ UNCHANGED draft /\ Editor /\ Does

\* A key in the open field: absorb.
TypeText(text) ==
    /\ editing # None /\ text \in Offered(editing) \ {input}
    /\ input' = text /\ draft' = Written(draft, editing, text)
    /\ UNCHANGED <<editing, before>> /\ Editor /\ Does

\* Enter, close_field; Escape, revert_field.
Submit == editing # None /\ Closed /\ UNCHANGED draft /\ Editor /\ Does

Escape ==
    /\ editing # None
    /\ draft' = Written(draft, editing, before)
    /\ Closed /\ Editor /\ Does

AddColumn ==
    /\ ~Covered
    /\ draft' = [draft EXCEPT !.columns = Append(@, NewColumn)]
    /\ editing' = [of |-> Len(draft.columns) + 1, field |-> "name"]
    /\ input' = NoText /\ before' = NoText
    /\ Editor /\ Does

\* Slip: the field stays open, over what is now another column.
RemoveColumn_open(i) ==
    /\ ~Covered /\ i \in DOMAIN draft.columns
    /\ draft' = [draft EXCEPT !.columns = RemoveAt(@, i)]
    /\ UNCHANGED field
    /\ Editor /\ Does

RemoveColumn(i) ==
    /\ ~Covered /\ i \in DOMAIN draft.columns
    /\ draft' = [draft EXCEPT !.columns = RemoveAt(@, i)]
    /\ Closed
    /\ Editor /\ Does

ToggleNull(i) ==
    /\ ~Covered /\ i \in DOMAIN draft.columns /\ ~draft.columns[i].owned
    /\ draft' = [draft EXCEPT !.columns[i].nullable = ~@]
    /\ UNCHANGED field /\ Editor /\ Does

\* A column that becomes part of the key cannot be null.
ToggleKey(i) ==
    /\ ~Covered /\ i \in DOMAIN draft.columns
    /\ draft' = [draft EXCEPT !.columns[i].is_pk = ~@,
                              !.columns[i].nullable = @ /\ draft.columns[i].is_pk]
    /\ UNCHANGED field /\ Editor /\ Does

Dirty == draft # original

Revert ==
    /\ ~Covered /\ Dirty
    /\ draft' = original
    /\ Closed /\ Editor /\ Does

\* Save: the sheet.  There is none when nothing would be sent.
Statements == IF reference = None THEN Create(draft) ELSE Alter(original, draft)
Save ==
    /\ ~Covered /\ (reference = None \/ Dirty) /\ ~Problems(draft) /\ Statements # <<>>
    /\ preview' = [statements |-> Statements, drawn |-> draft, of |-> original]
    /\ UNCHANGED <<reference, original, draft, field, pending, sent, reading, world>> /\ Does

CancelPreview ==
    /\ Covered /\ preview' = None
    /\ UNCHANGED <<reference, original, draft, field, pending, sent, reading, world>> /\ Does

\* commit_structure: nothing is sent while the connection is busy, and the
\* sheet is gone all the same.
Busy == sent # <<>> \/ reading
\* The statements were made of the table the server has (ghost).
Abreast ==
    reference # None => reference \in DOMAIN tables /\ tables[reference] = Drawn(preview.of)
CommitStructure ==
    /\ Covered /\ preview' = None
    /\ IF Busy THEN UNCHANGED <<pending, sent>>
       ELSE /\ sent' = preview.statements
            /\ pending' = [from |-> reference, to |-> draft.name,
                           drawn |-> preview.drawn, abreast |-> Abreast]
    /\ UNCHANGED <<reference, original, draft, field, reading, world>> /\ Does

RefreshSchema ==
    /\ ~Busy /\ reading' = TRUE
    /\ UNCHANGED <<reference, original, draft, field, preview, pending, sent, world>> /\ Does
-----------------------------------------------------------------------------
\* The table a save is about, as the server has it, and what becomes of it.
Target == IF pending.from = None \/ pending.from \notin DOMAIN tables THEN Refused
          ELSE tables[pending.from]
Arrived ==
    LET created == sent[1].what = "create"
        start == IF created THEN [refused |-> FALSE] ELSE Target
    IN Outcome(start, sent, IF created THEN DOMAIN tables ELSE DOMAIN tables \ {pending.from})

\* finish_structure.
ApplyFails ==
    /\ sent # <<>>
    /\ sent' = <<>> /\ pending' = None
    /\ UNCHANGED <<reference, original, draft, field, preview, reading, world, doings>>

ApplyLands ==
    /\ sent # <<>> /\ Arrived # Refused
    /\ tables' = [n \in (DOMAIN tables \ {pending.from}) \union {Arrived.name} |->
                    IF n = Arrived.name THEN Arrived ELSE tables[n]]
    /\ sent' = <<>> /\ reading' = TRUE
    /\ UNCHANGED <<reference, original, draft, field, preview, pending, snapshot, added, doings>>

\* adopt_structure, with adopt.  Slip: the draft is left as it was typed, its new
\* columns new still.
Adopt_half(catalog) ==
    IF pending = None \/ pending.to \notin DOMAIN catalog
      THEN UNCHANGED <<reference, original, draft, field, added>>
      ELSE /\ added' = {} /\ reference' = pending.to
           /\ original' = DraftOf(catalog[pending.to])
           /\ Closed /\ UNCHANGED draft

Adopt(catalog) ==
    IF pending = None \/ pending.to \notin DOMAIN catalog
      THEN UNCHANGED <<reference, original, draft, field, added>>
      ELSE /\ added' = {}
           /\ reference' = pending.to
           /\ original' = DraftOf(catalog[pending.to])
           /\ draft' = DraftOf(catalog[pending.to])
           /\ Closed

CatalogLands ==
    /\ reading /\ reading' = FALSE
    /\ snapshot' = tables
    /\ Adopt(tables) /\ pending' = None
    /\ UNCHANGED <<preview, sent, tables, doings>>

CatalogFails ==
    /\ reading /\ reading' = FALSE
    /\ UNCHANGED <<reference, original, draft, field, preview, pending, sent, world, doings>>

\* The statements at the server and on the sheet.
Pending == sent \o (IF Covered THEN preview.statements ELSE <<>>)

\* Another client adds a column, of a name the editor has not heard of.
Foreign(table, name) ==
    /\ Cardinality(added) < MaxForeign
    /\ table \in DOMAIN tables /\ name \notin Names(tables[table])
    /\ \A i \in DOMAIN Pending : Pending[i].what = "drop" => Pending[i].column # name
    /\ \A c \in Range(original.columns) : c.name # name
    /\ tables' = [tables EXCEPT ![table].columns =
                    Append(@, [name |-> name, type_name |-> "t", nullable |-> TRUE,
                               default |-> NoText, owned |-> FALSE, comment |-> NoText])]
    /\ added' = added \union {name}
    /\ UNCHANGED <<reference, original, draft, field, save, snapshot, doings>>

Next ==
    \/ \E slot \in Slots : OpenField(slot)
    \/ \E text \in ColumnNames \union TableNames \union TypeNames \union Defaults \union Comments \union {NoText} :
          TypeText(text)
    \/ Submit \/ Escape \/ AddColumn \/ Revert
    \/ \E i \in DOMAIN draft.columns : RemoveColumn(i) \/ ToggleNull(i) \/ ToggleKey(i)
    \/ Save \/ CancelPreview \/ CommitStructure \/ RefreshSchema
    \/ ApplyFails \/ ApplyLands \/ CatalogLands \/ CatalogFails
    \/ \E table \in TableNames, name \in Others : Foreign(table, name)

Spec == Init /\ [][Next]_tdVars
-----------------------------------------------------------------------------
\* The open field shows the draft's own text, through columns that go, drafts
\* that are put back and tables that are adopted: what is typed next goes where
\* the caret is (structure.rs: "Typing goes straight into the draft").
FieldShowsDraft ==
    editing # None => editing \in Slots /\ CanOpen(editing) /\ input = TextOf(draft, editing)

\* The server's table, as the editor knows it.
Known == Drawn(original)

Said == IF reference = None THEN Outcome([refused |-> FALSE], Create(draft), {})
        ELSE Outcome(Known, Alter(original, draft), {})

\* What Save says makes the table that is drawn, the columns in the order the
\* server adds them in, or is refused (table.rs: "Everything that has to be said
\* to turn `before` into `after`").  Not so when the key has the names it had and
\* is of other columns.
SaysWhatIsDrawn == ~Problems(draft) => Said \in {Refused, Drawn(draft)}

KeyChangesHands ==
    /\ KeyList(draft) = KeyList(original)
    /\ \E c \in Range(draft.columns) : c.is_pk /\ c.origin \notin Key(original)
SaysWhatIsDrawnUnlessKeyChangesHands == SaysWhatIsDrawn \/ KeyChangesHands

\* Three drafts are refused for what they say: a name is taken over from a
\* column that still has it when the rename runs; a key column is dropped, and
\* with it the key that is then to be dropped; or a column is made nullable
\* while it is in the key, which it may be about to leave.
TakesOver ==
    \E i \in DOMAIN draft.columns :
        LET c == draft.columns[i] IN
        /\ c.origin # None /\ c.name # c.origin
        /\ \E o \in Names(Known) : o = c.name /\ ~\E j \in 1..(i - 1) : draft.columns[j].origin = o
DropsFromKey == \E c \in Range(original.columns) : c.is_pk /\ Was(draft, c.origin) = None
FreesFromKey ==
    \E c \in Range(original.columns) :
        c.is_pk /\ Was(draft, c.origin) # None /\ Was(draft, c.origin).nullable
RefusedForAReason ==
    ~Problems(draft) /\ reference # None =>
        ((Said = Refused) = \/ TakesOver
                            \/ DropsFromKey /\ KeyList(draft) # KeyList(original)
                            \/ FreesFromKey /\ ~DropsFromKey)

\* A column that another client added is there after a save (table.rs: "a
\* draft is diffed against the server, and anything already true there produces
\* no statement").
ForeignColumnsStay == added \subseteq UNION {Names(tables[n]) : n \in DOMAIN tables}

\* When a save comes home the editor shows what was saved and nothing is left
\* to save: if nothing was typed since Save, and the table was as the editor
\* knew it (it is not after a catalog that could not be read, or a change of
\* another client's).  A name typed under the sheet is where the editor then
\* looks: commit_structure takes it from the draft, the statements have the one
\* before.
SavedIsShown ==
    reading /\ ~reading' /\ pending # None /\ pending' = None /\ added = {}
    /\ pending.abreast /\ pending.drawn = draft /\ pending.to = draft.name /\ ~KeyChangesHands
      => Drawn(draft') = Drawn(draft) /\ draft' = original'
=============================================================================
