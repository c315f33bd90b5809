-------------------------------- MODULE Import --------------------------------
(***************************************************************************)
(* Rows out of a grid into a delimited file, and a file's rows into a      *)
(* table: the writer and the reader, the sheet that shows what would be    *)
(* written, the statements it is written with, and the log they end in.    *)
(*                                                                         *)
(* A text is a sequence of characters, and an optional value a sequence of *)
(* at most one: <<>> is null.  Names that differ only in case are left out.*)
(***************************************************************************)
EXTENDS Integers, Sequences, FiniteSets, SequencesExt, FiniteSetsExt, TLC

CONSTANTS
    Alphabet, Begun, MaxTyped,  \* what a file can begin with and how far it is typed on
    MaxImported,                \* bound: how far when it is imported as well
    Columns,                    \* the table: a sequence of [name, kind]
    Exported,                   \* what a grid holds when it is exported: [headers, rows]
    Batch, Params,              \* rows a statement takes at most, and parameters
    MaxAsked                    \* bound: other operations of the session

VARIABLES
    file, typed,        \* a file on disk, and the characters typed into it by hand
    exported,           \* what was exported into it, <<>> when it was typed
    sheet,              \* the import sheet, <<>> when it is not up
    activity, note,     \* what the session is doing, and what the window takes it for
    read_only,
    sent,               \* the last import sent: its statements, and the sheet it was confirmed on
    logged, mistaken,   \* what the log was last told, whether an import was dropped before
    asked

importVars ==
    <<file, typed, exported, sheet, activity, note, read_only, sent, logged, mistaken, asked>>

Separators == <<",", "\t", ";">>
Quote == "\""
At(text, i) == IF i \in DOMAIN text THEN text[i] ELSE "end"
Trimmed(text) ==
    LET words == {i \in DOMAIN text : text[i] \notin {" ", "\n", "\r", "\t"}}
    IN IF words = {} THEN <<>> ELSE SubSeq(text, Min(words), Max(words))
-----------------------------------------------------------------------------
(* The writer.                                                              *)

PushField(text, sep) ==
    IF ToSet(text) \cap {sep, Quote, "\n", "\r"} = {} THEN text
    ELSE <<Quote>>
         \o FlattenSeq([i \in DOMAIN text |->
                IF text[i] = Quote THEN <<Quote, Quote>> ELSE <<text[i]>>])
         \o <<Quote>>

Line(fields, sep) ==
    FlattenSeq([i \in DOMAIN fields |->
        (IF i > 1 THEN <<sep>> ELSE <<>>) \o PushField(fields[i], sep)]) \o <<"\n">>

\* A null and an empty text both write an empty field.
Written(headers, rows, sep) ==
    Line(headers, sep)
    \o FlattenSeq([r \in DOMAIN rows |->
          Line([i \in DOMAIN rows[r] |-> IF rows[r][i] = <<>> THEN <<>> ELSE rows[r][i][1]], sep)])
-----------------------------------------------------------------------------
(* The reader.                                                              *)

\* The separator that stands most often in the first line outside quotes.
Sniff(text) ==
    LET line == SubSeq(text, 1, Min({Len(text)} \cup {i - 1 : i \in {j \in DOMAIN text : text[j] = "\n"}}))
        Count(c) == Cardinality({i \in DOMAIN line :
                        line[i] = c /\ Cardinality({j \in 1..i : line[j] = Quote}) % 2 = 0})
        most == Max({Count(Separators[k]) : k \in DOMAIN Separators})
    IN Min({k \in DOMAIN Separators : Count(Separators[k]) = most})

NothingRead ==
    [records |-> <<>>, record |-> <<>>, field |-> <<>>, was_quoted |-> FALSE,
     quoted |-> FALSE, skips |-> FALSE, line |-> 1, record_line |-> 1]

FinishField(s) == IF s.field = <<>> /\ ~s.was_quoted THEN <<>> ELSE <<s.field>>
EndField(s) ==
    [s EXCEPT !.record = Append(@, FinishField(s)), !.field = <<>>, !.was_quoted = FALSE]

\* Slip: a blank line is a row of one null.
EndRecord_blank(s) == [s EXCEPT !.records = Append(@, s.record), !.record = <<>>]

EndRecord(s) ==
    [s EXCEPT !.records = IF s.record = << <<>> >> THEN @ ELSE Append(@, s.record),
              !.record = <<>>]

ReadChar(text, sep, s, i) ==
    IF s.skips THEN [s EXCEPT !.skips = FALSE]
    ELSE IF s.quoted THEN
        CASE text[i] = Quote /\ At(text, i + 1) = Quote ->
                [s EXCEPT !.field = Append(@, Quote), !.skips = TRUE]
          [] text[i] = Quote /\ At(text, i + 1) # Quote -> [s EXCEPT !.quoted = FALSE]
          [] OTHER -> [s EXCEPT !.field = Append(@, text[i]),
                                !.line = @ + (IF text[i] = "\n" THEN 1 ELSE 0)]
    ELSE
        CASE text[i] = Quote -> [s EXCEPT !.quoted = TRUE, !.was_quoted = TRUE]
          [] text[i] = sep -> EndField(s)
          [] text[i] = "\r" /\ At(text, i + 1) = "\n" -> s
          [] text[i] = "\n" -> [EndRecord(EndField(s)) EXCEPT !.line = @ + 1,
                                                               !.record_line = s.line + 1]
          [] OTHER -> [s EXCEPT !.field = Append(@, text[i])]

Problem(line, what) == [problem |-> what, line |-> line, headers |-> <<>>, rows |-> <<>>]

ColumnNamed(n) == <<"col", ToString(n)>>
Header(field, n) ==
    IF field = <<>> \/ Trimmed(field[1]) = <<>> THEN ColumnNamed(n) ELSE Trimmed(field[1])

\* Records as a table, or the first that is not as wide as the first of all.
Table(records, has_headers) ==
    LET width == Len(records[1])
        rows == IF has_headers THEN Tail(records) ELSE records
        ragged == {i \in DOMAIN rows : Len(rows[i]) # width}
    IN IF records = <<>> THEN Problem(1, "nothing in this file")
       ELSE IF ragged # {} THEN Problem(Min(ragged) + (IF has_headers THEN 1 ELSE 0), "ragged")
       ELSE [problem |-> "none", line |-> 0, rows |-> rows,
             headers |-> [n \in 1..width |->
                            IF has_headers THEN Header(records[1][n], n) ELSE ColumnNamed(n)]]

ReadDelimited(text, sep, has_headers) ==
    LET s == FoldLeftDomain(LAMBDA state, i : ReadChar(text, sep, state, i), NothingRead, text)
        unended == s.field # <<>> \/ s.was_quoted \/ s.record # <<>>
    IN IF s.quoted THEN Problem(s.record_line, "never closed")
       ELSE Table((IF unended THEN EndRecord(EndField(s)) ELSE s).records, has_headers)
-----------------------------------------------------------------------------
(* The matching, and the statements.                                        *)

Parse(kind, text) ==
    IF kind # "Bool" THEN text ELSE IF Trimmed(text) = <<"t">> THEN <<"true">> ELSE <<"false">>

\* Which column each field of the file goes to: pairs of a column and a field.
Pairs(table, matching) ==
    IF matching = "order"
    THEN [i \in 1..Min({Len(table.headers), Len(Columns)}) |-> [to |-> i, from |-> i]]
    ELSE LET Places(from) == {i \in DOMAIN Columns : Columns[i].name = table.headers[from]}
             matched == SelectSeq([i \in DOMAIN table.headers |-> i], LAMBDA from : Places(from) # {})
         IN [i \in DOMAIN matched |-> [to |-> Min(Places(matched[i])), from |-> matched[i]]]

\* Slip: the columns in the table's order, the values in the file's.
Plan_shifted(table, matching) ==
    LET pairs == Pairs(table, matching)
        Value(row, pair) ==
            IF row[pair.from] = <<>> THEN <<>>
            ELSE <<Parse(Columns[pair.to].kind, row[pair.from][1])>>
        places == SetToSortSeq({pairs[i].to : i \in DOMAIN pairs}, <)
    IN [columns |-> [i \in DOMAIN places |-> Columns[places[i]].name],
        rows |-> [r \in DOMAIN table.rows |->
                    [i \in DOMAIN pairs |-> Value(table.rows[r], pairs[i])]]]

Plan(table, matching) ==
    LET pairs == Pairs(table, matching)
        Value(row, pair) ==
            IF row[pair.from] = <<>> THEN <<>>
            ELSE <<Parse(Columns[pair.to].kind, row[pair.from][1])>>
    IN [columns |-> [i \in DOMAIN pairs |-> Columns[pairs[i].to].name],
        rows |-> [r \in DOMAIN table.rows |->
                    [i \in DOMAIN pairs |-> Value(table.rows[r], pairs[i])]]]

\* Rows a statement holds: what the parameters allow, and never none.
Fit(columns) ==
    IF columns = 0 THEN 1 ELSE Max({1, Min({Batch, Params \div columns})})

Inserts(plan) ==
    LET per == Fit(Len(plan.columns))
        chunks == (Len(plan.rows) + per - 1) \div per
    IN IF plan.columns = <<>> \/ plan.rows = <<>> THEN <<>>
       ELSE [k \in 1..chunks |->
                [columns |-> plan.columns,
                 tuples |-> SubSeq(plan.rows, (k - 1) * per + 1, Min({k * per, Len(plan.rows)}))]]
-----------------------------------------------------------------------------
(* The sheet, and what comes of it.                                         *)

NotSent == [statements |-> <<>>, on |-> <<>>]

Init ==
    /\ file \in Begun /\ typed = 0 /\ exported = <<>>
    /\ sheet = <<>> /\ activity = "idle" /\ note = FALSE /\ read_only \in BOOLEAN
    /\ sent = NotSent /\ logged = [was |-> "none", as |-> "none"]
    /\ mistaken = FALSE /\ asked = 0

onDisk == <<file, typed, exported>>
session == <<activity, note, read_only, sent, logged, mistaken, asked>>

\* The file is written by hand, or by an export of what a grid holds: before
\* anything is done with it, for it is read once, when the sheet opens.
Untouched == sheet = <<>> /\ asked = 0 /\ sent = NotSent /\ logged.was = "none" /\ ~read_only

Type ==
    /\ Untouched /\ typed < MaxTyped
    /\ \E c \in Alphabet : file' = Append(file, c)
    /\ typed' = typed + 1 /\ exported' = <<>>
    /\ UNCHANGED <<sheet, session>>

Export ==
    /\ Untouched /\ typed = 0 /\ exported = <<>>
    /\ \E grid \in Exported, sep \in {",", "\t"} :
          /\ file' = Written(grid.headers, grid.rows, sep)
          /\ exported' = <<[rows |-> grid.rows, headers |-> grid.headers, sep |-> sep]>>
    /\ typed' = MaxTyped
    /\ UNCHANGED <<sheet, session>>

Reread(s) == [s EXCEPT !.parsed = ReadDelimited(s.text, Separators[s.separator], s.headers)]

PlanOf(s) == Plan(s.parsed, s.matching)

\* By name, unless nothing matches by name.  A behaviour has one import.
ImportFile ==
    /\ sheet = <<>>
    /\ sent = NotSent /\ logged.was # "import" /\ (exported # <<>> \/ typed <= MaxImported)
    /\ LET fresh == Reread([text |-> file, separator |-> Sniff(file), headers |-> TRUE,
                            matching |-> "name", parsed |-> Problem(1, "unread")])
           strangers == fresh.parsed.problem = "none" /\ PlanOf(fresh).columns = <<>>
       IN sheet' = <<IF strangers THEN [fresh EXCEPT !.matching = "order"] ELSE fresh>>
    /\ UNCHANGED <<onDisk, session>>

Chooses(s) ==
    /\ sheet # <<>>
    /\ sheet' = <<s>>
    /\ UNCHANGED <<onDisk, session>>

ChooseSeparator ==
    \E k \in DOMAIN Separators : Chooses(Reread([sheet[1] EXCEPT !.separator = k]))
ToggleHeaders == Chooses(Reread([sheet[1] EXCEPT !.headers = ~@]))
ChooseMatching == \E m \in {"name", "order"} : Chooses([sheet[1] EXCEPT !.matching = m])

Dismiss ==
    /\ sheet # <<>> /\ sheet' = <<>>
    /\ UNCHANGED <<onDisk, session>>

\* What a commit's or an import's end is written down as.
Logs(was, noted) == logged' = [was |-> was, as |-> IF noted THEN "import" ELSE "commit"]

\* The note is left before the session is asked, which a busy one ignores.
Confirm ==
    /\ sheet # <<>> /\ sheet[1].parsed.problem = "none"
    /\ sheet' = <<>>
    /\ LET statements == Inserts(PlanOf(sheet[1]))
       IN IF statements = <<>> THEN UNCHANGED session
          ELSE IF read_only
          THEN /\ Logs("import", TRUE) /\ note' = FALSE
               /\ UNCHANGED <<activity, read_only, sent, mistaken, asked>>
          ELSE IF activity # "idle"
          THEN /\ note' = TRUE /\ mistaken' = TRUE
               /\ UNCHANGED <<activity, read_only, sent, logged, asked>>
          ELSE /\ activity' = "import" /\ note' = TRUE
               /\ sent' = [statements |-> statements, on |-> sheet]
               /\ UNCHANGED <<read_only, logged, mistaken, asked>>
    /\ UNCHANGED onDisk

\* The grid's edits are committed, or something else is asked of the session.
Begin(operation) ==
    /\ activity = "idle" /\ asked < MaxAsked /\ (exported # <<>> \/ typed <= MaxImported)
    /\ operation = "commit" => sheet = <<>> /\ ~read_only
    /\ activity' = operation /\ asked' = asked + 1
    /\ UNCHANGED <<onDisk, sheet, note, read_only, sent, logged, mistaken>>

Land ==
    /\ activity # "idle" /\ activity' = "idle"
    /\ IF activity = "read" THEN UNCHANGED <<note, logged>>
       ELSE Logs(activity, note) /\ note' = FALSE
    /\ UNCHANGED <<onDisk, sheet, read_only, sent, mistaken, asked>>

\* A disconnect drops the task, so nothing lands; the note stays.
Disconnect ==
    /\ activity # "idle" /\ activity' = "idle"
    /\ mistaken' = (mistaken \/ note)
    /\ UNCHANGED <<onDisk, sheet, note, read_only, sent, logged, asked>>

Next ==
    \/ Type \/ Export
    \/ ImportFile \/ ChooseSeparator \/ ToggleHeaders \/ ChooseMatching \/ Dismiss \/ Confirm
    \/ Begin("commit") \/ Begin("read") \/ Land \/ Disconnect

Spec == Init /\ [][Next]_importVars
-----------------------------------------------------------------------------
\* What a file says, from its quotes alone: a character is inside when an odd
\* number of quotes stand before it, a record ends at a newline that is not,
\* a field at a separator that is not, and a quote counts when it stands
\* inside before another.
Inside(text, i) == Cardinality({j \in 1..(i - 1) : text[j] = Quote}) % 2 = 1
Says(text, i) ==
    IF text[i] = Quote THEN Inside(text, i) /\ At(text, i + 1) = Quote
    ELSE Inside(text, i) \/ ~(text[i] = "\r" /\ At(text, i + 1) = "\n")
Ends(text, within, marks) ==
    {i \in within : i \in DOMAIN text /\ text[i] \in marks /\ ~Inside(text, i)}
InOrder(set) == SetToSortSeq(set, <)
Pieces(ends, from) ==
    LET sorted == InOrder(ends)
    IN [k \in DOMAIN sorted |->
          [from |-> IF k = 1 THEN from ELSE sorted[k - 1] + 1, to |-> sorted[k] - 1]]
FieldIn(text, piece) ==
    LET places == piece.from..piece.to
        said == InOrder({i \in places : Says(text, i)})
    IN IF said = <<>> /\ \A i \in places : text[i] # Quote THEN <<>>
       ELSE <<[k \in DOMAIN said |-> text[said[k]]]>>
LinesUpTo(text, i) == 1 + Cardinality({j \in 1..(i - 1) : text[j] = "\n"})
LinesIn(text, sep) ==
    LET newlines == Ends(text, DOMAIN text, {"\n"})
        last == IF text = <<>> \/ Len(text) \in newlines THEN {} ELSE {Len(text) + 1}
        lines == Pieces(newlines \cup last, 1)
        Record(line) ==
            LET fields == Pieces(Ends(text, line.from..line.to, {sep}) \cup {line.to + 1}, line.from)
            IN [k \in DOMAIN fields |-> FieldIn(text, fields[k])]
        read == [k \in DOMAIN lines |->
                    [record |-> Record(lines[k]), line |-> LinesUpTo(text, lines[k].from)]]
    IN SelectSeq(read, LAMBDA l : l.record # << <<>> >>)
RecordsOf(lines) == [k \in DOMAIN lines |-> lines[k].record]

\* The first record that is not as wide as the first of all.
Misfit(records) == Min({k \in DOMAIN records : Len(records[k]) # Len(records[1])})

\* The reader reads what a file says by its quotes: every record, every field,
\* null or empty; it refuses one with a row that is not as wide as the first,
\* and names its line where every line above is a record; and it names the line
\* where a quote that never closed stood in a record that began there.
ReadsAsQuoted ==
    \A sep \in ToSet(Separators) :
        LET lines == LinesIn(file, sep)
            records == RecordsOf(lines)
            begins == Max({0} \cup Ends(file, DOMAIN file, {"\n"}))
            even == \A k \in DOMAIN records : Len(records[k]) = Len(records[1])
            Reads(table, rows) ==
                CASE table.problem = "never closed" ->
                        /\ Inside(file, Len(file) + 1)
                        /\ table.line = LinesUpTo(file, begins + 1)
                  [] table.problem = "nothing in this file" -> records = <<>>
                  [] table.problem = "ragged" ->
                        /\ ~even
                        /\ lines[Misfit(records)].line = Misfit(records) => table.line = Misfit(records)
                  [] OTHER -> /\ ~Inside(file, Len(file) + 1)
                              /\ even
                              /\ table.rows = rows
        IN /\ Reads(ReadDelimited(file, sep, FALSE), records)
           /\ Reads(ReadDelimited(file, sep, TRUE), Tail(records))

\* "so the number matches what an editor shows" (grid/src/import.rs:168): the
\* line named is the one the row that does not fit begins on, blank lines and
\* newlines inside quotes above it or not.
NamesTheLine ==
    \A sep \in ToSet(Separators), has_headers \in BOOLEAN :
        LET table == ReadDelimited(file, sep, has_headers)
            lines == LinesIn(file, sep)
        IN table.problem = "ragged" => table.line = lines[Misfit(RecordsOf(lines))].line

\* These rows come back from the file, an empty text as a null, which
\* grid/src/import.rs:12 says of the format.
ComesBack(rows) ==
    LET wrote == exported[1]
        read == ReadDelimited(file, wrote.sep, TRUE)
    IN /\ read.problem = "none" /\ read.headers = wrote.headers
       /\ read.rows = [r \in DOMAIN rows |->
                          [i \in DOMAIN rows[r] |->
                              IF rows[r][i] = << <<>> >> THEN <<>> ELSE rows[r][i]]]

\* A file this program wrote reads back as the rows it was written from, in
\* their order, but for those that are written as a blank line: one column, null
\* or empty.
Blank == {<< <<>> >>, << << <<>> >> >>}
ReadsBack ==
    exported # <<>> => ComesBack(SelectSeq(exported[1].rows, LAMBDA row : row \notin Blank))

\* "A file this app wrote must read back as the rows it wrote"
\* (grid/src/import.rs:4): every one of them.
RowsComeBack == exported # <<>> => ComesBack(exported[1].rows)

\* What an import sends is what the sheet showed: every row of the file once and
\* in order, every value under the column its header names or its place gives
\* it, in statements the server's parameters hold.
WritesWhatIsShown ==
    sent.on # <<>> =>
        LET s == sent.on[1]
            records == RecordsOf(LinesIn(s.text, Separators[s.separator]))
            rows == IF s.headers THEN Tail(records) ELSE records
            tuples == FlattenSeq([k \in DOMAIN sent.statements |-> sent.statements[k].tuples])
            Named(from) == IF s.headers THEN Header(records[1][from], from) ELSE ColumnNamed(from)
            Goes(from, c) == IF s.matching = "order" THEN from = c ELSE Named(from) = Columns[c].name
            Said(row, from, c) ==
                IF row[from] = <<>> THEN <<>> ELSE <<Parse(Columns[c].kind, row[from][1])>>
        IN /\ Len(tuples) = Len(rows)
           /\ \A k \in DOMAIN sent.statements :
                LET statement == sent.statements[k]
                    used == Len(statement.tuples) * Len(statement.columns)
                IN /\ used > 0 /\ (used <= Params \/ Len(statement.tuples) = 1)
                   /\ statement.columns = sent.statements[1].columns
           /\ \E fields \in [DOMAIN sent.statements[1].columns -> DOMAIN records[1]] :
                \A i \in DOMAIN fields :
                   /\ \A j \in 1..(i - 1) : fields[j] # fields[i]
                   /\ \E c \in DOMAIN Columns :
                        /\ Columns[c].name = sent.statements[1].columns[i]
                        /\ Goes(fields[i], c)
                        /\ \A r \in DOMAIN rows : tuples[r][i] = Said(rows[r], fields[i], c)

\* The log calls an import an import and a commit a commit, unless an import
\* was dropped by a session that was busy or closed.
LoggedAsItWas == ~mistaken => logged.was = logged.as
===============================================================================
