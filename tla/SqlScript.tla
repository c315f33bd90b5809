------------------------------ MODULE SqlScript ------------------------------
(***************************************************************************)
(* Where a statement begins and ends: the scanner that finds the           *)
(* semicolons that end something, and what the console sends for the       *)
(* caret, for a selection, or for the whole script.                        *)
(*                                                                         *)
(* A script is typed character by character.  Offsets start at zero and a  *)
(* range is [from, to), as in the code; "a" stands for a letter that       *)
(* may be in a tag, "e" for the one that gives a string its escapes.       *)
(***************************************************************************)
EXTENDS Integers, Sequences, FiniteSets, SequencesExt, FiniteSetsExt

CONSTANTS
    Alphabet,   \* the characters typed
    MaxLength   \* bound: how long a script grows

VARIABLE script

Blanks == {" ", "\n"}
Tags == {"a", "e"}
At(t, o) == IF o \in 0..(Len(t) - 1) THEN t[o + 1] ELSE "none"
Part(t, r) == SubSeq(t, r.from + 1, r.to)
-----------------------------------------------------------------------------
\* Where the string opened at o closes, or the end of the script.  A doubled
\* quote is a quote in it, and after an e a backslash hides a character.
StringEnd(t, o) ==
    LET escapes == At(t, o) = "'" /\ At(t, o - 1) = "e"
        end[i \in 0..(Len(t) + 1)] ==
            IF i >= Len(t) THEN i
            ELSE IF escapes /\ At(t, i) = "\\" THEN end[i + 2]
            ELSE IF At(t, i) # At(t, o) THEN end[i + 1]
            ELSE IF At(t, i + 1) = At(t, o) THEN end[i + 2]
            ELSE i
    IN end[o + 1]

LineCommentEnd(t, o) == Min({Len(t)} \cup {i \in o..(Len(t) - 1) : At(t, i) = "\n"})

\* Block comments nest; one never closed ends at the last character, which is
\* then read as if it stood outside.
BlockCommentEnd(t, o) ==
    LET end[i \in 0..(Len(t) + 1), depth \in 0..Len(t)] ==
            IF depth = 0 \/ i + 1 >= Len(t) THEN i
            ELSE IF At(t, i) = "/" /\ At(t, i + 1) = "*" THEN end[i + 2, depth + 1]
            ELSE IF At(t, i) = "*" /\ At(t, i + 1) = "/" THEN end[i + 2, depth - 1]
            ELSE end[i + 1, depth]
    IN end[o + 2, 1]

\* The last character of the dollar quote opened at o, or o when none is.
DollarEnd(t, o) ==
    LET name == Min({Len(t)} \cup {i \in (o + 1)..(Len(t) - 1) : At(t, i) \notin Tags})
        size == name + 1 - o
        closes == {i \in (name + 1)..(Len(t) - size) :
                     SubSeq(t, i + 1, i + size) = SubSeq(t, o + 1, o + size)}
    IN IF At(t, name) # "$" THEN o
       ELSE IF closes = {} THEN Len(t) - 1
       ELSE Min(closes) + size - 1

\* Every semicolon that ends a statement.
Terminators(t) ==
    LET found[o \in 0..(Len(t) + 2)] ==
            IF o >= Len(t) THEN {}
            ELSE CASE At(t, o) \in {"'", "\""} -> found[StringEnd(t, o) + 1]
                   [] At(t, o) = "-" /\ At(t, o + 1) = "-" -> found[LineCommentEnd(t, o)]
                   [] At(t, o) = "/" /\ At(t, o + 1) = "*" -> found[BlockCommentEnd(t, o)]
                   [] At(t, o) = "$" -> found[DollarEnd(t, o) + 1]
                   [] At(t, o) = ";" -> {o} \cup found[o + 1]
                   [] OTHER -> found[o + 1]
    IN found[0]

Trimmed(t, from, to) ==
    LET words == {i \in from..(to - 1) : At(t, i) \notin Blanks}
    IN IF words = {} THEN [from |-> to, to |-> to]
       ELSE [from |-> Min(words), to |-> Max(words) + 1]

\* Nothing a server would do anything with.
IsBlank(t) ==
    LET blank[o \in 0..(Len(t) + 1)] ==
            IF o >= Len(t) THEN TRUE
            ELSE IF At(t, o) \in Blanks \cup {";"} THEN blank[o + 1]
            ELSE IF At(t, o) = "-" /\ At(t, o + 1) = "-" THEN blank[LineCommentEnd(t, o)]
            ELSE IF At(t, o) = "/" /\ At(t, o + 1) = "*" THEN blank[BlockCommentEnd(t, o)]
            ELSE FALSE
    IN blank[0]

\* The statement the caret is in: from the terminator before it to the first
\* one at or after it.
StatementAt(t, o) ==
    LET before == {i \in Terminators(t) : i < o}
        after == Terminators(t) \ before
    IN Trimmed(t, IF before = {} THEN 0 ELSE Max(before) + 1,
                  IF after = {} THEN Len(t) ELSE Min(after) + 1)

\* Slip: the semicolon is left behind.
Statements_short(t) ==
    LET ends == Terminators(t)
        Piece(end) == LET before == {i \in ends : i < end}
                      IN Trimmed(t, IF before = {} THEN 0 ELSE Max(before) + 1, end)
        pieces == {Piece(end) : end \in ends \cup {Len(t)}}
    IN SetToSortSeq({r \in pieces : ~IsBlank(Part(t, r))}, LAMBDA a, b : a.from < b.from)

\* Every statement of a script, the blank ones left out.
Statements(t) ==
    LET ends == Terminators(t)
        Piece(end) == LET before == {i \in ends : i < end}
                      IN Trimmed(t, IF before = {} THEN 0 ELSE Max(before) + 1,
                                    Min({end + 1, Len(t)}))
        pieces == {Piece(end) : end \in ends \cup {Len(t)}}
    IN SetToSortSeq({r \in pieces : ~IsBlank(Part(t, r))}, LAMBDA a, b : a.from < b.from)

\* What the run key sends: the selection, if it says anything; the statement at
\* the caret; and, when there is none there, everything.
RunRange(t, sel, head) ==
    LET at == StatementAt(t, head)
    IN IF \E i \in sel.from..(sel.to - 1) : At(t, i) \notin Blanks THEN sel
       ELSE IF at.from < at.to THEN at
       ELSE [from |-> 0, to |-> Len(t)]

\* What the run-all key sends: the statements of the selection, or of it all,
\* each with its place in the script.
RunAll(t, sel) ==
    LET base == IF sel.from < sel.to THEN sel ELSE [from |-> 0, to |-> Len(t)]
        found == Statements(Part(t, base))
    IN [i \in DOMAIN found |-> [from |-> base.from + found[i].from, to |-> base.from + found[i].to]]
-----------------------------------------------------------------------------
Init == script = <<>>

Type == Len(script) < MaxLength /\ \E c \in Alphabet : script' = Append(script, c)

Next == Type

Spec == Init /\ [][Next]_script
-----------------------------------------------------------------------------
Caret(o) == [from |-> o, to |-> o]

\* Run-all takes the script apart without losing or repeating any of it: the
\* statements are in order and do not overlap, what is left between them is
\* blank, and each is one statement to whoever scans it again.
ScriptComesApart ==
    LET found == RunAll(script, Caret(0))
        outside == {o \in 0..(Len(script) - 1) :
                      \A i \in DOMAIN found : o \notin found[i].from..(found[i].to - 1)}
    IN /\ \A i \in DOMAIN found : \A j \in DOMAIN found : i < j => found[i].to <= found[j].from
       /\ \A i \in DOMAIN found :
            \A end \in Terminators(Part(script, found[i])) : end = found[i].to - found[i].from - 1
       /\ \A o \in outside : At(script, o) \in Blanks \/ IsBlank(Part(script, StatementAt(script, o)))

\* Wherever the caret is, the run key sends one of the statements run-all would
\* send, or something blank, or, where nothing is at the caret, everything.
RunsWhatRunAllRuns ==
    \A o \in 0..Len(script) :
        LET sent == RunRange(script, Caret(o), o)
            at == StatementAt(script, o)
        IN \/ sent \in ToSet(RunAll(script, Caret(0)))
           \/ IsBlank(Part(script, sent))
           \/ at.from = at.to /\ \A end \in Terminators(script) : end < o

\* With strings alone, a semicolon ends a statement exactly when the quotes
\* before it pair up.
QuotesHide ==
    ToSet(script) \subseteq {"a", "'", ";", " ", "\n"} =>
        Terminators(script) =
            {o \in 0..(Len(script) - 1) :
                /\ At(script, o) = ";"
                /\ Cardinality({i \in 0..o : At(script, i) = "'"}) % 2 = 0}

ScriptSplits == ScriptComesApart /\ RunsWhatRunAllRuns /\ QuotesHide
==============================================================================
