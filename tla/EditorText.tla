------------------------------ MODULE EditorText ------------------------------
(***************************************************************************)
(* The text editor: a buffer, the one selection the window makes, the      *)
(* range an input method is composing, and the two stacks of undo.         *)
(*                                                                         *)
(* Offsets count characters and start at zero, as in the code.  A          *)
(* character is a string: a word's letter, a blank, the two brackets, the  *)
(* end of a line, or `--`, the comment mark with its blank.  Every edit    *)
(* carries, beside what the code keeps, the texts it stood between; the    *)
(* code has no such field, the properties read them.                       *)
(***************************************************************************)
EXTENDS Integers, Sequences, FiniteSets, SequencesExt, FiniteSetsExt

CONSTANTS
    Texts,      \* what the editor may be seeded with: sequences of characters
    Modes,      \* "full", "single": which of the two editors may be opened
    TabSize,
    MaxSteps    \* bound: keystrokes, calls of the input method and undos

VARIABLES
    mode, text, undone, redone, steps,
    selection,  \* anchor, head, and the column vertical motion aims at, or -1
    marked,     \* the range being composed, or NoRange
    composed,   \* history: the text last handed over for that range
    unsound,    \* history: an undo the code gets wrong was made, or the text
                \* moved under a composition
    doubled     \* history: a line was duplicated, or an input method wrote one

vars == <<mode, text, selection, marked, undone, redone, composed, unsound, doubled, steps>>

None == "none"
NoRange == [start |-> -1, end |-> -1]
Letter == "a"
Mark == "--"
Blanks == {" ", "\n"}

Pos(n) == 0..n
Least(a, b) == IF a < b THEN a ELSE b
Most(a, b) == IF a < b THEN b ELSE a
Spaces(n) == [i \in 1..n |-> " "]

\* Range s..e of a text, both ends pulled back onto it.
Slice(t, s, e) == SubSeq(t, Least(s, Len(t)) + 1, Least(Most(e, s), Len(t)))
CharAt(t, o) == IF o \in 0..(Len(t) - 1) THEN t[o + 1] ELSE None

\* Buffer::replace: the ends are pulled back onto the text.
Replace(t, s, e, new) ==
    SubSeq(t, 1, Least(s, Len(t))) \o new \o SubSeq(t, Least(Most(s, e), Len(t)) + 1, Len(t))

Cursor(o) == [anchor |-> o, head |-> o, goal |-> -1]
Start(sel) == Least(sel.anchor, sel.head)
End(sel) == Most(sel.anchor, sel.head)
Empty(sel) == sel.anchor = sel.head
-----------------------------------------------------------------------------
(* Lines and motions.                                                       *)

LineStart(t, o) == Max({0} \cup {i \in 1..Least(o, Len(t)) : t[i] = "\n"})
LineEnd(t, o) == Min({Len(t)} \cup {i \in o..(Len(t) - 1) : t[i + 1] = "\n"})

\* The whole line, its end included.
LineAfter(t, o) == Least(LineEnd(t, o) + 1, Len(t))

\* The line starts of the rows from s to e.
RowsIn(t, s, e) == {LineStart(t, o) : o \in s..e}
Line(t, o) == Slice(t, LineStart(t, o), LineEnd(t, o))

\* How many characters at the front of a line are in a set.
Lead(line, set) == Min({Len(line)} \cup {i \in 0..(Len(line) - 1) : line[i + 1] \notin set})

Left(t, o) == Least(Most(o - 1, 0), Len(t))
Right(t, o) == Least(o + 1, Len(t))

Class(c) == CASE c \in Blanks -> "blank" [] c = Letter -> "word" [] OTHER -> "punctuation"

\* From o towards an end, while the characters passed are of one class.
RunLeft(t, o, class) == Max({0} \cup {i \in 1..o : Class(t[i]) # class})
RunRight(t, o, class) == Min({Len(t)} \cup {i \in o..(Len(t) - 1) : Class(t[i + 1]) # class})

PrevWord(t, o) ==
    LET i == RunLeft(t, o, "blank") IN IF i = 0 THEN 0 ELSE RunLeft(t, i, Class(t[i]))
NextWord(t, o) ==
    LET i == RunRight(t, o, "blank")
    IN IF i = Len(t) THEN i ELSE RunRight(t, i, Class(t[i + 1]))

SmartLineStart(t, o) ==
    LET line == Line(t, o)
        lead == Lead(line, Blanks)
        indent == IF lead = Len(line) THEN 0 ELSE lead
    IN IF o - LineStart(t, o) = indent THEN LineStart(t, o) ELSE LineStart(t, o) + indent

\* One line up or down, aiming at a column.
Up(t, o, goal) ==
    IF LineStart(t, o) = 0 THEN 0
    ELSE LET above == LineStart(t, LineStart(t, o) - 1)
         IN Least(above + goal, LineEnd(t, above))
Down(t, o, goal) ==
    IF LineEnd(t, o) = Len(t) THEN Len(t)
    ELSE Least(LineAfter(t, o) + goal, LineEnd(t, LineAfter(t, o)))
Column(t, o) == o - LineStart(t, o)

\* The word or run a double click takes.
WordAt(t, o) ==
    LET here == CharAt(t, o)
        before == CharAt(t, o - 1)
        target ==
            CASE here = Letter \/ before = Letter -> "word"
              [] here # None /\ here \notin Blanks -> Class(here)
              [] before # None /\ before \notin Blanks -> Class(before)
              [] OTHER -> "blank"
    IN [Cursor(0) EXCEPT !.anchor = RunLeft(t, o, target), !.head = RunRight(t, o, target)]
-----------------------------------------------------------------------------
(* Undo and redo.  A step is a group of edits, made one after another or,   *)
(* when a command changes several lines, all against the same text.         *)

\* Does one edit pick up where a group left off?
Continues(last, edits, kind) ==
    /\ Len(edits) = 1 /\ Len(last.edits) > 0
    /\ LET p == last.edits[Len(last.edits)]
           n == edits[1]
       IN CASE kind = "insert" ->
                 /\ n.old = <<>> /\ p.old = <<>>
                 /\ n.start = p.start + Len(p.new)
                 /\ "\n" \notin ToSet(n.new)
            [] kind = "delete" ->
                 /\ n.new = <<>> /\ p.new = <<>>
                 /\ n.start + Len(n.old) = p.start \/ n.start = p.start
            [] OTHER -> FALSE

\* The stack with a step recorded; `swift` says it came within the window of
\* the last one, and then it may join that one.
Recorded(edits, after, kind, to, swift) ==
    LET last == undone[Len(undone)]
        joins == /\ undone # <<>> /\ kind # "other" /\ swift
                 /\ last.kind = kind
                 /\ Continues(last, edits, kind)
    IN IF joins
       THEN [undone EXCEPT ![Len(undone)].edits = @ \o edits,
                           ![Len(undone)].after = after, ![Len(undone)].is = to]
       ELSE Append(undone, [edits |-> edits, before |-> selection, after |-> after, kind |-> kind,
                            atOnce |-> Len(edits) > 1, was |-> text, is |-> to])

\* Force the next edit to start a step of its own.
BreakGroup(stack) ==
    IF stack = <<>> THEN stack ELSE [stack EXCEPT ![Len(stack)].kind = "other"]

\* Slip: the edits of a step are taken back first to last.
Back_forwards(t, edits) ==
    FoldLeft(LAMBDA u, e : Replace(u, e.start, e.start + Len(e.new), e.old), t, edits)

Back(t, edits) ==
    FoldRight(LAMBDA e, u : Replace(u, e.start, e.start + Len(e.new), e.old), edits, t)
Forth(t, edits) ==
    FoldLeft(LAMBDA u, e : Replace(u, e.start, e.start + Len(e.old), e.new), t, edits)
Clip(sel, t) ==
    [sel EXCEPT !.anchor = Least(@, Len(t)), !.head = Least(@, Len(t))]
-----------------------------------------------------------------------------
(* Edits.                                                                   *)

Edit(s, e, new) == [start |-> s, old |-> Slice(text, s, e), new |-> new]

\* The one path an edit of the selection takes: the range it replaces, what
\* goes there, the caret after it, and the step of undo.
EditWith(s, e, new, kind, swift) ==
    /\ text' = Replace(text, s, e, new)
    /\ selection' = Cursor(s + Len(new))
    /\ undone' = Recorded(<<Edit(s, e, new)>>, Cursor(s + Len(new)), kind, text', swift)
    /\ redone' = <<>>

Keeps == UNCHANGED <<composed, unsound>>
Unmarks == marked' = NoRange /\ Keeps

OneLine(new) == [i \in DOMAIN new |-> IF mode = "single" /\ new[i] = "\n" THEN " " ELSE new[i]]

\* Type or paste over the selection.
Inserts(new, swift) ==
    EditWith(Start(selection), End(selection), OneLine(new),
             IF Len(new) = 1 THEN "insert" ELSE "other", swift)

Closes(c) == c = ")"

\* A character is typed: a closer already there is stepped over, an opener
\* wraps the selection or brings its closer where nothing is in the way.
StepsOver(c) == Closes(c) /\ Empty(selection) /\ CharAt(text, selection.head) = c
Pairs == CharAt(text, selection.head) \in Blanks \cup {None, ")"}

TypeChar(c, swift) ==
    \/ /\ StepsOver(c)
       /\ selection' = Cursor(selection.head + 1)
       /\ undone' = BreakGroup(undone)
       /\ UNCHANGED <<text, redone, marked, composed, unsound>>
    \/ /\ ~StepsOver(c)
       /\ \/ /\ c = "(" /\ ~Empty(selection)
             /\ EditWith(Start(selection), End(selection),
                         <<c>> \o Slice(text, Start(selection), End(selection)) \o <<")">>,
                         "other", swift)
          \/ /\ c = "(" /\ Empty(selection) /\ Pairs
             /\ text' = Replace(text, selection.head, selection.head, <<c, ")">>)
             /\ selection' = Cursor(selection.head + 1)
             /\ redone' = <<>>
             /\ undone' = BreakGroup(Recorded(
                    <<Edit(selection.head, selection.head, <<c, ")">>)>>,
                    Cursor(selection.head + 2), "insert", text', swift))
          \/ /\ ~(c = "(" /\ (~Empty(selection) \/ Pairs))
             /\ EditWith(Start(selection), End(selection), <<c>>, "insert", swift)
       /\ Unmarks

\* A line is broken: the indent is carried over, a bracket left open adds one.
Newline ==
    /\ mode = "full"
    /\ LET line == Line(text, Start(selection))
           words == SelectSeq(line, LAMBDA c : c \notin Blanks)
           open == words # <<>> /\ words[Len(words)] = "("
       IN EditWith(Start(selection), End(selection),
                   <<"\n">> \o SubSeq(line, 1, Lead(line, Blanks))
                            \o (IF open THEN Spaces(TabSize) ELSE <<>>), "other", FALSE)
    /\ Unmarks

\* A range is taken out; the commands that find none do nothing.
Deletes(s, e, kind, swift) == s < e /\ EditWith(s, e, <<>>, kind, swift) /\ Unmarks
DeletesSelection(kind, swift) == Deletes(Start(selection), End(selection), kind, swift)

Backspace(swift) ==
    LET o == selection.head
        pair == CharAt(text, o - 1) = "(" /\ CharAt(text, o) = ")"
    IN \/ ~Empty(selection) /\ DeletesSelection("delete", swift)
       \/ Empty(selection) /\ o > 0 /\ Deletes(o - 1, IF pair THEN o + 1 ELSE o, "delete", swift)

DeleteForward(swift) ==
    \/ ~Empty(selection) /\ DeletesSelection("delete", swift)
    \/ /\ Empty(selection) /\ selection.head < Len(text)
       /\ Deletes(selection.head, selection.head + 1, "delete", swift)

DeleteWord ==
    \/ ~Empty(selection) /\ DeletesSelection("other", FALSE)
    \/ /\ Empty(selection)
       /\ \/ Deletes(PrevWord(text, selection.head), selection.head, "other", FALSE)
          \/ Deletes(selection.head, NextWord(text, selection.head), "other", FALSE)

\* To either end of the line, the head alone counting; at the end of a line
\* the next one is joined, at the first word the indent goes.
DeleteToLineEdge ==
    LET o == selection.head
        end == LineEnd(text, o)
        start == SmartLineStart(text, o)
    IN \/ Deletes(o, IF end = o THEN Right(text, o) ELSE end, "other", FALSE)
       \/ Deletes(IF start = o THEN LineStart(text, o) ELSE start, o, "other", FALSE)

\* The line of the caret goes, even when there is nothing of it: the step is
\* recorded all the same.
DeleteLine ==
    /\ EditWith(LineStart(text, selection.head), LineAfter(text, selection.head), <<>>,
                "other", FALSE)
    /\ Unmarks

Cut == IF Empty(selection) THEN DeleteLine ELSE DeletesSelection("other", FALSE)

DuplicateLine ==
    LET end == LineAfter(text, selection.head)
        line == Slice(text, LineStart(text, selection.head), end)
        ended == line # <<>> /\ line[Len(line)] = "\n"
    IN /\ EditWith(end, end, IF ended THEN line ELSE <<"\n">> \o line, "other", FALSE)
       /\ Unmarks
-----------------------------------------------------------------------------
(* Commands over every line of the selection: the edits are worked out      *)
(* against one text and made last to first.                                 *)

\* Where an offset goes when the edits before it have been made.
Shifted(o, plans) ==
    LET before == SelectSeq(plans, LAMBDA p : p.start < o)
        Grow(d, p) == d + Len(p.new) - Least(p.end - p.start, o - p.start)
    IN Most(o + FoldLeft(Grow, 0, before), 0)

ApplyLineEdits(plans) ==
    LET made == FoldRight(LAMBDA p, t : Replace(t, p.start, p.end, p.new), plans, text)
        after == [anchor |-> Shifted(selection.anchor, plans),
                  head |-> Shifted(selection.head, plans), goal |-> -1]
    IN /\ plans # <<>>
       /\ text' = made
       /\ selection' = after
       /\ undone' = Recorded([i \in DOMAIN plans |-> Edit(plans[i].start, plans[i].end, plans[i].new)],
                             after, "other", made, FALSE)
       /\ redone' = <<>>
       /\ unsound' = (unsound \/ marked # NoRange)
       /\ UNCHANGED <<marked, composed>>

\* One plan for each line that has one, top to bottom.
PlanLines(plans) ==
    LET rows == SetToSortSeq(DOMAIN plans, LAMBDA a, b : a < b)
    IN [i \in DOMAIN rows |-> plans[rows[i]]]

SelectedRows == RowsIn(text, Start(selection), End(selection))

Indent(delta) ==
    LET Wide(r) == Lead(Line(text, r), {" "})
        Next(r) == Most(Wide(r) + delta, 0)
    IN ApplyLineEdits(PlanLines(
         [r \in {r \in SelectedRows : Next(r) # Wide(r)} |->
            [start |-> r, end |-> r + Wide(r), new |-> Spaces(Next(r))]]))

\* Tab fills to the next stop, or indents the lines of a selection.
Tab ==
    \/ /\ Empty(selection)
       /\ EditWith(selection.head, selection.head,
                   Spaces(TabSize - (Column(text, selection.head) % TabSize)), "other", FALSE)
       /\ Unmarks
    \/ ~Empty(selection) /\ Indent(TabSize)
Outdent == Indent(-TabSize)

\* Comment the lines that say something, unless every one is commented.
ToggleComment ==
    LET Words(r) == SelectSeq(Line(text, r), LAMBDA c : c \notin Blanks)
        At(r) == r + Lead(Line(text, r), Blanks)
        Commented(r) == Words(r) # <<>> /\ Words(r)[1] = Mark
        commenting == \E r \in SelectedRows :
                        Words(r) # <<>> /\ ~Commented(r)
    IN ApplyLineEdits(PlanLines(
         [r \in {r \in SelectedRows : Words(r) # <<>>} |->
            IF commenting THEN [start |-> At(r), end |-> At(r), new |-> <<Mark>>]
            ELSE [start |-> At(r), end |-> At(r) + 1, new |-> <<>>]]))

\* Lay the selection, or everything, out again: the words stay, the blanks
\* change, the caret stays beside the word it was on.
Formats(t) ==
    LET words == SelectSeq(t, LAMBDA c : c \notin Blanks)
    IN IF words = <<>> THEN {} ELSE {words, <<"\n">> \o t} \ {t}

Format ==
    LET whole == \A i \in DOMAIN Slice(text, Start(selection), End(selection)) :
                    Slice(text, Start(selection), End(selection))[i] \in Blanks
        s == IF whole THEN 0 ELSE Start(selection)
        e == IF whole THEN Len(text) ELSE End(selection)
        Word(c) == c \notin Blanks
        Before(u, n) == Len(SelectSeq(SubSeq(u, 1, n), Word))
    IN \E new \in Formats(Slice(text, s, e)) :
         LET laid == OneLine(new)
             anchor == Before(Slice(text, s, e), selection.head - s)
             at == Min({n \in Pos(Len(laid)) : Before(laid, n) = anchor \/ n = Len(laid)})
         IN /\ text' = Replace(text, s, e, laid)
            /\ selection' = IF selection.head \in s..e THEN Cursor(s + at)
                            ELSE Cursor(s + Len(laid))
            /\ undone' = Append(undone,
                 [edits |-> <<Edit(s, e, laid)>>, before |-> [Cursor(e) EXCEPT !.anchor = s],
                  after |-> Cursor(s + Len(laid)),
                  kind |-> IF Len(laid) = 1 THEN "insert" ELSE "other", atOnce |-> FALSE,
                  was |-> text, is |-> text'])
            /\ redone' = <<>>
            /\ Unmarks
-----------------------------------------------------------------------------
(* The caret.                                                               *)

Motion(m, o) ==
    CASE m = "left" -> Left(text, o)
      [] m = "right" -> Right(text, o)
      [] m = "prev" -> PrevWord(text, o)
      [] m = "next" -> NextWord(text, o)
      [] m = "home" -> SmartLineStart(text, o)
      [] m = "end" -> LineEnd(text, o)
      [] m = "top" -> 0
      [] m = "bottom" -> Len(text)

\* A plain motion with something selected goes to the edge it points at, or
\* on from there when it is at that edge's end already.
Moved(m, extend) ==
    LET to == Motion(m, selection.head)
        side == IF to < selection.head THEN Start(selection) ELSE End(selection)
    IN IF extend THEN [selection EXCEPT !.head = to, !.goal = -1]
       ELSE IF Empty(selection) THEN Cursor(to)
       ELSE Cursor(IF Motion(m, side) = side THEN to ELSE side)

Move(m, extend) ==
    /\ selection' = Moved(m, extend)
    /\ undone' = BreakGroup(undone)
    /\ UNCHANGED <<text, redone, marked, composed, unsound>>

\* Up and down remember the column they set out from.
MoveVertically(down, extend) ==
    LET goal == IF selection.goal = -1 THEN Column(text, selection.head) ELSE selection.goal
        to == IF down THEN Down(text, selection.head, goal) ELSE Up(text, selection.head, goal)
    IN /\ mode = "full"
       /\ selection' = [anchor |-> IF extend THEN selection.anchor ELSE to, head |-> to,
                        goal |-> goal]
       /\ undone' = BreakGroup(undone)
       /\ UNCHANGED <<text, redone, marked, composed, unsound>>

\* A click, and a click with shift.
PlaceCursor(o, extend) ==
    /\ selection' = IF extend THEN [selection EXCEPT !.head = o, !.goal = -1] ELSE Cursor(o)
    /\ undone' = BreakGroup(undone)
    /\ UNCHANGED <<text, redone, marked, composed, unsound>>

\* A word, a line or everything; none of these ends a group.
Select ==
    /\ selection' \in
         {WordAt(text, o) : o \in Pos(Len(text))}
         \cup {[Cursor(LineStart(text, o)) EXCEPT !.head = LineAfter(text, o)] : o \in Pos(Len(text))}
         \cup {[Cursor(0) EXCEPT !.head = Len(text)]}
         \cup {Cursor(LineStart(text, o)) : o \in Pos(Len(text))}
    /\ UNCHANGED <<text, undone, redone, marked, composed, unsound>>

LoseFocus ==
    /\ undone' = BreakGroup(undone)
    /\ UNCHANGED <<text, selection, redone, marked, composed, unsound>>
-----------------------------------------------------------------------------
(* History, the input method, and a text put in from outside.               *)

Undo ==
    /\ undone # <<>>
    /\ LET tx == undone[Len(undone)]
       IN /\ text' = Back(text, tx.edits)
          /\ selection' = Clip(tx.before, text')
          /\ undone' = Front(undone)
          /\ redone' = Append(redone, tx)
          /\ unsound' = (unsound \/ tx.atOnce \/ marked # NoRange)
    /\ UNCHANGED <<marked, composed>>

Redo ==
    /\ redone # <<>>
    /\ LET tx == redone[Len(redone)]
       IN /\ text' = Forth(text, tx.edits)
          /\ selection' = Clip(tx.after, text')
          /\ redone' = Front(redone)
          /\ undone' = Append(undone, tx)
          /\ unsound' = (unsound \/ tx.atOnce \/ marked # NoRange)
    /\ UNCHANGED <<marked, composed>>

\* What a call of the input method replaces: the range it names, failing that
\* what is marked, failing that the selection.
Target(named) ==
    IF named # NoRange THEN named
    ELSE IF marked # NoRange THEN marked
    ELSE [start |-> Start(selection), end |-> End(selection)]

\* A half-composed syllable replaces itself and is marked; the method puts the
\* caret somewhere inside it.
Compose(named, new, caret) ==
    LET r == Target(named)
    IN /\ text' = Replace(text, r.start, r.end, new)
       /\ undone' = Recorded(<<Edit(r.start, r.end, new)>>, Cursor(r.start + Len(new)), "other",
                             text', FALSE)
       /\ redone' = <<>>
       /\ selection' = Cursor(r.start + caret)
       /\ marked' = IF new = <<>> THEN NoRange
                    ELSE [start |-> r.start, end |-> r.start + Len(new)]
       /\ composed' = new
       /\ UNCHANGED unsound

\* The composition is committed.
Settle(named, new) ==
    /\ IF named = NoRange /\ marked = NoRange
       THEN Inserts(new, FALSE)
       ELSE LET r == Target(named) IN EditWith(r.start, r.end, new, "other", FALSE)
    /\ Unmarks

Unmark == marked # NoRange /\ Unmarks /\ UNCHANGED <<text, selection, undone, redone>>

SetText(new) ==
    /\ text' = new
    /\ selection' = Cursor(IF mode = "single" THEN Len(new) ELSE 0)
    /\ undone' = <<>> /\ redone' = <<>> /\ marked' = NoRange
    /\ composed' = <<>> /\ unsound' = FALSE
-----------------------------------------------------------------------------
Init ==
    /\ mode \in Modes /\ text \in Texts
    /\ mode = "single" => "\n" \notin ToSet(text)
    /\ selection \in {Cursor(o) : o \in Pos(Len(text))}
                     \cup {[Cursor(0) EXCEPT !.head = Len(text)]}
    /\ undone = <<>> /\ redone = <<>> /\ marked = NoRange
    /\ composed = <<>> /\ unsound = FALSE /\ doubled = FALSE
    /\ steps = 0

Named == {NoRange} \cup (IF selection.head = 0 THEN {}
                      ELSE {[start |-> selection.head - 1, end |-> selection.head]})

Types(swift) == \/ \E c \in {Letter, " ", "(", ")"} : TypeChar(c, swift)
                \/ Backspace(swift) \/ DeleteForward(swift)

Edits ==
    \/ \E swift \in BOOLEAN : Types(swift)
    \/ Inserts(<<Letter, "\n">>, FALSE) /\ Unmarks
    \/ Newline \/ DeleteWord \/ DeleteToLineEdge \/ DeleteLine \/ Cut
    \/ Tab \/ Outdent \/ ToggleComment \/ Format

Moves ==
    \/ \E m \in {"left", "right", "prev", "next", "home", "end", "top", "bottom"},
          extend \in BOOLEAN : Move(m, extend)
    \/ \E down, extend \in BOOLEAN : MoveVertically(down, extend)
    \/ \E o \in Pos(Len(text)), extend \in BOOLEAN : PlaceCursor(o, extend)
    \/ Select \/ LoseFocus

Composes ==
    \/ \E n \in Named, new \in {<<>>, <<Letter>>, <<Letter, Letter>>} :
         \E caret \in Pos(Len(new)) : Compose(n, new, caret)
    \/ \E n \in Named : Settle(n, <<Letter, Letter>>)
    \/ Unmark

Next ==
    /\ steps < MaxSteps /\ steps' = steps + 1
    /\ UNCHANGED mode
    /\ \/ (Edits \/ Moves \/ Composes \/ Undo \/ Redo) /\ UNCHANGED doubled
       \/ DuplicateLine /\ doubled' = TRUE
       \/ \E new \in Texts : (mode = "single" => "\n" \notin ToSet(new)) /\ SetText(new)
                             /\ doubled' = FALSE

Spec == Init /\ [][Next]_vars
-----------------------------------------------------------------------------
Chars == {Letter, " ", "\n", "(", ")", Mark}

TypeOK ==
    /\ text \in Seq(Chars) /\ steps \in 0..MaxSteps
    /\ selection.goal >= -1

\* The two stacks of undo are one chain of texts with the one on screen in the
\* middle: each step begins where the step before it ended, so that any run of
\* undos and redos, whatever was typed, deleted, wrapped or composed and
\* however the steps were joined, shows only texts that were there before.  A
\* step of several edits made at once is excepted: see UndoPutsBack.
HistoryIsAChain ==
    unsound \/
    LET before == undone \o <<[was |-> text, is |-> text]>>
        after == redone \o <<[was |-> text, is |-> text]>>
    IN /\ \A i \in 1..Len(undone) : before[i].is = before[i + 1].was
       /\ \A i \in 1..Len(redone) : after[i].was = after[i + 1].is

\* One undo puts the text back as it was before the step, for a command over
\* several lines as for a key.
UndoPutsBack == [][Undo => text' = undone[Len(undone)].was]_vars

\* The caret, the far end of the selection and the range being composed are
\* places in the text, and that range holds what the input method last put in
\* it: the next syllable replaces the last one and nothing else.
PlacesInText ==
    unsound \/
    /\ {selection.anchor, selection.head} \subseteq Pos(Len(text))
    /\ marked # NoRange => /\ marked.end <= Len(text)
                        /\ Slice(text, marked.start, marked.end) = composed

\* A field of one line never comes to hold two, by typing, pasting or undoing.
FieldIsOneLine == mode = "single" /\ ~doubled => "\n" \notin ToSet(text)

\* Down through a short line and back up comes back to the column.
DownThenUp ==
    \A o \in Pos(Len(text)) :
        LineEnd(text, o) < Len(text) => Up(text, Down(text, o, Column(text, o)), Column(text, o)) = o
==============================================================================
