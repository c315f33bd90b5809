-------------------------------- MODULE MCParts --------------------------------
(***************************************************************************)
(* The parts that run by themselves, side by side for TLC: the type that   *)
(* holds staged edits, the grid above it, the text editor, the splitting   *)
(* of scripts, the layout of the window, and files written and imported.   *)
(* A behaviour is one of one part's, and the others stay where they begin. *)
(***************************************************************************)
EXTENDS PendingChanges, GridEdits, Integers

CONSTANTS
    MaxKeys, MaxScript, MaxPanes, MaxTabs, MaxGestures,  \* bounds, one part each
    MaxTyped, MaxImported

VARIABLES part,
    mode, text, caret, marked, undone, redone, composed, unsound, doubled, keys,
    script,
    layout, panes, activePane, nextPane, file, named, lost, gestures,
    delimited, typed, exported, sheet, activity, note, read_only, sent, logged, mistaken, asked

MCTexts == {<<"a", "\n", " ", "a">>, <<"(", ")">>}   \* the second is a field's

Text == INSTANCE EditorText WITH
    selection <- caret, steps <- keys,
    Texts <- MCTexts, Modes <- {"full", "single"}, TabSize <- 2, MaxSteps <- MaxKeys

Script == INSTANCE SqlScript WITH
    Alphabet <- {"a", "e", "'", ";", "-", "\n", "$", "/", "*", "\\"}, MaxLength <- MaxScript

Layout == INSTANCE WindowLayout WITH steps <- gestures, MaxSteps <- MaxGestures

MCTable == <<[name |-> <<"a">>, kind |-> "Text"], [name |-> <<"t">>, kind |-> "Bool"]>>
MCValues == {<<>>, << <<>> >>, << <<"a">> >>, << <<",">> >>, << <<"\"">> >>, << <<"\n", "a">> >>}
MCGrids ==   \* one row of two columns, or two rows of one
    {[headers |-> <<<<"a">>, <<"t">>>>, rows |-> <<<<v, w>>>>] : v \in MCValues, w \in MCValues}
    \cup {[headers |-> <<<<"t">>>>, rows |-> <<<<v>>, <<w>>>>] : v \in MCValues, w \in MCValues}

Files == INSTANCE Import WITH
    file <- delimited,
    Alphabet <- {",", ";", "\"", "\n", "\r", "t"},
    Begun <- {<<>>, <<"\"">>, <<"a", ";", " ", "t", "\n">>, <<"t", ",", "a", "\n", "a", ",", "t", "\n">>},
    Columns <- MCTable, Exported <- MCGrids, Batch <- 3, Params <- 3, MaxAsked <- 1

changesVars == vars
textVars == <<mode, text, caret, marked, undone, redone, composed, unsound, doubled, keys>>
layoutVars == <<layout, panes, activePane, nextPane, file, named, lost, gestures>>
filesVars == <<delimited, typed, exported, sheet, activity, note, read_only, sent, logged,
               mistaken, asked>>
all == <<part, changesVars, gridVars, textVars, script, layoutVars, filesVars>>

PartsInit ==
    /\ part \in {"changes", "grid", "text", "script", "layout", "files"}
    /\ Init /\ GridInit /\ Text!Init /\ Script!Init /\ Layout!Init
    /\ Files!Init
    /\ (mode = "single") = (text = <<"(", ")">>)
    /\ part # "text" => mode = "single" /\ caret = Text!Cursor(0)
    /\ part # "files" => delimited = <<>> /\ ~read_only

Only(name) ==
    /\ part = name /\ UNCHANGED part
    /\ IF name = "changes" THEN TRUE ELSE UNCHANGED changesVars
    /\ IF name = "grid" THEN TRUE ELSE UNCHANGED gridVars
    /\ IF name = "text" THEN TRUE ELSE UNCHANGED textVars
    /\ IF name = "script" THEN TRUE ELSE UNCHANGED script
    /\ IF name = "layout" THEN TRUE ELSE UNCHANGED layoutVars
    /\ IF name = "files" THEN TRUE ELSE UNCHANGED filesVars

PartsNext ==
    \/ Only("changes") /\ Next
    \/ Only("grid") /\ GridNext
    \/ Only("text") /\ Text!Next
    \/ Only("script") /\ Script!Next
    \/ Only("layout") /\ Layout!Next
    \/ Only("files") /\ Files!Next

PartsSpec == PartsInit /\ [][PartsNext]_all
-----------------------------------------------------------------------------
\* The editor: undo and redo show only texts that were there, the caret and a
\* composition are places in the text, a field of one line stays one, and a
\* column survives a short line.
TextHolds ==
    part = "text" =>
        /\ Text!HistoryIsAChain
        /\ Text!TypeOK /\ Text!PlacesInText /\ Text!FieldIsOneLine /\ Text!DownThenUp

\* The editor: one undo puts the text back, for a command over several lines
\* as for a key.
UndoPutsBack == Text!UndoPutsBack

\* The console: scripts come apart into statements.
ScriptSplits == part = "script" => Script!ScriptSplits

\* The window: the tree is whole and shows every pane, pins are in front, what
\* was typed stays with its tab, and what a quit wrote down is what the next
\* launch shows.
LayoutHolds ==
    /\ [](part = "layout" =>
            Layout!ShownUnlessLost /\ Layout!TreeIsWhole /\ Layout!PinnedInFront
            /\ Layout!TextStaysWithItsTab)
    /\ [][part = "layout" => Layout!ComesBackAsItWas]_all

\* Files: a file is read as its quotes say, and what was written comes back.
FilesReadBack == part = "files" => Files!ReadsAsQuoted /\ Files!ReadsBack

\* Files: blank lines do no harm.  Of a file this program wrote either every row
\* comes back or, read with another separator, the line an error names is the one
\* an editor shows.  The comments say both, so a file that breaks this breaks both.
BlankLineDoesNoHarm == part = "files" => Files!RowsComeBack \/ Files!NamesTheLine

\* Import: what is sent is what the sheet showed, and the log calls it what it
\* was.
ImportHolds == part = "files" => Files!WritesWhatIsShown /\ Files!LoggedAsItWas
================================================================================
