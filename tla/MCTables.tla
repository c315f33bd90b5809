------------------------------ MODULE MCTables ------------------------------
(***************************************************************************)
(* What a tab of a table does, side by side for TLC: writing rows back,    *)
(* designing the table, and browsing it.  A behaviour is one of one        *)
(* part's, and the others stay where they begin.                           *)
(***************************************************************************)
EXTENDS MCEditing, Browse

CONSTANT MaxTyped   \* bound: what is done to a design

VARIABLES part,
    reference, original, draft, editing, input, before, preview, saving, sent, reading,
    tables, listed, added, typedSoFar

\* Two tables to design: a key of one column, and of two.
Col(name, nullable) ==
    [name |-> name, type_name |-> "t", nullable |-> nullable, default |-> "", owned |-> FALSE,
     comment |-> ""]
MCDesigned ==
    {[name |-> "x", comment |-> "", key |-> {"a"}, columns |-> <<Col("a", FALSE), Col("b", TRUE)>>],
     [name |-> "x", comment |-> "", key |-> {"a", "b"},
      columns |-> <<Col("a", FALSE), Col("b", FALSE)>>]}

Design == INSTANCE TableDesign WITH
    pending <- saving, snapshot <- listed, doings <- typedSoFar,
    Tables <- MCDesigned, ColumnNames <- {"a", "b"}, TableNames <- {"x", "y"},
    TypeNames <- {"t"}, Defaults <- {"d"}, Comments <- {"c"}, Others <- {"b", "f"},
    MaxSteps <- MaxTyped, MaxForeign <- 1

\* Tables of three rows, a page holding two; one table has a key.
Condition(value, join) ==
    [enabled |-> TRUE, subject |-> "Column", op |-> "=", value |-> value, join |-> join]
MCStrips ==
    {<<[relation |-> t, chips |-> <<>>], [relation |-> u, chips |-> <<>>]>>,
     <<[relation |-> t, chips |-> <<Condition("x", "and"), Condition("y", "or"),
                                    Condition("z", "and")>>]>>}
MCMeaning == "x" :> {1, 2} @@ "y" :> {2, 3} @@ "z" :> {3} @@ "pointer" :> {1} @@ "null" :> {}

MCRows == 1..3
MCRank == <<0, 1, 0>>
MCPointsAt == t :> t @@ u :> t

designVars == <<reference, original, draft, editing, input, before, preview, saving, sent,
                reading, tables, listed, added, typedSoFar>>
all == <<part, vars, designVars, browseVars>>

\* What a part begins with varies only in its own behaviours.
TablesInit ==
    /\ part \in {"editing", "design", "browse"}
    /\ Init /\ Design!Init /\ BrowseInit
    /\ part # "design" => reference = None
    /\ part # "design" => \A name \in DOMAIN tables : tables[name].key = {"a"}
    /\ part # "browse" => Len(tabs) = 1

Only(name) ==
    /\ part = name /\ UNCHANGED part
    /\ IF name = "editing" THEN TRUE ELSE UNCHANGED vars
    /\ IF name = "design" THEN TRUE ELSE UNCHANGED designVars
    /\ IF name = "browse" THEN TRUE ELSE UNCHANGED browseVars

TablesNext ==
    \/ Only("editing") /\ Next
    \/ Only("design") /\ Design!Next
    \/ Only("browse") /\ BrowseNext

TablesSpec ==
    /\ TablesInit /\ [][TablesNext]_all
    /\ \A s \in Sessions, r \in Relations :
          /\ WF_all(Only("editing") /\ AnswerGrants(s, r))
          /\ []<>(asked[s][r] \notin Rights)
-----------------------------------------------------------------------------
\* The reading of privileges comes to rest.
GrantsSettle == part = "editing" => GrantsSettleOnceTold

\* A design: what is typed goes where the caret is, what Save says makes the
\* table that is drawn or is refused for a reason, and other clients' columns
\* stay.
DesignHolds == part = "design" =>
    Design!FieldShowsDraft /\ Design!SaysWhatIsDrawnUnlessKeyChangesHands
    /\ Design!RefusedForAReason /\ Design!ForeignColumnsStay

\* A design: a save that comes home shows what was saved, with nothing left to
\* save.
SavedDesignIsShown == [][part = "design" => Design!SavedIsShown]_all
=============================================================================
