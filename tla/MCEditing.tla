----------------------------- MODULE MCEditing -----------------------------
(***************************************************************************)
(* A window to edit in: two tables of one server in the first pane's       *)
(* strip, and a table of the same name on another server in the second.    *)
(***************************************************************************)
EXTENDS Editing, TLC

CONSTANTS s1, s2, t, u

Table(s, r) == [session |-> s, relation |-> r]
Tabs == <<<<Table(s1, t), Table(s1, u)>>, <<Table(s2, t)>>>>
Told1 == t :> "write" @@ u :> "untold"
=============================================================================
