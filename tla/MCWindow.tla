------------------------------ MODULE MCWindow ------------------------------
(* The tabs a window begins with, for the bounded instances of Window.      *)
EXTENDS Window

CONSTANTS app, logs   \* two sessions of one window

OneQuery == <<[kind |-> "Query", session |-> app]>>
TwoQueries == <<[kind |-> "Query", session |-> app], [kind |-> "Query", session |-> logs]>>
QueryAndTable == <<[kind |-> "Query", session |-> app], [kind |-> "Table", session |-> logs]>>
=============================================================================
