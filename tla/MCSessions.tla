----------------------------- MODULE MCSessions -----------------------------
(***************************************************************************)
(* What goes through a session's slot, side by side for TLC: the calls     *)
(* that take it and their answers, and a commit with its transaction.  A   *)
(* behaviour is one of one part's, and the other stays where it begins.    *)
(***************************************************************************)
EXTENDS MCSession, Commit

CONSTANTS a, b   \* the values

VARIABLE part

all == <<part, vars, commitVars>>

\* What a part begins with varies only in its own behaviours.  Nothing tells the
\* values apart but their being two, so of two tables that exchange them one will
\* do: the one whose first value is a.
SessionsInit ==
    /\ part \in {"slot", "commit"}
    /\ Init /\ CommitInit
    /\ part # "slot" => caps = Sql /\ ~readOnly
    /\ \A j \in Keys : table[j] = b => \E i \in Keys : i < j /\ table[i] = a
    /\ part # "commit" => \A k \in Keys : table[k] = Nothing

Only(name) ==
    /\ part = name /\ UNCHANGED part
    /\ IF name = "slot" THEN TRUE ELSE UNCHANGED vars
    /\ IF name = "commit" THEN TRUE ELSE UNCHANGED commitVars

SessionsNext ==
    \/ Only("slot") /\ Next
    \/ Only("commit") /\ CommitNext

SessionsSpec == SessionsInit /\ [][SessionsNext]_all /\ Fairness /\ CommitFairness
=============================================================================
