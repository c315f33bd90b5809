---------------------------- MODULE MCConnections ----------------------------
(* What the run before a bounded instance of Connections left: nothing, as   *)
(* before a first launch, or a script of one connection and a table of the   *)
(* other.                                                                    *)
EXTENDS Connections

MCWritten ==
    {[tabs |-> <<>>, active |-> 0, place |-> Nowhere],
     [tabs |-> << <<"Query", <<"a", "x">>>>, <<"Table", <<"b", "x">>>> >>,
      active |-> 1, place |-> <<"a", "x">>]}
=============================================================================
