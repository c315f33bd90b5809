----------------------------- MODULE MCSession -----------------------------
(* The capability flags of the engines, as db/src/driver.rs gives them, for *)
(* the bounded instances of Session.                                        *)
EXTENDS Session

Sql == [sql |-> TRUE, paged_catalog |-> FALSE, cancel |-> TRUE,
        calls |-> {"catalog", "run", "apply"}]
Redis == [sql |-> FALSE, paged_catalog |-> TRUE, cancel |-> FALSE,
          calls |-> {"catalog", "scan", "key", "run"}]
OnlySql == {Sql}
SqlAndRedis == {Sql, Redis}
=============================================================================
