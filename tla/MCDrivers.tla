------------------------------ MODULE MCDrivers ------------------------------
(***************************************************************************)
(* The four driver modules, the two of the local file and the connections  *)
(* of a window, side by side for TLC: a behaviour is one of one of them,   *)
(* and the others stay where they begin.                                   *)
(***************************************************************************)
EXTENDS MCConnections, SqliteClient, ClickHouseClient, RedisClient, RedisKey, SavedQueries, LocalStore

VARIABLE engine

MCTexts == {<<<<"line", "select">>>>,
            <<<<"line", "insert">>, <<"blank", "values">>>>,
            <<<<"line", "insert">>, <<"line", "values">>>>,
            <<<<"line", "insert">>, <<"line", "select">>, <<"blank", "values">>>>}

MCResults == {<<>>, <<1>>, <<1, 1>>, <<2, 1>>}

MCSuggested == [text \in {"a", "b"} |-> text]

all == <<engine, sqliteVars, clickhouseVars, redisVars, keyVars, savedVars, storeVars, vars>>

DriversInit ==
    /\ engine \in {"sqlite", "clickhouse", "redis", "key", "queries", "local", "connections"}
    /\ Init /\ (engine # "connections" => saved.tabs = <<>> /\ session = 0)
    /\ SqliteInit
    /\ ClickHouseInit /\ (engine # "clickhouse" => ~readOnly)
    /\ KeyInit /\ (engine # "key" => kind = "list" /\ ever = {})
    /\ QueriesInit
    /\ LocalInit /\ (engine # "local" => version = 0)
    /\ RedisInit
    /\ engine # "redis" => old = {} /\ query.kind = AnyType /\ query.memory /\ \A k \in Keys : data[0][k] = "none"

Only(name) ==
    /\ engine = name /\ UNCHANGED engine
    /\ IF name = "sqlite" THEN TRUE ELSE UNCHANGED sqliteVars
    /\ IF name = "clickhouse" THEN TRUE ELSE UNCHANGED clickhouseVars
    /\ IF name = "redis" THEN TRUE ELSE UNCHANGED redisVars
    /\ IF name = "key" THEN TRUE ELSE UNCHANGED keyVars
    /\ IF name = "queries" THEN TRUE ELSE UNCHANGED savedVars
    /\ IF name = "local" THEN TRUE ELSE UNCHANGED storeVars
    /\ IF name = "connections" THEN TRUE ELSE UNCHANGED vars

DriversNext ==
    \/ Only("sqlite") /\ SqliteNext
    \/ Only("clickhouse") /\ ClickHouseNext
    \/ Only("redis") /\ RedisNext
    \/ Only("key") /\ KeyNext
    \/ Only("queries") /\ QueriesNext
    \/ Only("local") /\ LocalNext
    \/ Only("connections") /\ Next

DriversSpec ==
    /\ DriversInit /\ [][DriversNext]_all
    /\ WF_all(Only("clickhouse") /\ Answers)
    /\ WF_all(Only("redis") /\ RedisWorks)
    /\ WF_all(Only("key") /\ KeyWorks)

SpecNoFairness == DriversInit /\ [][DriversNext]_all
-----------------------------------------------------------------------------
\* A query whose text was read rightly is answered; a walk and the pages of a
\* key come to an end.
CallsEnd ==
    /\ FetchEnds
    /\ engine = "redis" ~> complete
    /\ engine = "key" ~> at = "done"
=============================================================================
