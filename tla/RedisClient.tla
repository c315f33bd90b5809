---------------------------- MODULE RedisClient ----------------------------
(***************************************************************************)
(* db_redis: the key browser walks a keyspace with SCAN over the one       *)
(* connection that the console types commands into (client.rs, scan.rs,    *)
(* driver.rs, and the caller, session.rs:525).  A walk is a sequence of    *)
(* calls to list_keys, each of several round trips; keys come, go and      *)
(* change their type in between, and a server may be too old for SCAN's    *)
(* TYPE or refuse MEMORY USAGE, which is only found out by asking.         *)
(*                                                                         *)
(* A key is a number, its bucket: a cursor is the bucket a walk is at, 0   *)
(* the end.  Data[d] is what database d holds.  Nothing here covers the    *)
(* second time SCAN may return a key when the server's table is resized.   *)
(***************************************************************************)
EXTENDS Naturals, Sequences, FiniteSets, SequencesExt

CONSTANTS
    MaxKey,      \* the keys are 1..MaxKey
    Types,       \* what a key may hold
    Budget,      \* keys a call to list_keys is to bring back
    MaxChanges,  \* bound: keys that come, go or change
    MaxFailures, \* bound: round trips that fail
    MaxLines,    \* bound: command lines of the console
    AnyType      \* the query of a browser that wants every key

ASSUME RedisAssumption ==
    /\ MaxKey \in Nat \ {0} /\ Budget \in Nat
    /\ Types # {} /\ "none" \notin Types /\ AnyType \notin Types
    /\ MaxChanges \in Nat /\ MaxFailures \in Nat /\ MaxLines \in Nat

VARIABLES
    old,        \* what the server refuses: nothing, or "type" and "memory"
    data,       \* what every database holds: a type, or "none"
    selected,   \* the database the socket is at
    queueing,   \* it is between MULTI and EXEC
    hasType, hasMemory,  \* what the client still believes of the server
    query,      \* the walk's query: the type it wants, and whether sizes
    cursor,     \* the caller's cursor: a bucket, or 0 before the first page
    listed,     \* the keys the caller has
    complete,   \* the caller was told that the walk is over
    call,       \* list_keys under way
    present,    \* keys in the database since the walk began, their type the same
    moved,      \* the console did something to the connection
    changes, failures, lines

redisVars == <<old, data, selected, queueing, hasType, hasMemory, query, cursor, listed, complete,
            call, present, moved, changes, failures, lines>>
caller == <<query, cursor, listed, complete>>
keyspace == <<old, data, selected, queueing>>
ghosts == <<present, moved>>
bounds == <<changes, failures, lines>>

Keys == 1..MaxKey
NoCall == [at |-> "idle", pos |-> 0, found |-> {}, got |-> <<>>, done |-> FALSE]
Home == 0
Fits(type, wanted) == type # "none" /\ wanted \in {AnyType, type}

RedisInit ==
    /\ old \in {{}, {"type", "memory"}}
    /\ data \in [{0, 1} -> [Keys -> Types \union {"none"}]]
    /\ data[1] = [k \in Keys |-> IF k = 1 THEN CHOOSE t \in Types : TRUE ELSE "none"]
    /\ selected = Home /\ queueing = FALSE
    /\ hasType = TRUE /\ hasMemory = TRUE
    /\ query \in [kind : Types \union {AnyType}, memory : BOOLEAN]
    /\ cursor = 0 /\ listed = {} /\ complete = FALSE /\ call = NoCall
    /\ present = {k \in Keys : data[Home][k] # "none"} /\ moved = FALSE
    /\ changes = 0 /\ failures = 0 /\ lines = 0
-----------------------------------------------------------------------------
\* `list_keys': a walk is rebuilt from the cursor the caller holds.
ListKeys ==
    /\ call.at = "idle" /\ ~complete
    /\ call' = [NoCall EXCEPT !.at = "walk", !.pos = cursor]
    /\ UNCHANGED <<keyspace, hasType, hasMemory, caller, ghosts, bounds>>

Asks == query.kind # AnyType /\ hasType

\* SCAN's answer: the bucket, and the next one; 0 is the start and the end.
Bucket(pos) == IF pos = 0 THEN 1 ELSE pos
NextBucket(pos) == IF Bucket(pos) = MaxKey THEN 0 ELSE Bucket(pos) + 1

\* `walk' and `scan_reply'.  Inside MULTI the answer is no scan's, which reads
\* as an empty page and the end of the walk.
Walk ==
    /\ call.at = "walk"
    /\ ~(Asks /\ "type" \in old)
    /\ LET k == Bucket(call.pos)
           next == IF queueing THEN 0 ELSE NextBucket(call.pos)
           found == {j \in {k} : ~queueing /\ data[selected][j] # "none"
                                 /\ (Asks => data[selected][j] = query.kind)}
       IN call' = [call EXCEPT !.pos = next, !.done = (next = 0), !.found = found,
                               !.at = IF found = {} THEN "page" ELSE "describe"]
    /\ UNCHANGED <<keyspace, hasType, hasMemory, caller, ghosts, bounds>>

\* SCAN ... TYPE that is refused is asked for again without, for good.
WalkRefused ==
    /\ call.at = "walk" /\ Asks
    /\ \/ "type" \in old /\ UNCHANGED bounds
       \/ failures < MaxFailures /\ failures' = failures + 1 /\ UNCHANGED <<changes, lines>>
    /\ hasType' = FALSE
    /\ UNCHANGED <<keyspace, hasMemory, caller, call, ghosts>>

\* `describe': the type of each key, as it is by now.  One that went in the
\* meantime is not listed, nor, when the server did not choose by type, one
\* of another type.  MULTI answers nothing that is a type.
Describe ==
    /\ call.at = "describe"
    /\ ~(query.memory /\ hasMemory /\ "memory" \in old)
    /\ LET kept == {k \in call.found :
                      /\ ~queueing /\ data[selected][k] # "none"
                      /\ hasType \/ Fits(data[selected][k], query.kind)}
       IN call' = [call EXCEPT !.at = "page", !.found = {},
                               !.got = @ \o SetToSeq({<<k, data[selected][k]>> : k \in kept})]
    /\ UNCHANGED <<keyspace, hasType, hasMemory, caller, ghosts, bounds>>

\* MEMORY USAGE refused: the page again without, and every page after it.
DescribeRefused ==
    /\ call.at = "describe" /\ query.memory /\ hasMemory
    /\ \/ "memory" \in old /\ UNCHANGED bounds
       \/ failures < MaxFailures /\ failures' = failures + 1 /\ UNCHANGED <<changes, lines>>
    /\ hasMemory' = FALSE
    /\ UNCHANGED <<keyspace, hasType, caller, call, ghosts>>

\* `take': pages until there are enough keys or no more buckets.
TakeMore ==
    /\ call.at = "page" /\ ~call.done /\ Len(call.got) < Budget
    /\ call' = [call EXCEPT !.at = "walk"]
    /\ UNCHANGED <<keyspace, hasType, hasMemory, caller, ghosts, bounds>>

\* The listing lands: the keys are added, and the cursor is where the walk is.
\* Slip: a page of no keys is taken for the last.
PageLands_empty ==
    /\ call.at = "page" /\ (call.done \/ Len(call.got) >= Budget \/ call.got = <<>>)
    /\ listed' = listed \union Range(call.got)
    /\ complete' = (call.done \/ call.got = <<>>)
    /\ cursor' = call.pos
    /\ call' = NoCall
    /\ UNCHANGED <<keyspace, hasType, hasMemory, query, ghosts, bounds>>

PageLands ==
    /\ call.at = "page" /\ (call.done \/ Len(call.got) >= Budget)
    /\ listed' = listed \union Range(call.got)
    /\ complete' = call.done
    /\ cursor' = call.pos
    /\ call' = NoCall
    /\ UNCHANGED <<keyspace, hasType, hasMemory, query, ghosts, bounds>>

\* A round trip that fails otherwise ends the call; what it had collected is
\* dropped, and the caller's cursor is where it was.
Fails ==
    /\ call.at \in {"walk", "describe"} /\ failures < MaxFailures
    /\ ~(call.at = "walk" /\ Asks) /\ ~(call.at = "describe" /\ query.memory /\ hasMemory)
    /\ failures' = failures + 1
    /\ call' = NoCall
    /\ UNCHANGED <<keyspace, hasType, hasMemory, caller, ghosts, changes, lines>>

\* `query': a line of the console, on the same socket.  The connection that
\* is read-only lets SELECT through, and MULTI is no read.
Console(line) ==
    /\ call.at = "idle" /\ lines < MaxLines
    /\ lines' = lines + 1
    /\ CASE line = "select" -> selected' = (IF queueing THEN selected ELSE 1) /\ UNCHANGED queueing
         [] line = "multi" -> queueing' = TRUE /\ UNCHANGED selected
         [] line = "exec" -> queueing' = FALSE /\ UNCHANGED selected
    /\ moved' = TRUE
    /\ UNCHANGED <<old, data, hasType, hasMemory, caller, call, present, changes, failures>>

\* Somebody else's write, or a key's time is over.
Change(k, type) ==
    /\ changes < MaxChanges /\ data[Home][k] # type
    /\ changes' = changes + 1
    /\ data' = [data EXCEPT ![Home][k] = type]
    /\ present' = present \ {k}
    /\ UNCHANGED <<old, selected, queueing, hasType, hasMemory, caller, call, moved, failures, lines>>

RedisNext ==
    \/ ListKeys \/ Walk \/ WalkRefused \/ Describe \/ DescribeRefused \/ TakeMore \/ PageLands
    \/ Fails
    \/ \E line \in {"select", "multi", "exec"} : Console(line)
    \/ \E k \in Keys, type \in Types \union {"none"} : Change(k, type)

\* `scan_more_keys' asks for the next page when one has landed; the server answers.
RedisWorks == ListKeys \/ Walk \/ WalkRefused \/ Describe \/ DescribeRefused \/ TakeMore \/ PageLands
RedisFairness == WF_redisVars(RedisWorks)

RedisSpec == RedisInit /\ [][RedisNext]_redisVars /\ RedisFairness
-----------------------------------------------------------------------------
\* A key that was there, as it is, from the start of a walk to its end is
\* listed (scan.rs:10), whatever the server refuses and whichever calls fail;
\* provided the console left the connection alone.
FindsWhatStays ==
    (complete /\ ~moved) =>
        \A k \in present : Fits(data[Home][k], query.kind) => <<k, data[Home][k]>> \in listed

\* Only keys of the type asked for are listed, but for one that changed
\* between the page and the question what it is.
ListsOnlyItsType == \A e \in listed : e[1] \in present => Fits(e[2], query.kind)

\* A walk lists what stayed and fits, and nothing of another type.
RedisWalks == FindsWhatStays /\ ListsOnlyItsType

\* A walk comes to its end.
WalkEnds == <>complete
=============================================================================
