-------------------------- MODULE ClickHouseClient --------------------------
(***************************************************************************)
(* db_clickhouse/src/client.rs: one socket to a ClickHouse server, one     *)
(* query on it at a time, and nothing on the wire that says which query a  *)
(* packet belongs to.  The client stops a query from two sides: itself,    *)
(* when it has the rows it asked for, and the user, whose cancel is a      *)
(* future of its own that may reach the wire after the query is over.      *)
(*                                                                         *)
(* The server is a model of how the client uses one: it takes a query, an  *)
(* empty block that ends the external data, for `insert ... values' it     *)
(* sends a header and waits for another empty block, then sends blocks of  *)
(* rows and ends the stream, or says an exception.                         *)
(***************************************************************************)
EXTENDS Naturals, Sequences

CONSTANTS
    Texts,      \* statements: sequences of <<white space before, word>>
    Results,    \* what the server may find: the sizes of its blocks
    MaxRows,    \* rows a query is asked for
    MaxAsks,    \* bound: queries
    MaxCancels  \* bound: cancels pressed

ASSUME ClickHouseAssumption ==
    /\ Texts \subseteq Seq({"blank", "line"} \X STRING) \ {<<>>}
    /\ Results \subseteq Seq(Nat)
    /\ MaxRows \in Nat /\ MaxAsks \in Nat /\ MaxCancels \in Nat

VARIABLES
    readOnly,   \* the connection is saved as read-only
    closed,     \* the client knows that the socket is gone
    broken,     \* it is
    asks,       \* every query: its text, its result, and what was answered
    fetch,      \* the query being fetched: `Fetch'
    toServer, toClient,
    server,     \* the query the server is at
    waiting,    \* cancels pressed and not sent
    pressCount,
    stopped     \* queries the server stopped because of a cancel

clickhouseVars ==
    <<readOnly, closed, broken, asks, fetch, toServer, toClient, server, waiting, pressCount, stopped>>

NoFetch == [on |-> FALSE, rows |-> 0, truncated |-> FALSE, canceled |-> FALSE, wants |-> FALSE]
NoQuery == [k |-> 0, phase |-> "idle", left |-> <<>>, canceled |-> FALSE]

ClickHouseInit ==
    /\ readOnly \in BOOLEAN /\ closed = FALSE /\ broken = FALSE
    /\ asks = <<>> /\ fetch = NoFetch
    /\ toServer = <<>> /\ toClient = <<>> /\ server = NoQuery
    /\ waiting = 0 /\ pressCount = 0 /\ stopped = {}

\* How many rows the first i blocks have.
Sums(blocks) ==
    LET sum[i \in 0..Len(blocks)] == IF i = 0 THEN 0 ELSE sum[i - 1] + blocks[i] IN sum

Total(blocks) == Sums(blocks)[Len(blocks)]
-----------------------------------------------------------------------------
(* What the statement is: what the server makes of it, and what the client  *)
(* reads out of its text.                                                  *)

\* `leading_keyword'.
Leading(text) == text[1][2]

\* Where a word is first found; beyond the end when it is not.
FoundAt(text, words) ==
    LET at == {i \in DOMAIN text : text[i] \in words}
    IN IF at = {} THEN Len(text) + 1 ELSE CHOOSE i \in at : \A j \in at : i <= j

WaitsForRows(text, spaces) ==
    /\ Leading(text) = "insert"
    /\ FoundAt(text, spaces \X {"values"}) < FoundAt(text, spaces \X {"select"})

\* The server's parser takes any white space before a word ...
NeedsRows(text) == WaitsForRows(text, {"blank", "line"})

\* ... and `expects_client_data' looks for a blank.
ExpectsClientData(text) == WaitsForRows(text, {"blank"})

IsReadOnlyStatement(text) == Leading(text) \in {"select", "show"}

\* Only a read has rows.
ResultsOf(text) == IF IsReadOnlyStatement(text) THEN Results ELSE {<<>>}
-----------------------------------------------------------------------------
(* The client.                                                             *)

QueryPacket(k) == <<"query", k>>
EmptyBlock == <<"empty">>
CancelPacket == <<"cancel">>

Current == Len(asks)
Answer(told) ==
    /\ asks' = [asks EXCEPT ![Current].told = told, ![Current].rows = fetch'.rows,
                            ![Current].truncated = fetch'.truncated]

\* `fetch': refused without a word on the wire, or the query and the empty
\* block after it, in one piece.  A send that fails marks the socket.
Fetch(text, result) ==
    /\ ~fetch.on /\ Current < MaxAsks
    /\ LET refused == closed \/ (readOnly /\ ~IsReadOnlyStatement(text))
           sent == ~refused /\ ~broken
       IN /\ asks' = Append(asks, [text |-> text, result |-> result, rows |-> 0, truncated |-> FALSE,
                                   told |-> IF sent THEN "nothing" ELSE "error"])
          /\ closed' = (closed \/ (~refused /\ broken))
          /\ fetch' = IF sent THEN [NoFetch EXCEPT !.on = TRUE, !.wants = ExpectsClientData(text)]
                              ELSE fetch
          /\ toServer' = IF sent THEN toServer \o <<QueryPacket(Current + 1), EmptyBlock>> ELSE toServer
    /\ UNCHANGED <<readOnly, broken, toClient, server, waiting, pressCount, stopped>>

\* `Fetch::absorb': what fits of a block, and whether something did not.
Absorb(f, rows) ==
    LET room == MaxRows - f.rows
        take == IF rows < room THEN rows ELSE room
    IN [f EXCEPT !.rows = @ + take, !.truncated = @ \/ rows > take]

\* A block of the stream: the header of an insert is answered with "that is
\* all"; the first block that does not fit, with a cancel.
\* Slip: no header is.
ReadData_silent(rows) ==
    LET f == Absorb(fetch, rows)
        stop == f.truncated /\ ~f.canceled
    IN /\ fetch' = [f EXCEPT !.canceled = @ \/ stop]
       /\ toServer' = toServer \o (IF stop THEN <<CancelPacket>> ELSE <<>>)
       /\ UNCHANGED <<closed, asks>>

ReadData(rows) ==
    LET answersHeader == fetch.wants /\ rows = 0
        f == [Absorb(fetch, rows) EXCEPT !.wants = @ /\ ~answersHeader]
        stop == f.truncated /\ ~f.canceled
    IN IF broken /\ (answersHeader \/ stop)
         THEN /\ closed' = TRUE
              /\ fetch' = NoFetch /\ Answer("error")
              /\ UNCHANGED toServer
         ELSE /\ fetch' = [f EXCEPT !.canceled = @ \/ stop]
              /\ toServer' = toServer \o (IF answersHeader THEN <<EmptyBlock>> ELSE <<>>)
                                      \o (IF stop THEN <<CancelPacket>> ELSE <<>>)
              /\ UNCHANGED <<closed, asks>>

\* `finish': the rows so far are the answer.
FinishFetch ==
    /\ fetch' = [fetch EXCEPT !.on = FALSE]
    /\ Answer("ok")
    /\ UNCHANGED <<closed, toServer>>

\* An exception ends the fetch.  One that answers the client's own cancel is
\* not a failure; one whose code is a connection's marks the socket.
ReadException(class) ==
    IF class = "canceled" /\ fetch.canceled
      THEN FinishFetch
      ELSE /\ fetch' = NoFetch
           /\ Answer(IF class = "canceled" THEN "canceled" ELSE "error")
           /\ closed' = (closed \/ class = "connection")
           /\ UNCHANGED toServer

\* The loop of `fetch': one packet.  Progress, logs, totals and the like are
\* read and change nothing here.
\* Slip: its own cancel is taken for the end of the stream.
ReadPacket_eager ==
    /\ fetch.on /\ toClient # <<>>
    /\ toClient' = Tail(toClient)
    /\ LET p == Head(toClient) IN
       IF fetch.canceled THEN FinishFetch
       ELSE \/ p.what = "data" /\ ReadData(p.rows)
            \/ p.what = "end" /\ FinishFetch
            \/ p.what = "exception" /\ ReadException(p.class)
    /\ UNCHANGED <<readOnly, broken, server, waiting, pressCount, stopped>>

ReadPacket ==
    /\ fetch.on /\ toClient # <<>>
    /\ toClient' = Tail(toClient)
    /\ LET p == Head(toClient) IN
       \/ p.what = "data" /\ ReadData(p.rows)
       \/ p.what = "end" /\ FinishFetch
       \/ p.what = "exception" /\ ReadException(p.class)
    /\ UNCHANGED <<readOnly, broken, server, waiting, pressCount, stopped>>

\* A read that fails: `classify' marks the socket.
ReadFails ==
    /\ fetch.on /\ toClient = <<>> /\ broken
    /\ closed' = TRUE
    /\ fetch' = NoFetch /\ Answer("error")
    /\ UNCHANGED <<readOnly, broken, toServer, toClient, server, waiting, pressCount, stopped>>

\* `cancel': the user presses; the future it gave takes the writer's lock and
\* sends, whatever has happened to the query since.
PressCancel ==
    /\ fetch.on /\ pressCount < MaxCancels
    /\ pressCount' = pressCount + 1 /\ waiting' = waiting + 1
    /\ UNCHANGED <<readOnly, closed, broken, asks, fetch, toServer, toClient, server, stopped>>

SendCancel ==
    /\ waiting > 0
    /\ waiting' = waiting - 1
    /\ IF broken THEN closed' = TRUE /\ UNCHANGED toServer
                 ELSE toServer' = Append(toServer, CancelPacket) /\ UNCHANGED closed
    /\ UNCHANGED <<readOnly, broken, asks, fetch, toClient, server, pressCount, stopped>>
-----------------------------------------------------------------------------
(* The server and the wire.                                                *)

Data(k, rows) == [k |-> k, what |-> "data", rows |-> rows]
End(k) == [k |-> k, what |-> "end"]
Says(k, class) == [k |-> k, what |-> "exception", class |-> class]

TakesOne == toServer' = Tail(toServer) /\ UNCHANGED broken

\* It takes a packet.  A block it does not wait for makes it hang up.
ServerTakes ==
    /\ toServer # <<>> /\ ~broken
    /\ LET p == Head(toServer) IN
       \/ /\ p[1] = "query" /\ server.phase = "idle"
          /\ server' = [k |-> p[2], phase |-> "external", left |-> asks[p[2]].result, canceled |-> FALSE]
          /\ TakesOne /\ UNCHANGED <<toClient, stopped>>
       \/ /\ p[1] = "empty" /\ server.phase = "external"
          /\ LET shows == IF NeedsRows(asks[server.k].text) \/ IsReadOnlyStatement(asks[server.k].text)
                            THEN <<Data(server.k, 0)>> ELSE <<>>
             IN toClient' = toClient \o shows
          /\ server' = [server EXCEPT !.phase = IF NeedsRows(asks[server.k].text) THEN "rows" ELSE "run"]
          /\ TakesOne /\ UNCHANGED stopped
       \/ /\ p[1] = "empty" /\ server.phase = "rows"
          /\ server' = [server EXCEPT !.phase = "run"]
          /\ TakesOne /\ UNCHANGED <<toClient, stopped>>
       \/ /\ p[1] = "empty" /\ server.phase \in {"idle", "run"}
          /\ server' = [server EXCEPT !.phase = "lost"]
          /\ broken' = TRUE /\ toServer' = <<>>
          /\ UNCHANGED <<toClient, stopped>>
       \/ /\ p[1] = "cancel"
          /\ IF server.k = 0
               THEN UNCHANGED <<server, stopped>>
               ELSE /\ stopped' = stopped \union {server.k}
                    /\ server' = [server EXCEPT !.canceled = TRUE, !.phase = "run"]
          /\ TakesOne /\ UNCHANGED toClient
    /\ UNCHANGED <<readOnly, closed, asks, fetch, waiting, pressCount>>

\* It sends a block, or is done, or gives up.
ServerSends ==
    /\ server.phase = "run" /\ ~broken
    /\ \/ /\ ~server.canceled /\ server.left # <<>>
          /\ toClient' = Append(toClient, Data(server.k, Head(server.left)))
          /\ server' = [server EXCEPT !.left = Tail(@)]
       \/ /\ server.canceled \/ server.left = <<>>
          /\ toClient' = Append(toClient, End(server.k))
          /\ server' = NoQuery
       \/ /\ \E class \in {"server", "connection"} \union (IF server.canceled THEN {"canceled"} ELSE {}) :
               toClient' = Append(toClient, Says(server.k, class))
          /\ server' = NoQuery
    /\ UNCHANGED <<readOnly, closed, broken, asks, fetch, toServer, waiting, pressCount, stopped>>

\* The socket goes; what was sent may still be read.
Breaks ==
    /\ ~broken /\ broken' = TRUE
    /\ toServer' = <<>>
    /\ UNCHANGED <<readOnly, closed, asks, fetch, toClient, server, waiting, pressCount, stopped>>

ClickHouseNext ==
    \/ \E text \in Texts : \E result \in ResultsOf(text) : Fetch(text, result)
    \/ ReadPacket \/ ReadFails \/ PressCancel \/ SendCancel
    \/ ServerTakes \/ ServerSends \/ Breaks

\* The client's task reads what has come; the server answers.
Answers == ReadPacket \/ ReadFails \/ ServerTakes \/ ServerSends
ClickHouseFairness == WF_clickhouseVars(Answers)

ClickHouseSpec == ClickHouseInit /\ [][ClickHouseNext]_clickhouseVars /\ ClickHouseFairness
-----------------------------------------------------------------------------
\* What is on its way to the client belongs to the query it fetches, and
\* between two queries nothing is.
InStep ==
    \A i \in DOMAIN toClient : ~closed => fetch.on /\ toClient[i].k = Current

\* The server is sent a block it does not wait for only when a cancel ended
\* its waiting first.
NoStrayBlock == server.phase = "lost" => stopped # {}

\* An answer that is not said to be cut short has every row, unless a cancel
\* reached the server while it was at the query.
WholeOrSaid ==
    \A k \in DOMAIN asks : (asks[k].told = "ok" /\ ~asks[k].truncated /\ k \notin stopped) =>
        asks[k].rows = Total(asks[k].result)

\* Every packet is read by the query it belongs to, the server is sent no block
\* it does not wait for, and rows that are not all there are said to be cut
\* short or were canceled (client.rs: "nothing in between says which query it
\* belongs to").
ClickHouseInStep == InStep /\ NoStrayBlock /\ WholeOrSaid

\* A query is answered, whatever is pressed and wherever the socket breaks,
\* unless the server waits for rows that the client did not read out of the
\* text.
FetchEnds ==
    (fetch.on /\ NeedsRows(asks[Current].text) = ExpectsClientData(asks[Current].text)) ~> ~fetch.on
=============================================================================
