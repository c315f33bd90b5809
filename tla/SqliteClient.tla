---------------------------- MODULE SqliteClient ----------------------------
(***************************************************************************)
(* db_sqlite/src/client.rs: SQLite has no async interface, so every call   *)
(* is a closure on a thread that may block, and dropping the future that   *)
(* waits for it stops nothing.  A cancel reaches the thread from outside   *)
(* in two steps: it raises a flag, then it interrupts whatever statement   *)
(* runs.  The session holds one connection and has one call on it at a     *)
(* time; after a disconnect the old thread may still be at work while a    *)
(* new connection is open to the same file.                                *)
(*                                                                         *)
(* A commit is Writes statements; <<k, n>> is what statement n of call k   *)
(* writes.  The file is what another connection would read.                *)
(***************************************************************************)
EXTENDS Naturals, Sequences, FiniteSets

CONSTANTS
    Writes,     \* statements in a commit
    MaxOpens,   \* bound: connections opened
    MaxCalls,   \* bound: calls made
    MaxPresses  \* bound: cancels pressed

ASSUME SqliteAssumption ==
    /\ Writes \in Nat \ {0}   \* a commit is of at least one statement
    /\ MaxOpens \in Nat /\ MaxCalls \in Nat /\ MaxPresses \in Nat

VARIABLES
    held,     \* the connection the session holds, 0 for none
    opened,   \* connections opened so far
    thread,   \* what the thread of each connection is doing
    flag,     \* `canceled', of each connection
    txn,      \* the transaction open on each: "none", "deferred", "immediate"
    buffer,   \* what each wrote that is not in the file
    file,
    calls,    \* of each call: what it is, what the session was told, and the
              \* transaction its connection was in when it ended
    presses,  \* cancels on their way: the connection, and the half to come
    pressed,  \* cancels pressed so far
    touched   \* calls a half of a cancel fell in

sqliteVars == <<held, opened, thread, flag, txn, buffer, file, calls, presses, pressed, touched>>
others == <<held, opened, presses, pressed, touched>>

Links == 1..MaxOpens
Ops == {"read", "write", "begin", "commit", "apply"}
Idle == [call |-> 0, at |-> "idle", next |-> 0, result |-> "none"]

SqliteInit ==
    /\ held = 0 /\ opened = 0
    /\ thread = [c \in Links |-> Idle]
    /\ flag = [c \in Links |-> FALSE]
    /\ txn = [c \in Links |-> "none"] /\ buffer = [c \in Links |-> {}]
    /\ file = {} /\ calls = <<>>
    /\ presses = {} /\ pressed = 0 /\ touched = {}

\* `open': a new handle on the file, with nothing of the old one's.
Connect ==
    /\ held = 0 /\ opened < MaxOpens
    /\ opened' = opened + 1 /\ held' = opened + 1
    /\ UNCHANGED <<thread, flag, txn, buffer, file, calls, presses, pressed, touched>>

\* SQLite rolls back what is open on c.
RolledBack(c) ==
    /\ txn' = [txn EXCEPT ![c] = "none"]
    /\ buffer' = [buffer EXCEPT ![c] = {}]

\* The session lets go.  A thread at work keeps the connection until it ends,
\* and nobody hears what it ends with.
Disconnect ==
    /\ held # 0
    /\ held' = 0
    /\ IF thread[held].at = "idle"
         THEN RolledBack(held) /\ UNCHANGED calls
         ELSE /\ calls' = [calls EXCEPT ![thread[held].call].told = "dropped"]
              /\ UNCHANGED <<txn, buffer>>
    /\ UNCHANGED <<opened, thread, flag, file, presses, pressed, touched>>

\* `query', `apply': a closure is handed to a thread.
Spawn(op) ==
    /\ held # 0 /\ thread[held].at = "idle" /\ Len(calls) < MaxCalls
    /\ calls' = Append(calls, [op |-> op, told |-> "none", open |-> "none"])
    /\ thread' = [thread EXCEPT ![held] =
                    [call |-> Len(calls) + 1, at |-> "spawned", next |-> 1, result |-> "none"]]
    /\ UNCHANGED <<others, flag, txn, buffer, file>>

Op(c) == calls[thread[c].call].op
FirstStep(c) == IF Op(c) = "apply" THEN "begin" ELSE "run"

\* `with_conn' begins: the flag is cleared before anything else.
Start(c) ==
    /\ thread[c].at = "spawned"
    /\ flag' = [flag EXCEPT ![c] = FALSE]
    /\ thread' = [thread EXCEPT ![c].at = FirstStep(c)]
    /\ UNCHANGED <<others, txn, buffer, file, calls>>

\* SQLite lets one connection write at a time.
Free(c) == \A d \in Links \ {c} : txn[d] # "immediate" /\ buffer[d] = {}

Ends(c, result) == thread' = [thread EXCEPT ![c].at = "ended", ![c].result = result]
Goes(c, at) == thread' = [thread EXCEPT ![c].at = at]

\* `run': a statement of the console.  It may always fail, and then does
\* nothing: a COMMIT that fails leaves its transaction open.
Run(c) ==
    /\ thread[c].at = "run"
    /\ \/ Ends(c, "error") /\ UNCHANGED <<txn, buffer, file>>
       \/ /\ Op(c) = "read"
          /\ Ends(c, "ok") /\ UNCHANGED <<txn, buffer, file>>
       \/ /\ Op(c) = "write" /\ Free(c)
          /\ LET mine == {<<thread[c].call, 1>>} IN
             IF txn[c] = "none"
               THEN file' = file \union mine /\ UNCHANGED buffer
               ELSE buffer' = [buffer EXCEPT ![c] = @ \union mine] /\ UNCHANGED file
          /\ Ends(c, "ok") /\ UNCHANGED txn
       \/ /\ Op(c) = "begin" /\ txn[c] = "none"
          /\ txn' = [txn EXCEPT ![c] = "deferred"]
          /\ Ends(c, "ok") /\ UNCHANGED <<buffer, file>>
       \/ /\ Op(c) = "commit" /\ txn[c] # "none"
          /\ file' = file \union buffer[c]
          /\ RolledBack(c) /\ Ends(c, "ok")
    /\ UNCHANGED <<others, flag, calls>>

\* `commit' takes the write lock before its first statement.
BeginImmediate(c) ==
    /\ thread[c].at = "begin"
    /\ \/ /\ txn[c] = "none" /\ Free(c)
          /\ txn' = [txn EXCEPT ![c] = "immediate"]
          /\ Goes(c, "write")
       \/ Ends(c, "error") /\ UNCHANGED txn
    /\ UNCHANGED <<others, flag, buffer, file, calls>>

\* `write_one' and the check of its row count, which may refuse what has
\* just been written.
WriteOne(c) ==
    /\ thread[c].at = "write"
    /\ \/ /\ buffer' = [buffer EXCEPT ![c] = @ \union {<<thread[c].call, thread[c].next>>}]
          /\ \/ thread' = [thread EXCEPT ![c].at = IF thread[c].next = Writes THEN "commit" ELSE "write",
                                         ![c].next = @ + 1]
             \/ Goes(c, "rollback")
       \/ Goes(c, "rollback") /\ UNCHANGED buffer
    /\ UNCHANGED <<others, flag, txn, file, calls>>

\* `let _ = ROLLBACK', then the error.
\* Slip: the error without the rollback.
Rollback_forgotten(c) ==
    /\ thread[c].at = "rollback"
    /\ Ends(c, "error")
    /\ UNCHANGED <<others, flag, txn, buffer, file, calls>>

Rollback(c) ==
    /\ thread[c].at = "rollback"
    /\ RolledBack(c) /\ Ends(c, "error")
    /\ UNCHANGED <<others, flag, file, calls>>

\* `COMMIT?': one that fails, on a lock or on a deferred key, returns as it is.
CommitStep(c) ==
    /\ thread[c].at = "commit"
    /\ \/ file' = file \union buffer[c] /\ RolledBack(c) /\ Ends(c, "ok")
       \/ Ends(c, "error") /\ UNCHANGED <<txn, buffer, file>>
    /\ UNCHANGED <<others, flag, calls>>

\* The end of `with_conn': a call that failed under the flag is a cancel.
\* Dropping the last handle closes the connection.
Finish(c) ==
    /\ thread[c].at = "ended"
    /\ LET k == thread[c].call
           told == IF flag[c] /\ thread[c].result = "error" THEN "canceled" ELSE thread[c].result
       IN calls' = [calls EXCEPT ![k].told = IF c = held THEN told ELSE @, ![k].open = txn[c]]
    /\ flag' = [flag EXCEPT ![c] = FALSE]
    /\ thread' = [thread EXCEPT ![c] = Idle]
    /\ IF c = held THEN UNCHANGED <<txn, buffer>> ELSE RolledBack(c)
    /\ UNCHANGED <<others, file>>

Touch(c) == touched' = IF thread[c].at = "idle" THEN touched ELSE touched \union {thread[c].call}

\* `cancel': asked for while the session waits for a call.
Press ==
    /\ held # 0 /\ thread[held].at # "idle" /\ pressed < MaxPresses
    /\ pressed' = pressed + 1
    /\ presses' = presses \union {[on |-> held, half |-> "flag", id |-> pressed + 1]}
    /\ UNCHANGED <<held, opened, thread, flag, txn, buffer, file, calls, touched>>

CancelFlag(p) ==
    /\ p.half = "flag"
    /\ flag' = [flag EXCEPT ![p.on] = TRUE]
    /\ presses' = (presses \ {p}) \union {[p EXCEPT !.half = "interrupt"]}
    /\ Touch(p.on)
    /\ UNCHANGED <<held, opened, thread, txn, buffer, file, calls, pressed>>

\* The interrupt stops the statement that runs, or comes between two.  A write
\* it stops takes its whole transaction with it.  ROLLBACK is taken to be over
\* too soon to be stopped.
Interrupt(p) ==
    /\ p.half = "interrupt"
    /\ presses' = presses \ {p}
    /\ Touch(p.on)
    /\ LET c == p.on IN
       \/ UNCHANGED <<thread, txn, buffer>>
       \/ /\ thread[c].at \in {"run", "begin", "commit"} /\ Ends(c, "error")
          /\ IF thread[c].at = "run" /\ Op(c) = "write" THEN RolledBack(c) ELSE UNCHANGED <<txn, buffer>>
       \/ thread[c].at = "write" /\ Goes(c, "rollback") /\ RolledBack(c)
    /\ UNCHANGED <<held, opened, flag, file, calls, pressed>>

SqliteNext ==
    \/ Connect
    \/ Disconnect
    \/ \E op \in Ops : Spawn(op)
    \/ Press
    \/ \E c \in Links :
         Start(c) \/ Run(c) \/ BeginImmediate(c) \/ WriteOne(c) \/ Rollback(c) \/ CommitStep(c) \/ Finish(c)
    \/ \E p \in presses : CancelFlag(p) \/ Interrupt(p)

SqliteSpec == SqliteInit /\ [][SqliteNext]_sqliteVars
-----------------------------------------------------------------------------
Landed(k) == {n \in 1..Writes : <<k, n>> \in file}

\* A commit is in the file whole or not at all, whatever was canceled, dropped,
\* left open or overtaken by another connection.
AllOrNothing ==
    \A k \in 1..Len(calls) : calls[k].op = "apply" => Landed(k) \in {{}, 1..Writes}

\* What the session was told of a commit is what the file holds: all of it when
\* it went well, none of it when it was refused and its transaction closed.
ToldTheTruth ==
    \A k \in 1..Len(calls) : calls[k].op = "apply" =>
        /\ calls[k].told = "ok" => Landed(k) = 1..Writes
        /\ (calls[k].told \in {"error", "canceled"} /\ calls[k].open = "none") => Landed(k) = {}

\* A call is reported canceled only if some part of a cancel fell in it.
CanceledWasAsked ==
    \A k \in 1..Len(calls) : calls[k].told = "canceled" => k \in touched

\* SQLite: a commit is in the file whole or not at all, what the session was
\* told of it is what the file holds, and a call is reported canceled only if
\* some part of a cancel fell in it.
SqliteHolds == AllOrNothing /\ ToldTheTruth /\ CanceledWasAsked

\* A commit that was refused never reaches the file (db/src/driver.rs:175: "one
\* unit that either all lands or none does").  Not so: when the COMMIT itself
\* fails, the transaction stays open, and the next COMMIT saves it.
RefusedNeverLands ==
    \A k \in 1..Len(calls) :
        (calls[k].op = "apply" /\ calls[k].told \in {"error", "canceled"}) => Landed(k) = {}
=============================================================================
