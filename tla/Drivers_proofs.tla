--------------------------- MODULE Drivers_proofs ---------------------------
(***************************************************************************)
(* Proofs about the drivers, each of any statements, answers and bounds.   *)
(***************************************************************************)
EXTENDS SqliteClient, ClickHouseClient, RedisClient, RedisKey, TLAPS, WellFoundedInduction, FiniteSetTheorems,
        SequenceTheorems

-----------------------------------------------------------------------------

(***************************************************************************)
(* SQLite: for any number of statements in a commit, connections, calls and*)
(* cancels, a commit is in the file whole or not at all, and the session was*)
(* told what the file holds.                                               *)
(***************************************************************************)
Told == {"none", "ok", "error", "canceled", "dropped"}
Txns == {"none", "deferred", "immediate"}
Steps == {"idle", "spawned", "run", "begin", "write", "commit", "rollback", "ended"}
Threads == [call : Nat, at : Steps, next : Nat, result : {"none", "ok", "error"}]

SqliteTypeOK ==
    /\ held \in Links \cup {0} /\ opened \in Nat
    /\ thread \in [Links -> Threads]
    /\ flag \in [Links -> BOOLEAN]
    /\ txn \in [Links -> Txns]
    /\ buffer \in [Links -> SUBSET (Nat \X Nat)]
    /\ file \in SUBSET (Nat \X Nat)
    /\ calls \in Seq([op : Ops, told : Told, open : Txns])
    /\ presses \subseteq [on : Links, half : {"flag", "interrupt"}, id : Nat]
    /\ pressed \in Nat

\* The statements of commit k that are among what was written.
Part(written, k) == {n \in 1..Writes : <<k, n>> \in written}

Commits == {k \in 1..Len(calls) : calls[k].op = "apply"}
Busy(c) == thread[c].at # "idle"

\* A thread at work is at work on a call of its own that nobody was told the
\* end of.
OwnCall ==
    /\ \A c \in Links : Busy(c) =>
          /\ thread[c].call \in 1..Len(calls)
          /\ calls[thread[c].call].told \in {"none", "dropped"}
    /\ \A c, d \in Links : Busy(c) /\ Busy(d) /\ thread[c].call = thread[d].call => c = d

\* Every step of a thread is one of the kind of call it is at work on.
KindAt(c) ==
    /\ thread[c].at = "run" => Op(c) # "apply"
    /\ thread[c].at \in {"begin", "write", "commit", "rollback"} => Op(c) = "apply"
    /\ thread[c].at \in {"write", "commit"} => txn[c] = "immediate"
    /\ thread[c].at \in {"spawned", "begin"} => thread[c].next = 1
    /\ thread[c].at = "write" => thread[c].next \in 1..Writes
    /\ thread[c].at = "ended" => thread[c].result \in {"ok", "error"}
InKind == \A c \in Links : KindAt(c)

\* Outside of a transaction nothing waits to be saved.
ClosedIsEmpty == \A c \in Links : txn[c] = "none" => buffer[c] = {}

\* Nothing is written for a call before it is made.
NotAhead ==
    \A k \in Nat : k > Len(calls) =>
        Part(file, k) = {} /\ \A c \in Links : Part(buffer[c], k) = {}

\* A commit in the making is on its own connection only, as far as its thread
\* has come, and in the file only when it has ended well.
Progress(c) ==
    /\ \A d \in Links \ {c} : Part(buffer[d], thread[c].call) = {}
    /\ thread[c].at \in {"spawned", "begin"} => Part(buffer[c], thread[c].call) = {}
    /\ thread[c].at = "write" => Part(buffer[c], thread[c].call) = 1..(thread[c].next - 1)
    /\ thread[c].at = "commit" => Part(buffer[c], thread[c].call) = 1..Writes
    /\ Part(file, thread[c].call) =
          IF thread[c].at = "ended" /\ thread[c].result = "ok" THEN 1..Writes ELSE {}
AsFarAsItCame == \A c \in Links : Busy(c) /\ Op(c) = "apply" => Progress(c)

\* What waits on a connection is of whole commits, but for the one in the
\* making; and so is what is in the file.
Midway(c, k) == thread[c].at \in {"write", "rollback"} /\ thread[c].call = k
Whole ==
    \A k \in Commits :
        /\ Part(file, k) \in {{}, 1..Writes}
        /\ \A c \in Links : Midway(c, k) \/ Part(buffer[c], k) \in {{}, 1..Writes}

\* A commit that was refused and closed is nowhere, and one that went well is
\* in the file.
AsTold ==
    \A k \in Commits :
        /\ calls[k].told = "ok" => Part(file, k) = 1..Writes
        /\ (calls[k].told \in {"error", "canceled"} /\ calls[k].open = "none") =>
              Part(file, k) = {} /\ \A c \in Links : Part(buffer[c], k) = {}

\* A flag that is up when a call is past its start was raised during it.
Flagged ==
    /\ \A c \in Links : flag[c] /\ thread[c].at \notin {"idle", "spawned"} =>
          thread[c].call \in touched
    /\ CanceledWasAsked

SqliteInv ==
    /\ SqliteTypeOK /\ OwnCall /\ InKind /\ ClosedIsEmpty /\ NotAhead
    /\ AsFarAsItCame /\ Whole /\ AsTold /\ Flagged
-----------------------------------------------------------------------------
(* What becomes of a commit's statements when something is written.        *)

LEMMA PartOfNothing == ASSUME NEW k PROVE Part({}, k) = {}
BY DEF Part

LEMMA PartOfBoth ==
    ASSUME NEW S, NEW T, NEW k
    PROVE  Part(S \union T, k) = Part(S, k) \union Part(T, k)
BY DEF Part

LEMMA PartOfOne ==
    ASSUME NEW k, NEW n \in 1..Writes
    PROVE  Part({<<k, n>>}, k) = {n}
BY DEF Part

LEMMA PartWithAnother ==
    ASSUME NEW S, NEW k, NEW j, NEW n, j # k
    PROVE  Part(S \union {<<j, n>>}, k) = Part(S, k)
BY DEF Part

LEMMA InitInv == ASSUME SqliteInit PROVE SqliteInv
<1>1. SqliteTypeOK
  BY SqliteAssumption DEF SqliteInit, SqliteTypeOK, Links, Idle, Steps, Txns, Threads
<1>2. OwnCall /\ InKind /\ ClosedIsEmpty
  BY DEF SqliteInit, OwnCall, InKind, KindAt, ClosedIsEmpty, Busy, Idle
<1>3. NotAhead
  BY PartOfNothing DEF SqliteInit, NotAhead
<1>4. AsFarAsItCame /\ Whole /\ AsTold /\ Flagged
  BY DEF SqliteInit, AsFarAsItCame, Whole, AsTold, Flagged, CanceledWasAsked, Busy, Idle, Commits
<1> QED
  BY <1>1, <1>2, <1>3, <1>4 DEF SqliteInv

LEMMA ConnectInv == ASSUME SqliteInv, Connect PROVE SqliteInv'
<1>1. SqliteTypeOK'
  <2>1. held' \in Links /\ opened' \in Nat
    BY SqliteAssumption DEF SqliteInv, SqliteTypeOK, Connect, Links
  <2>2. UNCHANGED <<thread, flag, txn, buffer, file, calls, presses, pressed>>
    BY DEF Connect
  <2> QED BY <2>1, <2>2 DEF SqliteInv, SqliteTypeOK
<1>2. OwnCall' /\ InKind' /\ ClosedIsEmpty' /\ NotAhead'
  BY DEF SqliteInv, OwnCall, InKind, KindAt, ClosedIsEmpty, NotAhead, Busy, Op, Connect
<1>3. AsFarAsItCame' /\ Whole' /\ AsTold' /\ Flagged'
  BY DEF SqliteInv, AsFarAsItCame, Progress, Whole, AsTold, Flagged, CanceledWasAsked, Busy, Op,
         Midway, Commits, Connect
<1> QED
  BY <1>1, <1>2, <1>3 DEF SqliteInv

LEMMA SpawnInv == ASSUME SqliteInv, NEW op \in Ops, Spawn(op) PROVE SqliteInv'
<1> DEFINE fresh == Len(calls) + 1
<1>1. /\ Len(calls) \in Nat /\ held \in Links
      /\ calls' = Append(calls, [op |-> op, told |-> "none", open |-> "none"])
      /\ Len(calls') = fresh
      /\ calls'[fresh] = [op |-> op, told |-> "none", open |-> "none"]
      /\ \A j \in 1..Len(calls) : calls'[j] = calls[j]
  BY DEF SqliteInv, SqliteTypeOK, Spawn
<1>2. /\ thread'[held] = [call |-> fresh, at |-> "spawned", next |-> 1, result |-> "none"]
      /\ \A c \in Links \ {held} : thread'[c] = thread[c]
      /\ ~Busy(held)
      /\ UNCHANGED <<others, flag, txn, buffer, file>>
  BY DEF SqliteInv, SqliteTypeOK, Spawn, Busy
<1>3. SqliteTypeOK'
  BY <1>1, <1>2 DEF SqliteInv, SqliteTypeOK, Spawn, Steps, others, Told, Txns, Threads
<1>3a. Part(file, fresh) = {} /\ \A d \in Links : Part(buffer[d], fresh) = {}
  <2>1. fresh > Len(calls)
    BY <1>1
  <2> HIDE DEF fresh
  <2> QED BY <1>1, <2>1 DEF SqliteInv, NotAhead
<1> HIDE DEF fresh
<1>4. OwnCall'
  BY <1>1, <1>2 DEF SqliteInv, OwnCall, Busy, fresh
<1>5. InKind'
  <2>1. \A c \in Links \ {held} : Busy(c) => Op(c)' = Op(c)
    BY <1>1, <1>2 DEF SqliteInv, OwnCall, Op
  <2> QED BY <1>2, <2>1 DEF SqliteInv, InKind, KindAt, Busy
<1>6. ClosedIsEmpty' /\ NotAhead'
  <2>1. ClosedIsEmpty'
    BY <1>2 DEF SqliteInv, ClosedIsEmpty
  <2>2. SUFFICES ASSUME NEW k \in Nat, k > fresh
                 PROVE  Part(file, k) = {} /\ \A c \in Links : Part(buffer[c], k) = {}
    BY <1>1, <1>2, <2>1 DEF NotAhead
  <2>3. k > Len(calls)
    BY <1>1, <2>2 DEF fresh
  <2> QED BY <2>3 DEF SqliteInv, NotAhead
<1>7. AsFarAsItCame'
  <2> SUFFICES ASSUME NEW c \in Links, Busy(c)', Op(c)' = "apply"
               PROVE  Progress(c)'
    BY DEF AsFarAsItCame
  <2>1. CASE c = held
    <3>1. Part(file, fresh) = {} /\ \A d \in Links : Part(buffer[d], fresh) = {}
      BY <1>3a
    <3>2. thread'[c].call = fresh /\ thread'[c].at = "spawned"
      BY <2>1, <1>2
    <3> QED BY <1>2, <3>1, <3>2 DEF Progress
  <2>2. CASE c # held
    <3>1. thread'[c] = thread[c] /\ Busy(c) /\ UNCHANGED <<buffer, file>>
      BY <2>2, <1>2 DEF Busy
    <3>2. Op(c) = "apply"
      BY <1>1, <3>1 DEF SqliteInv, OwnCall, Op
    <3> QED BY <3>1, <3>2 DEF SqliteInv, AsFarAsItCame, Progress
  <2> QED BY <2>1, <2>2
<1>8. Whole' /\ AsTold'
  <2>1. \A j \in Commits' : j \in Commits \/ j = fresh
    BY <1>1 DEF Commits, fresh
  <2>2. \A j \in Commits : j \in 1..Len(calls) /\ calls'[j] = calls[j] /\ j \in Nat /\ j # fresh
    BY <1>1 DEF Commits, fresh
  <2>3. Part(file, fresh) = {} /\ \A c \in Links : Part(buffer[c], fresh) = {}
    BY <1>3a
  <2>4. \A c \in Links, j \in Commits : Midway(c, j) => Midway(c, j)'
    BY <1>2, <2>2 DEF Midway, Busy
  <2>5. Whole'
    BY <1>2, <2>1, <2>2, <2>3, <2>4 DEF SqliteInv, Whole
  <2>6. AsTold'
    <3>1. calls'[fresh].told = "none"
      BY <1>1
    <3>2. UNCHANGED <<buffer, file>>
      BY <1>2
    <3> QED BY <2>1, <2>2, <3>1, <3>2 DEF SqliteInv, AsTold
  <2> QED BY <2>5, <2>6
<1>9. Flagged'
  BY <1>1, <1>2 DEF SqliteInv, Flagged, CanceledWasAsked, others, fresh
<1> QED
  BY <1>3, <1>4, <1>5, <1>6, <1>7, <1>8, <1>9 DEF SqliteInv

(* A step of one thread leaves the others, and what each is at work on.    *)
OwnStep(c) ==
    /\ thread' \in [Links -> Threads]
    /\ Busy(c) /\ Busy(c)'
    /\ thread'[c].call = thread[c].call
    /\ \A d \in Links \ {c} : thread'[d] = thread[d]
    /\ UNCHANGED calls

LEMMA SameCalls ==
    ASSUME SqliteInv, NEW c \in Links, OwnStep(c)
    PROVE  /\ OwnCall'
           /\ Commits' = Commits
           /\ \A d \in Links : Op(d)' = Op(d) /\ Busy(d)' = Busy(d) /\ thread'[d].call = thread[d].call
<1>1. \A d \in Links : Op(d)' = Op(d) /\ Busy(d)' = Busy(d) /\ thread'[d].call = thread[d].call
  BY DEF OwnStep, Op, Busy
<1>2. OwnCall'
  BY <1>1 DEF SqliteInv, OwnCall, OwnStep
<1>3. Commits' = Commits
  BY DEF OwnStep, Commits
<1> QED BY <1>1, <1>2, <1>3

LEMMA OneEnds ==
    ASSUME SqliteInv, NEW c \in Links, Busy(c), NEW step \in Steps \ {"idle"}, NEW result \in {"ok", "error"},
           \/ thread' = [thread EXCEPT ![c].at = step]
           \/ thread' = [thread EXCEPT ![c].at = step, ![c].result = result],
           UNCHANGED calls
    PROVE  OwnStep(c) /\ thread'[c].at = step /\ thread'[c].next = thread[c].next
<1>1. \A d \in Links : d # c => thread'[d] = thread[d]
  BY DEF SqliteInv, SqliteTypeOK
<1>2. thread[c] \in Threads
  BY DEF SqliteInv, SqliteTypeOK
<1>3. /\ thread'[c] \in Threads
      /\ thread'[c].at = step /\ thread'[c].call = thread[c].call /\ thread'[c].next = thread[c].next
  <2> DEFINE T == thread[c]
  <2>1. T = [call |-> T.call, at |-> T.at, next |-> T.next, result |-> T.result] /\ T \in Threads
    BY <1>2 DEF Threads
  <2>2. thread'[c] = [T EXCEPT !.at = step] \/ thread'[c] = [[T EXCEPT !.at = step] EXCEPT !.result = result]
    BY DEF SqliteInv, SqliteTypeOK
  <2> HIDE DEF T
  <2>3. [T EXCEPT !.at = step] = [call |-> T.call, at |-> step, next |-> T.next, result |-> T.result]
    BY <2>1
  <2>4. [[T EXCEPT !.at = step] EXCEPT !.result = result]
           = [call |-> T.call, at |-> step, next |-> T.next, result |-> result]
    <3>1. ASSUME NEW U, U = [call |-> T.call, at |-> step, next |-> T.next, result |-> T.result]
          PROVE  [U EXCEPT !.result = result]
                   = [call |-> T.call, at |-> step, next |-> T.next, result |-> result]
      BY ONLY <3>1
    <3> QED BY <2>3, <3>1
  <2>5. T.call \in Nat /\ T.next \in Nat /\ T.result \in {"none", "ok", "error"}
    BY <2>1 DEF Threads
  <2> QED BY <2>2, <2>3, <2>4, <2>5 DEF Threads, T
<1>4. thread' \in [Links -> Threads]
  BY <1>1, <1>2, <1>3 DEF SqliteInv, SqliteTypeOK
<1> QED BY <1>1, <1>3, <1>4 DEF OwnStep, Busy

LEMMA StartInv == ASSUME SqliteInv, NEW c \in Links, Start(c) PROVE SqliteInv'
<1>1. Busy(c) /\ FirstStep(c) \in {"begin", "run"} /\ (FirstStep(c) = "begin") = (Op(c) = "apply")
  BY DEF Start, Busy, FirstStep
<1>2. OwnStep(c) /\ thread'[c].at = FirstStep(c) /\ thread'[c].next = thread[c].next
  BY <1>1, OneEnds DEF Start, Steps
<1>3. /\ OwnCall' /\ Commits' = Commits
      /\ \A d \in Links : Op(d)' = Op(d) /\ Busy(d)' = Busy(d) /\ thread'[d].call = thread[d].call
  BY <1>2, SameCalls
<1>4. \A d \in Links \ {c} : thread'[d] = thread[d]
  BY <1>2 DEF OwnStep
<1>5. UNCHANGED <<others, txn, buffer, file, calls>> /\ flag' = [flag EXCEPT ![c] = FALSE]
  BY DEF Start
<1>6. SqliteTypeOK'
  BY <1>2, <1>5 DEF SqliteInv, SqliteTypeOK, OwnStep, others
<1>7. InKind' /\ ClosedIsEmpty' /\ NotAhead'
  <2>1. InKind'
    BY <1>1, <1>2, <1>3, <1>4, <1>5 DEF SqliteInv, InKind, KindAt, Start
  <2>2. ClosedIsEmpty'
    BY <1>5 DEF SqliteInv, ClosedIsEmpty
  <2>3. NotAhead'
    BY <1>5 DEF SqliteInv, NotAhead
  <2> QED BY <2>1, <2>2, <2>3
<1>8. AsFarAsItCame'
  <2>1. SUFFICES ASSUME NEW d \in Links, Busy(d), Op(d) = "apply" PROVE Progress(d)'
    BY <1>3 DEF AsFarAsItCame
  <2>2. Progress(d)
    BY <2>1 DEF SqliteInv, AsFarAsItCame
  <2>3. CASE d # c
    <3>1. thread'[d] = thread[d] /\ UNCHANGED <<buffer, file>>
      BY <1>4, <1>5, <2>3
    <3> QED BY <2>2, <3>1 DEF Progress
  <2>4. CASE d = c
    <3>1. thread[d].at = "spawned" /\ thread'[d].at = "begin"
      BY <1>1, <1>2, <2>1, <2>4 DEF Start
    <3>2. thread'[d].call = thread[d].call /\ UNCHANGED <<buffer, file>>
      BY <1>3, <1>5
    <3> QED BY <2>2, <3>1, <3>2 DEF Progress
  <2> QED BY <2>3, <2>4
<1>9. Whole' /\ AsTold'
  <2>1. \A d \in Links, j \in Commits : Midway(d, j) => Midway(d, j)'
    BY <1>4 DEF Midway, Start
  <2>2. Whole'
    BY <2>1, <1>3, <1>5 DEF SqliteInv, Whole
  <2>3. AsTold'
    BY <1>3, <1>5 DEF SqliteInv, AsTold
  <2> QED BY <2>2, <2>3
<1>10. Flagged'
  BY <1>2, <1>3, <1>4, <1>5 DEF SqliteInv, SqliteTypeOK, Flagged, CanceledWasAsked, others
<1> QED
  BY <1>3, <1>6, <1>7, <1>8, <1>9, <1>10 DEF SqliteInv

LEMMA Emptied ==
    ASSUME SqliteInv, NEW c \in Links, RolledBack(c)
    PROVE  /\ txn' \in [Links -> Txns] /\ buffer' \in [Links -> SUBSET (Nat \X Nat)]
           /\ txn'[c] = "none" /\ buffer'[c] = {}
           /\ \A k : Part(buffer'[c], k) = {}
           /\ \A d \in Links \ {c} : txn'[d] = txn[d] /\ buffer'[d] = buffer[d]
           /\ ClosedIsEmpty'
<1>1. /\ txn' \in [Links -> Txns] /\ buffer' \in [Links -> SUBSET (Nat \X Nat)]
      /\ txn'[c] = "none" /\ buffer'[c] = {}
      /\ \A d \in Links \ {c} : txn'[d] = txn[d] /\ buffer'[d] = buffer[d]
  BY DEF SqliteInv, SqliteTypeOK, RolledBack, Txns
<1>2. \A k : Part(buffer'[c], k) = {}
  BY <1>1, PartOfNothing
<1>3. ClosedIsEmpty'
  BY <1>1 DEF SqliteInv, ClosedIsEmpty
<1> QED BY <1>1, <1>2, <1>3

LEMMA PressInv == ASSUME SqliteInv, Press PROVE SqliteInv'
<1>1. SqliteTypeOK'
  BY DEF SqliteInv, SqliteTypeOK, Press
<1>2. UNCHANGED <<held, thread, flag, txn, buffer, file, calls, touched>>
  BY DEF Press
<1>3. OwnCall' /\ InKind' /\ ClosedIsEmpty' /\ NotAhead'
  BY <1>2 DEF SqliteInv, OwnCall, InKind, KindAt, ClosedIsEmpty, NotAhead, Busy, Op
<1>4. AsFarAsItCame' /\ Whole' /\ AsTold' /\ Flagged'
  BY <1>2 DEF SqliteInv, AsFarAsItCame, Progress, Whole, AsTold, Flagged, CanceledWasAsked, Busy, Op,
         Midway, Commits
<1> QED BY <1>1, <1>3, <1>4 DEF SqliteInv

LEMMA CancelFlagInv == ASSUME SqliteInv, NEW p \in presses, CancelFlag(p) PROVE SqliteInv'
<1>1. p.on \in Links /\ p \in [on : Links, half : {"flag", "interrupt"}, id : Nat]
  BY DEF SqliteInv, SqliteTypeOK
<1>2. [p EXCEPT !.half = "interrupt"] \in [on : Links, half : {"flag", "interrupt"}, id : Nat]
  BY <1>1
<1>3. UNCHANGED <<held, opened, thread, txn, buffer, file, calls, pressed>>
  BY DEF CancelFlag
<1>4. /\ flag' \in [Links -> BOOLEAN]
      /\ \A c \in Links : flag'[c] => flag[c] \/ c = p.on
      /\ presses' \subseteq [on : Links, half : {"flag", "interrupt"}, id : Nat]
      /\ touched \subseteq touched'
      /\ Busy(p.on) => thread[p.on].call \in touched'
  BY <1>1, <1>2 DEF SqliteInv, SqliteTypeOK, CancelFlag, Touch, Busy
<1>5. SqliteTypeOK'
  BY <1>3, <1>4 DEF SqliteInv, SqliteTypeOK
<1>6. OwnCall' /\ InKind' /\ ClosedIsEmpty' /\ NotAhead'
  BY <1>3 DEF SqliteInv, OwnCall, InKind, KindAt, ClosedIsEmpty, NotAhead, Busy, Op
<1>7. AsFarAsItCame' /\ Whole' /\ AsTold'
  BY <1>3 DEF SqliteInv, AsFarAsItCame, Progress, Whole, AsTold, Busy, Op, Midway, Commits
<1>8. Flagged'
  BY <1>3, <1>4 DEF SqliteInv, Flagged, CanceledWasAsked, Busy
<1> QED BY <1>5, <1>6, <1>7, <1>8 DEF SqliteInv

LEMMA DisconnectInv == ASSUME SqliteInv, Disconnect PROVE SqliteInv'
<1>1. /\ held \in Links /\ held' = 0
      /\ UNCHANGED <<opened, thread, flag, file, presses, pressed, touched>>
  BY DEF Disconnect, SqliteInv, SqliteTypeOK
<1>2. CASE ~Busy(held)
  <2>1. RolledBack(held) /\ UNCHANGED calls
    BY <1>2 DEF Disconnect, Busy
  <2>2. /\ txn' \in [Links -> Txns] /\ buffer' \in [Links -> SUBSET (Nat \X Nat)]
        /\ \A k : Part(buffer'[held], k) = {}
        /\ \A d \in Links \ {held} : txn'[d] = txn[d] /\ buffer'[d] = buffer[d]
        /\ ClosedIsEmpty'
    BY <1>1, <2>1, Emptied
  <2>3. SqliteTypeOK'
    BY <1>1, <2>1, <2>2 DEF SqliteInv, SqliteTypeOK
  <2>4. OwnCall' /\ Commits' = Commits
    BY <1>1, <2>1 DEF SqliteInv, OwnCall, Busy, Commits
  <2>5. \A c \in Links : Busy(c) => c # held /\ txn'[c] = txn[c]
    BY <1>2, <2>2
  <2>6. InKind'
    BY <1>1, <2>1, <2>5 DEF SqliteInv, InKind, KindAt, Op, Busy
  <2>7. NotAhead'
    BY <1>1, <2>1, <2>2 DEF SqliteInv, NotAhead
  <2>8. AsFarAsItCame'
    <3> SUFFICES ASSUME NEW c \in Links, Busy(c)', Op(c)' = "apply" PROVE Progress(c)'
      BY DEF AsFarAsItCame
    <3>1. Busy(c) /\ Progress(c) /\ c # held
      BY <1>1, <2>1, <2>5 DEF SqliteInv, AsFarAsItCame, Op, Busy
    <3> QED BY <3>1, <1>1, <2>2 DEF Progress
  <2>9. Whole' /\ AsTold' /\ Flagged'
    <3>1. Whole'
      BY <1>1, <2>2, <2>4 DEF SqliteInv, Whole, Midway
    <3>2. AsTold'
      BY <1>1, <2>1, <2>2, <2>4 DEF SqliteInv, AsTold
    <3>3. Flagged'
      BY <1>1, <2>1 DEF SqliteInv, Flagged, CanceledWasAsked
    <3> QED BY <3>1, <3>2, <3>3
  <2> QED BY <2>2, <2>3, <2>4, <2>6, <2>7, <2>8, <2>9 DEF SqliteInv
<1>3. CASE Busy(held)
  <2> DEFINE lost == thread[held].call
  <2>1. lost \in 1..Len(calls) /\ UNCHANGED <<txn, buffer>>
    BY <1>1, <1>3 DEF Disconnect, SqliteInv, OwnCall, Busy
  <2>2. calls' = [calls EXCEPT ![lost].told = "dropped"]
    BY <1>3 DEF Disconnect, Busy
  <2> HIDE DEF lost
  <2>3. /\ calls' \in Seq([op : Ops, told : Told, open : Txns]) /\ Len(calls') = Len(calls)
        /\ \A k \in 1..Len(calls) :
              /\ calls'[k].op = calls[k].op
              /\ calls'[k].told = IF k = lost THEN "dropped" ELSE calls[k].told
              /\ calls'[k].open = calls[k].open
    <3> DEFINE Rec == [op : Ops, told : Told, open : Txns]
    <3>0. calls \in Seq(Rec)
      BY DEF SqliteInv, SqliteTypeOK
    <3>1. calls \in Seq(Rec) /\ calls[lost] \in Rec
      <4> HIDE DEF Rec
      <4> QED BY <2>1, <3>0
    <3>2. [calls[lost] EXCEPT !.told = "dropped"] \in Rec
      BY <3>1 DEF Told
    <3>3. \A k \in 1..Len(calls) :
             calls'[k] = IF k = lost THEN [calls[lost] EXCEPT !.told = "dropped"] ELSE calls[k]
      BY <2>1, <2>2, <3>1
    <3>4. DOMAIN calls' = 1..Len(calls)
      BY <2>2, <3>1
    <3>5. \A k \in 1..Len(calls) :
              /\ calls'[k].op = calls[k].op
              /\ calls'[k].told = IF k = lost THEN "dropped" ELSE calls[k].told
              /\ calls'[k].open = calls[k].open
      BY <3>1, <3>3
    <3> HIDE DEF Rec
    <3>6. calls' \in Seq(Rec) /\ Len(calls') = Len(calls)
      BY <2>1, <2>2, <3>1, <3>2
    <3> QED BY <3>5, <3>6 DEF Rec
  <2>4. SqliteTypeOK'
    BY <1>1, <2>1, <2>3 DEF SqliteInv, SqliteTypeOK
  <2>5. OwnCall' /\ Commits' = Commits
    BY <1>1, <2>3 DEF SqliteInv, OwnCall, Busy, Commits
  <2>6. \A c \in Links : Busy(c) => Op(c)' = Op(c)
    BY <1>1, <2>3 DEF SqliteInv, OwnCall, Op
  <2>7. InKind' /\ ClosedIsEmpty' /\ NotAhead'
    <3>1. InKind'
      BY <1>1, <2>1, <2>6 DEF SqliteInv, InKind, KindAt, Busy
    <3>2. ClosedIsEmpty'
      BY <1>1, <2>1 DEF SqliteInv, ClosedIsEmpty
    <3>3. NotAhead'
      BY <1>1, <2>1, <2>3 DEF SqliteInv, NotAhead
    <3> QED BY <3>1, <3>2, <3>3
  <2>8. AsFarAsItCame'
    BY <1>1, <2>1, <2>6 DEF SqliteInv, AsFarAsItCame, Progress, Busy
  <2>9. Whole' /\ AsTold' /\ Flagged'
    <3>1. Whole'
      BY <1>1, <2>1, <2>5 DEF SqliteInv, Whole, Midway
    <3>2. AsTold'
      BY <1>1, <2>1, <2>3, <2>5 DEF SqliteInv, AsTold, Commits
    <3>3. Flagged'
      BY <1>1, <2>3 DEF SqliteInv, Flagged, CanceledWasAsked
    <3> QED BY <3>1, <3>2, <3>3
  <2> QED BY <2>4, <2>5, <2>7, <2>8, <2>9 DEF SqliteInv
<1> QED BY <1>2, <1>3

LEMMA EndsOne ==
    ASSUME SqliteInv, NEW c \in Links, Busy(c), NEW result \in {"ok", "error"}, Ends(c, result),
           UNCHANGED calls
    PROVE  OwnStep(c) /\ thread'[c].at = "ended" /\ thread'[c].result = result
<1>1. OwnStep(c) /\ thread'[c].at = "ended"
  BY OneEnds DEF Ends, Steps
<1>2. thread'[c].result = result
  <2> DEFINE T == thread[c]
  <2>1. thread'[c] = [[T EXCEPT !.at = "ended"] EXCEPT !.result = result] /\ T \in Threads
    BY DEF SqliteInv, SqliteTypeOK, Ends
  <2> HIDE DEF T
  <2>2. [T EXCEPT !.at = "ended"] \in Threads
    BY <2>1 DEF Threads, Steps
  <2>3. ASSUME NEW U \in Threads PROVE [U EXCEPT !.result = result].result = result
    BY DEF Threads
  <2> QED BY <2>1, <2>2, <2>3
<1> QED BY <1>1, <1>2

\* A step of thread c that saves what waits on its connection, or drops it, or
\* adds to the commit it is at work on.
Moves(c) ==
    /\ OwnStep(c)
    /\ thread[c].at # "spawned"
    /\ UNCHANGED <<held, opened, flag, pressed>>
    /\ touched \subseteq touched' /\ presses' \subseteq presses
    /\ txn' \in [Links -> Txns] /\ buffer' \in [Links -> SUBSET (Nat \X Nat)]
    /\ file' \in SUBSET (Nat \X Nat)
    /\ \A d \in Links \ {c} : txn'[d] = txn[d] /\ buffer'[d] = buffer[d]
    /\ ClosedIsEmpty' /\ KindAt(c)'
    /\ \A j : j # thread[c].call =>
          /\ Part(file', j) \in {Part(file, j), Part(file, j) \union Part(buffer[c], j)}
          /\ Part(buffer'[c], j) \in {Part(buffer[c], j), {}}
    /\ Op(c) = "apply" =>
          /\ Progress(c)'
          /\ Midway(c, thread[c].call)' \/ Part(buffer'[c], thread[c].call) \in {{}, 1..Writes}

LEMMA MovesInv == ASSUME SqliteInv, NEW c \in Links, Moves(c) PROVE SqliteInv'
<1> DEFINE mine == thread[c].call
<1>1. /\ OwnCall' /\ Commits' = Commits
      /\ \A d \in Links : Op(d)' = Op(d) /\ Busy(d)' = Busy(d) /\ thread'[d].call = thread[d].call
  BY SameCalls DEF Moves
<1>2. /\ Busy(c) /\ UNCHANGED <<held, opened, flag, pressed, calls>>
      /\ \A d \in Links \ {c} : thread'[d] = thread[d] /\ txn'[d] = txn[d] /\ buffer'[d] = buffer[d]
  BY DEF Moves, OwnStep
<1>3. \A j : j # mine =>
          /\ Part(file', j) \in {Part(file, j), Part(file, j) \union Part(buffer[c], j)}
          /\ Part(buffer'[c], j) \in {Part(buffer[c], j), {}}
  BY DEF Moves
<1>4. /\ mine \in 1..Len(calls) /\ calls[mine].told \in {"none", "dropped"} /\ Len(calls) \in Nat
      /\ \A d \in Links \ {c} : Busy(d) => thread[d].call # mine
  BY <1>2 DEF SqliteInv, OwnCall, SqliteTypeOK
<1> HIDE DEF mine
<1>5. SqliteTypeOK'
  BY <1>2 DEF Moves, OwnStep, SqliteInv, SqliteTypeOK
<1>6. InKind' /\ ClosedIsEmpty'
  BY <1>1, <1>2 DEF Moves, SqliteInv, InKind, KindAt
<1>7. NotAhead'
  <2> SUFFICES ASSUME NEW j \in Nat, j > Len(calls)
               PROVE  Part(file', j) = {} /\ \A d \in Links : Part(buffer'[d], j) = {}
    BY <1>2 DEF NotAhead
  <2>1. j # mine /\ Part(file, j) = {} /\ \A d \in Links : Part(buffer[d], j) = {}
    <3>1. j # mine
      BY <1>4
    <3> QED BY <3>1 DEF SqliteInv, NotAhead
  <2> QED BY <1>2, <1>3, <2>1
<1>8. AsFarAsItCame'
  <2> SUFFICES ASSUME NEW d \in Links, Busy(d)', Op(d)' = "apply" PROVE Progress(d)'
    BY DEF AsFarAsItCame
  <2>1. CASE d = c
    BY <2>1, <1>1 DEF Moves
  <2>2. CASE d # c
    <3>1. Progress(d) /\ Busy(d) /\ thread'[d] = thread[d] /\ buffer'[d] = buffer[d]
      BY <2>2, <1>1, <1>2 DEF SqliteInv, AsFarAsItCame
    <3>2. thread[d].call # mine /\ Part(buffer[c], thread[d].call) = {}
      BY <2>2, <3>1, <1>4 DEF Progress
    <3>3. Part(file', thread[d].call) = Part(file, thread[d].call) /\ Part(buffer'[c], thread[d].call) = {}
      BY <3>2, <1>3
    <3>4. \A e \in Links \ {d} : Part(buffer'[e], thread[d].call) = {}
      BY <3>1, <3>3, <1>2 DEF Progress
    <3> QED BY <3>1, <3>3, <3>4 DEF Progress
  <2> QED BY <2>1, <2>2
<1>9. Whole'
  <2> SUFFICES ASSUME NEW j \in Commits
               PROVE  /\ Part(file', j) \in {{}, 1..Writes}
                      /\ \A d \in Links : Midway(d, j)' \/ Part(buffer'[d], j) \in {{}, 1..Writes}
    BY <1>1 DEF Whole
  <2>1. /\ Part(file, j) \in {{}, 1..Writes}
        /\ \A d \in Links : Midway(d, j) \/ Part(buffer[d], j) \in {{}, 1..Writes}
    BY DEF SqliteInv, Whole
  <2>2. \A d \in Links \ {c} : Midway(d, j)' \/ Part(buffer'[d], j) \in {{}, 1..Writes}
    BY <1>2, <2>1 DEF Midway
  <2>3. CASE j # mine
    <3>1. ~Midway(c, j) /\ Part(buffer[c], j) \in {{}, 1..Writes}
      BY <2>1, <2>3 DEF Midway, mine
    <3> QED BY <1>3, <2>1, <2>2, <2>3, <3>1
  <2>4. CASE j = mine
    <3>1. Op(c) = "apply"
      BY <2>4 DEF Commits, Op, mine
    <3>2. Progress(c)' /\ (Midway(c, mine)' \/ Part(buffer'[c], mine) \in {{}, 1..Writes})
      BY <3>1, <1>2 DEF Moves, mine
    <3>3. Part(file', mine) \in {{}, 1..Writes}
      BY <3>2, <1>1 DEF Progress, mine
    <3>4. Midway(c, j)' \/ Part(buffer'[c], j) \in {{}, 1..Writes}
      BY <2>4, <3>2, <1>1 DEF Midway, mine
    <3> QED BY <2>2, <2>4, <3>3, <3>4
  <2> QED BY <2>3, <2>4
<1>10. AsTold'
  <2> SUFFICES ASSUME NEW j \in Commits
               PROVE  /\ calls[j].told = "ok" => Part(file', j) = 1..Writes
                      /\ (calls[j].told \in {"error", "canceled"} /\ calls[j].open = "none") =>
                            Part(file', j) = {} /\ \A d \in Links : Part(buffer'[d], j) = {}
    BY <1>1, <1>2 DEF AsTold
  <2>1. CASE j = mine
    BY <2>1, <1>4
  <2>2. CASE j # mine
    <3>1. Part(buffer[c], j) \in {{}, 1..Writes}
      BY <2>2 DEF SqliteInv, Whole, Midway, mine
    <3>2. /\ calls[j].told = "ok" => Part(file, j) = 1..Writes
          /\ (calls[j].told \in {"error", "canceled"} /\ calls[j].open = "none") =>
                Part(file, j) = {} /\ \A d \in Links : Part(buffer[d], j) = {}
      BY DEF SqliteInv, AsTold
    <3>3. calls[j].told = "ok" => Part(file', j) = 1..Writes
      BY <1>3, <2>2, <3>1, <3>2
    <3>4. ASSUME calls[j].told \in {"error", "canceled"}, calls[j].open = "none"
          PROVE  Part(file', j) = {} /\ \A d \in Links : Part(buffer'[d], j) = {}
      BY <1>2, <1>3, <2>2, <3>2, <3>4
    <3> QED BY <3>3, <3>4
  <2> QED BY <2>1, <2>2
<1>11. Flagged'
  BY <1>1, <1>2 DEF Moves, Busy, SqliteInv, Flagged, CanceledWasAsked
<1> QED BY <1>1, <1>5, <1>6, <1>7, <1>8, <1>9, <1>10, <1>11 DEF SqliteInv

\* What the steps of a thread leave alone.
Quiet == UNCHANGED <<others, flag, calls>>

LEMMA RunInv == ASSUME SqliteInv, NEW c \in Links, Run(c) PROVE SqliteInv'
<1> DEFINE mine == thread[c].call
<1>1. Busy(c) /\ thread[c].at = "run" /\ Op(c) # "apply" /\ Quiet
  BY DEF Run, Busy, SqliteInv, InKind, KindAt, Quiet
<1>2. PICK result \in {"ok", "error"} : Ends(c, result)
  BY DEF Run
<1>3. OwnStep(c) /\ thread'[c].at = "ended" /\ thread'[c].result \in {"ok", "error"}
  BY <1>1, <1>2, EndsOne DEF Quiet
<1>4. KindAt(c)'
  BY <1>3 DEF KindAt
<1>5. mine \in Nat
  BY DEF SqliteInv, SqliteTypeOK, Threads
<1>6. CASE UNCHANGED <<txn, buffer, file>>
  <2>1. Moves(c)
    BY <1>1, <1>3, <1>4, <1>6 DEF Moves, Quiet, others, SqliteInv, SqliteTypeOK, ClosedIsEmpty
  <2> QED BY <2>1, MovesInv
<1>7. CASE /\ file' = file \union {<<mine, 1>>} /\ UNCHANGED <<buffer, txn>>
  <2>1. file' \in SUBSET (Nat \X Nat)
    BY <1>5, <1>7 DEF SqliteInv, SqliteTypeOK
  <2>2. \A j : j # mine => Part(file', j) = Part(file, j)
    <3>1. \A j : j # mine => Part(file \union {<<mine, 1>>}, j) = Part(file, j)
      BY PartWithAnother
    <3> QED BY <1>7, <3>1
  <2>3. Moves(c)
    BY <1>1, <1>3, <1>4, <1>7, <2>1, <2>2 DEF Moves, Quiet, others, SqliteInv, SqliteTypeOK, ClosedIsEmpty
  <2> QED BY <2>3, MovesInv
<1>8. CASE /\ buffer' = [buffer EXCEPT ![c] = @ \union {<<mine, 1>>}]
           /\ txn[c] # "none" /\ UNCHANGED <<file, txn>>
  <2>1. /\ buffer'[c] = buffer[c] \union {<<mine, 1>>} /\ buffer' \in [Links -> SUBSET (Nat \X Nat)]
        /\ \A d \in Links \ {c} : buffer'[d] = buffer[d]
    BY <1>5, <1>8 DEF SqliteInv, SqliteTypeOK
  <2>2. \A j : j # mine => Part(buffer'[c], j) = Part(buffer[c], j)
    <3>1. \A j : j # mine => Part(buffer[c] \union {<<mine, 1>>}, j) = Part(buffer[c], j)
      BY PartWithAnother
    <3> QED BY <2>1, <3>1
  <2>3. ClosedIsEmpty'
    BY <1>8, <2>1 DEF SqliteInv, ClosedIsEmpty
  <2>4. Moves(c)
    BY <1>1, <1>3, <1>4, <1>8, <2>1, <2>2, <2>3 DEF Moves, Quiet, others, SqliteInv, SqliteTypeOK
  <2> QED BY <2>4, MovesInv
<1>9. CASE txn[c] = "none" /\ txn' = [txn EXCEPT ![c] = "deferred"] /\ UNCHANGED <<buffer, file>>
  <2>1. /\ txn' \in [Links -> Txns] /\ txn'[c] = "deferred"
        /\ \A d \in Links \ {c} : txn'[d] = txn[d]
    BY <1>9 DEF SqliteInv, SqliteTypeOK, Txns
  <2>2. ClosedIsEmpty'
    BY <1>9, <2>1 DEF SqliteInv, ClosedIsEmpty
  <2>3. Moves(c)
    BY <1>1, <1>3, <1>4, <1>9, <2>1, <2>2 DEF Moves, Quiet, others, SqliteInv, SqliteTypeOK
  <2> QED BY <2>3, MovesInv
<1>10. CASE file' = file \union buffer[c] /\ RolledBack(c)
  <2>1. /\ txn' \in [Links -> Txns] /\ buffer' \in [Links -> SUBSET (Nat \X Nat)]
        /\ \A k : Part(buffer'[c], k) = {}
        /\ \A d \in Links \ {c} : txn'[d] = txn[d] /\ buffer'[d] = buffer[d]
        /\ ClosedIsEmpty'
    BY <1>10, Emptied
  <2>2. file' \in SUBSET (Nat \X Nat) /\ \A k : Part(file', k) = Part(file, k) \union Part(buffer[c], k)
    BY <1>10, PartOfBoth DEF SqliteInv, SqliteTypeOK
  <2>3. Moves(c)
    BY <1>1, <1>3, <1>4, <2>1, <2>2 DEF Moves, Quiet, others
  <2> QED BY <2>3, MovesInv
<1>11. \/ UNCHANGED <<txn, buffer, file>>
       \/ file' = file \union {<<mine, 1>>} /\ UNCHANGED <<buffer, txn>>
       \/ /\ buffer' = [buffer EXCEPT ![c] = @ \union {<<mine, 1>>}]
          /\ txn[c] # "none" /\ UNCHANGED <<file, txn>>
       \/ txn[c] = "none" /\ txn' = [txn EXCEPT ![c] = "deferred"] /\ UNCHANGED <<buffer, file>>
       \/ file' = file \union buffer[c] /\ RolledBack(c)
  BY DEF Run
<1> QED BY <1>6, <1>7, <1>8, <1>9, <1>10, <1>11

LEMMA BeginImmediateInv == ASSUME SqliteInv, NEW c \in Links, BeginImmediate(c) PROVE SqliteInv'
<1>1. Busy(c) /\ thread[c].at = "begin" /\ Op(c) = "apply" /\ Quiet /\ UNCHANGED <<buffer, file>>
  BY DEF BeginImmediate, Busy, SqliteInv, InKind, KindAt, Quiet
<1>2. Progress(c)
  BY <1>1 DEF SqliteInv, AsFarAsItCame
<1>3. CASE Ends(c, "error") /\ UNCHANGED txn
  <2>1. OwnStep(c) /\ thread'[c].at = "ended" /\ thread'[c].result = "error"
    BY <1>1, <1>3, EndsOne DEF Quiet
  <2>2. KindAt(c)' /\ Progress(c)'
    BY <1>1, <1>2, <2>1 DEF KindAt, Progress, OwnStep
  <2>3. Moves(c)
    BY <1>1, <1>2, <1>3, <2>1, <2>2
    DEF Moves, Progress, Quiet, others, SqliteInv, SqliteTypeOK, ClosedIsEmpty
  <2> QED BY <2>3, MovesInv
<1>4. CASE txn[c] = "none" /\ txn' = [txn EXCEPT ![c] = "immediate"] /\ Goes(c, "write")
  <2>1. OwnStep(c) /\ thread'[c].at = "write" /\ thread'[c].next = 1
    <3>1. "write" \in Steps \ {"idle"} /\ "ok" \in {"ok", "error"}
      BY DEF Steps
    <3>2. thread' = [thread EXCEPT ![c].at = "write"] /\ UNCHANGED calls
      BY <1>1, <1>4 DEF Quiet, Goes
    <3>3. OwnStep(c) /\ thread'[c].at = "write" /\ thread'[c].next = thread[c].next
      BY <1>1, <3>1, <3>2, OneEnds
    <3>4. thread[c].next = 1
      BY <1>1 DEF SqliteInv, InKind, KindAt
    <3> QED BY <3>3, <3>4
  <2>2. /\ txn' \in [Links -> Txns] /\ txn'[c] = "immediate"
        /\ \A d \in Links \ {c} : txn'[d] = txn[d]
    BY <1>4 DEF SqliteInv, SqliteTypeOK, Txns
  <2>3. Part(buffer[c], thread[c].call) = 1..0
    BY <1>1, <1>2 DEF Progress
  <2>4. KindAt(c)' /\ Progress(c)' /\ Midway(c, thread[c].call)'
    BY SqliteAssumption, <1>1, <1>2, <2>1, <2>2, <2>3 DEF KindAt, Progress, OwnStep, Op, Midway, Quiet
  <2>5. ClosedIsEmpty'
    BY <1>1, <2>2 DEF SqliteInv, ClosedIsEmpty
  <2>6. Moves(c)
    BY <1>1, <2>1, <2>2, <2>4, <2>5 DEF Moves, Quiet, others, SqliteInv, SqliteTypeOK
  <2> QED BY <2>6, MovesInv
<1> QED BY <1>3, <1>4 DEF BeginImmediate

LEMMA RollbackInv == ASSUME SqliteInv, NEW c \in Links, Rollback(c) PROVE SqliteInv'
<1>1. Busy(c) /\ thread[c].at = "rollback" /\ Op(c) = "apply" /\ Quiet /\ UNCHANGED file
  BY DEF Rollback, Busy, SqliteInv, InKind, KindAt, Quiet
<1>2. Progress(c)
  BY <1>1 DEF SqliteInv, AsFarAsItCame
<1>3. OwnStep(c) /\ thread'[c].at = "ended" /\ thread'[c].result = "error"
  BY <1>1, EndsOne DEF Quiet, Rollback
<1>4. /\ txn' \in [Links -> Txns] /\ buffer' \in [Links -> SUBSET (Nat \X Nat)]
      /\ \A k : Part(buffer'[c], k) = {}
      /\ \A d \in Links \ {c} : txn'[d] = txn[d] /\ buffer'[d] = buffer[d]
      /\ ClosedIsEmpty'
  BY Emptied DEF Rollback
<1>5. KindAt(c)' /\ Progress(c)'
  BY <1>1, <1>2, <1>3, <1>4 DEF KindAt, Progress, OwnStep
<1>6. Moves(c)
  BY <1>1, <1>3, <1>4, <1>5 DEF Moves, Quiet, others, SqliteInv, SqliteTypeOK
<1> QED BY <1>6, MovesInv

LEMMA CommitStepInv == ASSUME SqliteInv, NEW c \in Links, CommitStep(c) PROVE SqliteInv'
<1>1. Busy(c) /\ thread[c].at = "commit" /\ Op(c) = "apply" /\ Quiet
  BY DEF CommitStep, Busy, SqliteInv, InKind, KindAt, Quiet
<1>2. Progress(c)
  BY <1>1 DEF SqliteInv, AsFarAsItCame
<1>3. CASE Ends(c, "error") /\ UNCHANGED <<txn, buffer, file>>
  <2>1. OwnStep(c) /\ thread'[c].at = "ended" /\ thread'[c].result = "error"
    BY <1>1, <1>3, EndsOne DEF Quiet
  <2>2. KindAt(c)' /\ Progress(c)'
    BY <1>1, <1>2, <1>3, <2>1 DEF KindAt, Progress, OwnStep
  <2>3. Moves(c)
    BY <1>1, <1>2, <1>3, <2>1, <2>2
    DEF Moves, Progress, Quiet, others, SqliteInv, SqliteTypeOK, ClosedIsEmpty
  <2> QED BY <2>3, MovesInv
<1>4. CASE file' = file \union buffer[c] /\ RolledBack(c) /\ Ends(c, "ok")
  <2>1. OwnStep(c) /\ thread'[c].at = "ended" /\ thread'[c].result = "ok"
    BY <1>1, <1>4, EndsOne DEF Quiet
  <2>2. /\ txn' \in [Links -> Txns] /\ buffer' \in [Links -> SUBSET (Nat \X Nat)]
        /\ \A k : Part(buffer'[c], k) = {}
        /\ \A d \in Links \ {c} : txn'[d] = txn[d] /\ buffer'[d] = buffer[d]
        /\ ClosedIsEmpty'
    BY <1>4, Emptied
  <2>3. file' \in SUBSET (Nat \X Nat) /\ \A k : Part(file', k) = Part(file, k) \union Part(buffer[c], k)
    BY <1>4, PartOfBoth DEF SqliteInv, SqliteTypeOK
  <2>4. KindAt(c)' /\ Progress(c)'
    BY <1>1, <1>2, <2>1, <2>2, <2>3 DEF KindAt, Progress, OwnStep
  <2>5. Moves(c)
    BY <1>1, <2>1, <2>2, <2>3, <2>4 DEF Moves, Quiet, others
  <2> QED BY <2>5, MovesInv
<1> QED BY <1>3, <1>4 DEF CommitStep

LEMMA WritesOn ==
    ASSUME SqliteInv, NEW c \in Links, Busy(c), NEW step \in Steps \ {"idle"},
           thread' = [thread EXCEPT ![c].at = step, ![c].next = @ + 1], UNCHANGED calls
    PROVE  OwnStep(c) /\ thread'[c].at = step /\ thread'[c].next = thread[c].next + 1
<1> DEFINE T == thread[c]
<1>1. T \in Threads /\ T = [call |-> T.call, at |-> T.at, next |-> T.next, result |-> T.result]
  BY DEF SqliteInv, SqliteTypeOK, Threads
<1>2. /\ thread'[c] = [[T EXCEPT !.at = step] EXCEPT !.next = @ + 1]
      /\ \A d \in Links \ {c} : thread'[d] = thread[d]
  BY DEF SqliteInv, SqliteTypeOK
<1> HIDE DEF T
<1>3. [T EXCEPT !.at = step] = [call |-> T.call, at |-> step, next |-> T.next, result |-> T.result]
  BY <1>1
<1>4. ASSUME NEW U, U = [call |-> T.call, at |-> step, next |-> T.next, result |-> T.result]
      PROVE  [U EXCEPT !.next = @ + 1]
               = [call |-> T.call, at |-> step, next |-> T.next + 1, result |-> T.result]
  BY ONLY <1>4
<1>5. thread'[c] = [call |-> T.call, at |-> step, next |-> T.next + 1, result |-> T.result]
  BY <1>2, <1>3, <1>4
<1>6. thread'[c] \in Threads
  <2>1. T.call \in Nat /\ T.next \in Nat /\ T.result \in {"none", "ok", "error"}
    BY <1>1 DEF Threads
  <2>2. T.next + 1 \in Nat /\ step \in Steps
    BY <2>1
  <2>3. ASSUME NEW k \in Nat, NEW s \in Steps, NEW m \in Nat, NEW r \in {"none", "ok", "error"}
        PROVE  [call |-> k, at |-> s, next |-> m, result |-> r] \in Threads
    BY ONLY DEF Threads
  <2> QED BY <1>5, <2>1, <2>2, <2>3
<1>7. thread' \in [Links -> Threads]
  BY <1>2, <1>6 DEF SqliteInv, SqliteTypeOK
<1> QED BY <1>2, <1>5, <1>7 DEF OwnStep, Busy, T

LEMMA WriteOneInv == ASSUME SqliteInv, NEW c \in Links, WriteOne(c) PROVE SqliteInv'
<1> DEFINE mine == thread[c].call
           n == thread[c].next
<1>1. /\ Busy(c) /\ thread[c].at = "write" /\ Op(c) = "apply" /\ Quiet /\ UNCHANGED <<txn, file>>
      /\ txn[c] = "immediate" /\ n \in 1..Writes /\ mine \in Nat
  BY DEF WriteOne, Busy, SqliteInv, InKind, KindAt, Quiet, SqliteTypeOK, Threads
<1>2. Progress(c)
  BY <1>1 DEF SqliteInv, AsFarAsItCame
<1>3. CASE Goes(c, "rollback") /\ UNCHANGED buffer
  <2>1. OwnStep(c) /\ thread'[c].at = "rollback"
    BY <1>1, <1>3, OneEnds DEF Quiet, Goes, Steps
  <2>2. KindAt(c)' /\ Progress(c)' /\ Midway(c, thread[c].call)'
    BY <1>1, <1>2, <1>3, <2>1 DEF KindAt, Progress, OwnStep, Op, Midway
  <2>3. Moves(c)
    BY <1>1, <1>3, <2>1, <2>2 DEF Moves, Quiet, others, SqliteInv, SqliteTypeOK, ClosedIsEmpty
  <2> QED BY <2>3, MovesInv
<1>4. CASE buffer' = [buffer EXCEPT ![c] = @ \union {<<mine, n>>}]
  <2>1. /\ buffer'[c] = buffer[c] \union {<<mine, n>>} /\ buffer' \in [Links -> SUBSET (Nat \X Nat)]
        /\ \A d \in Links \ {c} : buffer'[d] = buffer[d]
    BY <1>1, <1>4 DEF SqliteInv, SqliteTypeOK
  <2>2. \A j : j # mine => Part(buffer'[c], j) = Part(buffer[c], j)
    <3>1. \A j : j # mine => Part(buffer[c] \union {<<mine, n>>}, j) = Part(buffer[c], j)
      BY PartWithAnother
    <3> QED BY <2>1, <3>1
  <2>3. Part(buffer'[c], mine) = 1..n
    <3>1. Part(buffer'[c], mine) = Part(buffer[c], mine) \union {n}
      <4>1. Part({<<mine, n>>}, mine) = {n}
        BY <1>1, PartOfOne
      <4>2. Part(buffer[c] \union {<<mine, n>>}, mine)
              = Part(buffer[c], mine) \union Part({<<mine, n>>}, mine)
        BY PartOfBoth
      <4> QED BY <2>1, <4>1, <4>2
    <3>2. Part(buffer[c], mine) = 1..(n - 1)
      BY <1>1, <1>2 DEF Progress
    <3>3. 1..n = 1..(n - 1) \union {n}
      BY SqliteAssumption, <1>1
    <3> QED BY <3>1, <3>2, <3>3
  <2>4. ClosedIsEmpty'
    BY <1>1, <2>1 DEF SqliteInv, ClosedIsEmpty
  <2>5. CASE Goes(c, "rollback")
    <3>1. OwnStep(c) /\ thread'[c].at = "rollback"
      BY <1>1, <2>5, OneEnds DEF Quiet, Goes, Steps
    <3>2. KindAt(c)' /\ Progress(c)' /\ Midway(c, thread[c].call)'
      BY <1>1, <1>2, <2>1, <3>1 DEF KindAt, Progress, OwnStep, Op, Midway
    <3>3. Moves(c)
      BY <1>1, <2>1, <2>2, <2>4, <3>1, <3>2 DEF Moves, Quiet, others, SqliteInv, SqliteTypeOK
    <3> QED BY <3>3, MovesInv
  <2>6. CASE thread' = [thread EXCEPT ![c].at = IF n = Writes THEN "commit" ELSE "write",
                                      ![c].next = @ + 1]
    <3>1. /\ OwnStep(c) /\ thread'[c].at = IF n = Writes THEN "commit" ELSE "write"
          /\ thread'[c].next = n + 1
      <4> DEFINE step == IF n = Writes THEN "commit" ELSE "write"
      <4>1. step \in Steps \ {"idle"} /\ thread' = [thread EXCEPT ![c].at = step, ![c].next = @ + 1]
        BY <2>6 DEF Steps
      <4>2. UNCHANGED calls
        BY <1>1 DEF Quiet
      <4> HIDE DEF step
      <4>3. OwnStep(c) /\ thread'[c].at = step /\ thread'[c].next = n + 1
        BY <1>1, <4>1, <4>2, WritesOn
      <4> QED BY <4>3 DEF step
    <3>2. Part(buffer'[c], thread'[c].call) = 1..n
      BY <2>3, <3>1 DEF OwnStep
    <3>3. Progress(c)'
      <4>1. /\ \A d \in Links \ {c} : Part(buffer'[d], thread'[c].call) = {}
            /\ Part(file', thread'[c].call) = {}
        BY <1>1, <1>2, <2>1, <3>1 DEF Progress, OwnStep
      <4>2. n = n + 1 - 1
        BY SqliteAssumption, <1>1
      <4>3. /\ thread'[c].at = "write" => Part(buffer'[c], thread'[c].call) = 1..(thread'[c].next - 1)
            /\ thread'[c].at = "commit" => Part(buffer'[c], thread'[c].call) = 1..Writes
        <5>1. thread'[c].next - 1 = n
          <6>1. n \in Nat
            BY SqliteAssumption, <1>1
          <6>2. \A i \in Nat : i + 1 - 1 = i
            OBVIOUS
          <6> HIDE DEF n
          <6>3. thread'[c].next = n + 1
            BY <3>1 DEF n
          <6> QED BY <6>1, <6>2, <6>3
        <5> QED BY <3>1, <3>2, <5>1
      <4> QED BY <3>1, <4>1, <4>3 DEF Progress
    <3>4. KindAt(c)' /\ (Midway(c, thread[c].call)' \/ Part(buffer'[c], mine) \in {{}, 1..Writes})
      BY SqliteAssumption, <1>1, <2>3, <3>1 DEF KindAt, OwnStep, Op, Midway
    <3>5. Moves(c)
      BY <1>1, <2>1, <2>2, <2>4, <3>1, <3>3, <3>4 DEF Moves, Quiet, others, SqliteInv, SqliteTypeOK
    <3> QED BY <3>5, MovesInv
  <2> QED BY <1>3, <2>5, <2>6 DEF WriteOne
<1> QED BY <1>3, <1>4 DEF WriteOne

LEMMA InterruptInv == ASSUME SqliteInv, NEW p \in presses, Interrupt(p) PROVE SqliteInv'
<1> DEFINE c == p.on
<1>1. c \in Links
  BY DEF SqliteInv, SqliteTypeOK
<1>2. /\ UNCHANGED <<held, opened, flag, file, calls, pressed>> /\ presses' \subseteq presses
      /\ touched \subseteq touched'
  BY DEF Interrupt, Touch
<1> HIDE DEF c
<1>3. CASE UNCHANGED <<thread, txn, buffer>>
  <2>1. SqliteTypeOK'
    BY <1>2, <1>3 DEF SqliteInv, SqliteTypeOK
  <2>2. OwnCall' /\ InKind' /\ ClosedIsEmpty' /\ NotAhead'
    BY <1>2, <1>3 DEF SqliteInv, OwnCall, InKind, KindAt, ClosedIsEmpty, NotAhead, Busy, Op
  <2>3. AsFarAsItCame' /\ Whole' /\ AsTold' /\ Flagged'
    BY <1>2, <1>3 DEF SqliteInv, AsFarAsItCame, Progress, Whole, AsTold, Flagged, CanceledWasAsked,
                      Busy, Op, Midway, Commits
  <2> QED BY <2>1, <2>2, <2>3 DEF SqliteInv
<1>4. CASE thread[c].at \in {"run", "begin", "commit"} /\ Ends(c, "error") /\ UNCHANGED <<txn, buffer>>
  <2>1. Busy(c) /\ OwnStep(c) /\ thread'[c].at = "ended" /\ thread'[c].result = "error"
    BY <1>1, <1>2, <1>4, EndsOne DEF Busy
  <2>2. KindAt(c)'
    BY <2>1 DEF KindAt
  <2>3. ASSUME Op(c) = "apply"
        PROVE  Progress(c)' /\ Part(buffer'[c], thread[c].call) \in {{}, 1..Writes}
    <3>1. Progress(c) /\ thread[c].at \in {"begin", "commit"}
      BY <1>1, <1>4, <2>1, <2>3 DEF SqliteInv, InKind, KindAt, AsFarAsItCame
    <3> QED BY <1>2, <1>4, <2>1, <3>1 DEF Progress, OwnStep
  <2>4. Moves(c)
    BY <1>1, <1>2, <1>4, <2>1, <2>2, <2>3 DEF Moves, SqliteInv, SqliteTypeOK, ClosedIsEmpty
  <2> QED BY <1>1, <2>4, MovesInv
<1>5. CASE /\ RolledBack(c)
           /\ \/ thread[c].at = "run" /\ Op(c) # "apply" /\ Ends(c, "error")
              \/ thread[c].at = "write" /\ Goes(c, "rollback")
  <2>1. /\ txn' \in [Links -> Txns] /\ buffer' \in [Links -> SUBSET (Nat \X Nat)]
        /\ \A k : Part(buffer'[c], k) = {}
        /\ \A d \in Links \ {c} : txn'[d] = txn[d] /\ buffer'[d] = buffer[d]
        /\ ClosedIsEmpty'
    BY <1>1, <1>5, Emptied
  <2>2. CASE thread[c].at = "run" /\ Op(c) # "apply" /\ Ends(c, "error")
    <3>1. Busy(c) /\ OwnStep(c) /\ thread'[c].at = "ended" /\ thread'[c].result = "error"
      BY <1>1, <1>2, <2>2, EndsOne DEF Busy
    <3>2. KindAt(c)'
      BY <3>1 DEF KindAt
    <3>3. Moves(c)
      BY <1>2, <2>1, <2>2, <3>1, <3>2 DEF Moves, SqliteInv, SqliteTypeOK
    <3> QED BY <1>1, <3>3, MovesInv
  <2>3. CASE thread[c].at = "write" /\ Goes(c, "rollback")
    <3>1. Busy(c) /\ OwnStep(c) /\ thread'[c].at = "rollback"
      BY <1>1, <1>2, <2>3, OneEnds DEF Busy, Goes, Steps
    <3>2. Op(c) = "apply" /\ Progress(c)
      BY <1>1, <2>3, <3>1 DEF SqliteInv, InKind, KindAt, AsFarAsItCame
    <3>3. KindAt(c)' /\ Progress(c)'
      BY <1>1, <1>2, <2>1, <2>3, <3>1, <3>2 DEF KindAt, Progress, OwnStep, Op
    <3>4. Moves(c)
      BY <1>2, <2>1, <2>3, <3>1, <3>3 DEF Moves, SqliteInv, SqliteTypeOK
    <3> QED BY <1>1, <3>4, MovesInv
  <2> QED BY <1>5, <2>2, <2>3
<1> QED BY <1>3, <1>4, <1>5 DEF Interrupt, c

LEMMA FinishInv == ASSUME SqliteInv, NEW c \in Links, Finish(c) PROVE SqliteInv'
<1> DEFINE mine == thread[c].call
           Rec == [op : Ops, told : Told, open : Txns]
           heard == IF flag[c] /\ thread[c].result = "error" THEN "canceled" ELSE thread[c].result
           told == IF c = held THEN heard ELSE calls[mine].told
<1>1. /\ Busy(c) /\ thread[c].at = "ended" /\ thread[c].result \in {"ok", "error"}
      /\ mine \in 1..Len(calls) /\ calls[mine].told \in {"none", "dropped"}
      /\ \A d \in Links \ {c} : Busy(d) => thread[d].call # mine
      /\ Len(calls) \in Nat /\ calls \in Seq(Rec) /\ txn[c] \in Txns
  BY DEF Finish, Busy, SqliteInv, InKind, KindAt, OwnCall, SqliteTypeOK
<1>2. UNCHANGED <<others, file>>
  BY DEF Finish
<1>3. /\ thread' \in [Links -> Threads] /\ ~Busy(c)'
      /\ \A d \in Links \ {c} : thread'[d] = thread[d] /\ Busy(d)' = Busy(d)
      /\ flag' \in [Links -> BOOLEAN] /\ ~flag'[c]
      /\ \A d \in Links \ {c} : flag'[d] = flag[d]
  BY DEF Finish, Busy, Idle, SqliteInv, SqliteTypeOK, Threads, Steps
<1>4. /\ txn' \in [Links -> Txns] /\ buffer' \in [Links -> SUBSET (Nat \X Nat)]
      /\ \A d \in Links \ {c} : txn'[d] = txn[d] /\ buffer'[d] = buffer[d]
      /\ \A k : Part(buffer'[c], k) \in {Part(buffer[c], k), {}}
      /\ ClosedIsEmpty'
  <2>1. CASE c = held
    BY <2>1 DEF Finish, SqliteInv, SqliteTypeOK, ClosedIsEmpty
  <2>2. CASE c # held
    <3>1. RolledBack(c)
      BY <2>2 DEF Finish
    <3> QED BY <3>1, Emptied
  <2> QED BY <2>1, <2>2
<1>5. calls' = [calls EXCEPT ![mine].told = IF c = held THEN heard ELSE @, ![mine].open = txn[c]]
  BY DEF Finish
<1> HIDE DEF mine, Rec, heard
<1>6. /\ Len(calls') = Len(calls) /\ DOMAIN calls' = DOMAIN calls
      /\ \A j \in 1..Len(calls) : j # mine => calls'[j] = calls[j]
      /\ calls'[mine].op = calls[mine].op
      /\ calls'[mine].told = told /\ calls'[mine].open = txn[c]
      /\ calls' \in Seq(Rec)
  <2>1. calls[mine] \in Rec
    BY <1>1
  <2>2. PICK o, t, q : o \in Ops /\ t \in Told /\ q \in Txns /\ calls[mine] = [op |-> o, told |-> t, open |-> q]
    BY <2>1 DEF Rec
  <2>3. calls'[mine] = [[calls[mine] EXCEPT !.told = told] EXCEPT !.open = txn[c]]
    <3>1. mine \in DOMAIN calls
      BY <1>1
    <3>2. CASE c = held
      BY <1>5, <3>1, <3>2
    <3>3. CASE c # held
      BY <1>5, <3>1, <3>3
    <3> QED BY <3>2, <3>3
  <2> HIDE DEF told
  <2>4. [calls[mine] EXCEPT !.told = told] = [op |-> o, told |-> told, open |-> q]
    BY <2>2
  <2>5. ASSUME NEW U, U = [op |-> o, told |-> told, open |-> q]
        PROVE  [U EXCEPT !.open = txn[c]] = [op |-> o, told |-> told, open |-> txn[c]]
    BY ONLY <2>5
  <2>6. calls'[mine] = [op |-> o, told |-> told, open |-> txn[c]]
    BY <2>3, <2>4, <2>5
  <2>7. told \in Told
    BY <1>1, <2>2 DEF told, heard, Told
  <2>8. calls'[mine] \in Rec
    BY <1>1, <2>2, <2>6, <2>7 DEF Rec
  <2>9. /\ DOMAIN calls' = DOMAIN calls
        /\ \A j \in 1..Len(calls) : j # mine => calls'[j] = calls[j]
    BY <1>1, <1>5
  <2>10. calls' \in Seq(Rec) /\ Len(calls') = Len(calls)
    <3>1. DOMAIN calls' = 1..Len(calls) /\ \A j \in 1..Len(calls) : calls'[j] \in Rec
      BY <1>1, <2>8, <2>9
    <3>2. calls' = [j \in 1..Len(calls) |-> calls'[j]]
      BY <1>1, <1>5, <3>1
    <3> QED BY <1>1, <3>1, <3>2
  <2> QED BY <2>2, <2>6, <2>9, <2>10
<1>7. SqliteTypeOK'
  BY <1>2, <1>3, <1>4, <1>6 DEF SqliteInv, SqliteTypeOK, others, Rec
<1>8. OwnCall'
  BY <1>1, <1>3, <1>6 DEF SqliteInv, OwnCall
<1>9. Commits' = Commits
  BY <1>1, <1>6 DEF Commits
<1>10. \A d \in Links \ {c} : Busy(d) => Op(d)' = Op(d)
  BY <1>1, <1>3, <1>6 DEF SqliteInv, OwnCall, Op
<1>11. InKind'
  <2> SUFFICES ASSUME NEW d \in Links PROVE KindAt(d)'
    BY DEF InKind
  <2>1. CASE d = c
    BY <2>1, <1>3 DEF KindAt, Busy
  <2>2. CASE d # c
    BY <2>2, <1>3, <1>4, <1>10 DEF SqliteInv, InKind, KindAt, Busy
  <2> QED BY <2>1, <2>2
<1>12. NotAhead'
  <2> SUFFICES ASSUME NEW j \in Nat, j > Len(calls)
               PROVE  Part(file, j) = {} /\ \A d \in Links : Part(buffer'[d], j) = {}
    BY <1>2, <1>6 DEF NotAhead
  <2>1. Part(file, j) = {} /\ \A d \in Links : Part(buffer[d], j) = {}
    BY DEF SqliteInv, NotAhead
  <2> QED BY <1>4, <2>1
<1>13. AsFarAsItCame'
  <2> SUFFICES ASSUME NEW d \in Links, Busy(d)', Op(d)' = "apply" PROVE Progress(d)'
    BY DEF AsFarAsItCame
  <2>1. d # c /\ Busy(d) /\ thread'[d] = thread[d] /\ buffer'[d] = buffer[d] /\ Progress(d)
    BY <1>3, <1>4, <1>10 DEF SqliteInv, AsFarAsItCame
  <2>2. Part(buffer'[c], thread[d].call) = {}
    BY <1>4, <2>1 DEF Progress
  <2>3. \A e \in Links \ {d} : Part(buffer'[e], thread[d].call) = {}
    BY <1>4, <2>1, <2>2 DEF Progress
  <2> QED BY <1>2, <2>1, <2>3 DEF Progress
<1>14. Whole'
  BY <1>1, <1>2, <1>3, <1>4, <1>9 DEF SqliteInv, Whole, Midway
<1>15. AsTold'
  <2> SUFFICES ASSUME NEW j \in Commits
               PROVE  /\ calls'[j].told = "ok" => Part(file, j) = 1..Writes
                      /\ (calls'[j].told \in {"error", "canceled"} /\ calls'[j].open = "none") =>
                            Part(file, j) = {} /\ \A d \in Links : Part(buffer'[d], j) = {}
    BY <1>2, <1>9 DEF AsTold
  <2>1. CASE j # mine
    <3>1. calls'[j] = calls[j]
      BY <2>1, <1>6 DEF Commits
    <3> QED BY <1>4, <3>1 DEF SqliteInv, AsTold
  <2>2. CASE j = mine
    <3>1. Op(c) = "apply"
      BY <2>2 DEF Commits, Op, mine
    <3>2. /\ \A d \in Links \ {c} : Part(buffer[d], j) = {}
          /\ Part(file, j) = IF thread[c].result = "ok" THEN 1..Writes ELSE {}
      BY <2>2, <1>1, <3>1 DEF SqliteInv, AsFarAsItCame, Progress, mine
    <3>3. calls'[j].told = told /\ calls'[j].open = txn[c]
      BY <2>2, <1>6
    <3>4. told = "ok" => thread[c].result = "ok"
      BY <1>1 DEF heard
    <3>5. told \in {"error", "canceled"} => thread[c].result = "error"
      BY <1>1 DEF heard
    <3>6. txn[c] = "none" => Part(buffer[c], j) = {}
      BY PartOfNothing DEF SqliteInv, ClosedIsEmpty
    <3> QED BY <1>4, <3>2, <3>3, <3>4, <3>5, <3>6
  <2> QED BY <2>1, <2>2
<1>16. Flagged'
  <2>1. \A d \in Links : flag'[d] /\ thread'[d].at \notin {"idle", "spawned"} =>
             thread'[d].call \in touched'
    BY <1>2, <1>3 DEF SqliteInv, Flagged, others
  <2>2. told = "canceled" => mine \in touched
    BY <1>1 DEF heard, mine, SqliteInv, Flagged
  <2>3. CanceledWasAsked'
    BY <1>1, <1>2, <1>6, <2>2 DEF SqliteInv, Flagged, CanceledWasAsked, others
  <2> QED BY <2>1, <2>3 DEF Flagged
<1> QED
  BY <1>4, <1>7, <1>8, <1>11, <1>12, <1>13, <1>14, <1>15, <1>16 DEF SqliteInv

LEMMA NextInv == ASSUME SqliteInv, [SqliteNext]_sqliteVars PROVE SqliteInv'
<1>1. CASE Connect \/ Disconnect \/ Press \/ \E op \in Ops : Spawn(op)
  BY <1>1, ConnectInv, DisconnectInv, PressInv, SpawnInv
<1>2. CASE \E c \in Links : Start(c) \/ Run(c) \/ BeginImmediate(c) \/ WriteOne(c)
  BY <1>2, StartInv, RunInv, BeginImmediateInv, WriteOneInv
<1>3. CASE \E c \in Links : Rollback(c) \/ CommitStep(c) \/ Finish(c)
  BY <1>3, RollbackInv, CommitStepInv, FinishInv
<1>4. CASE \E p \in presses : CancelFlag(p) \/ Interrupt(p)
  BY <1>4, CancelFlagInv, InterruptInv
<1>5. CASE UNCHANGED sqliteVars
  <2>1. SqliteTypeOK' /\ OwnCall'
    BY <1>5 DEF sqliteVars, SqliteInv, SqliteTypeOK, OwnCall, Busy
  <2>2. InKind' /\ ClosedIsEmpty' /\ NotAhead'
    BY <1>5 DEF sqliteVars, SqliteInv, InKind, KindAt, Op, ClosedIsEmpty, NotAhead
  <2>3. AsFarAsItCame' /\ Whole'
    BY <1>5 DEF sqliteVars, SqliteInv, AsFarAsItCame, Progress, Busy, Op, Whole, Midway, Commits
  <2>4. AsTold' /\ Flagged'
    BY <1>5 DEF sqliteVars, SqliteInv, AsTold, Flagged, CanceledWasAsked, Busy, Op, Midway, Commits
  <2> QED BY <2>1, <2>2, <2>3, <2>4 DEF SqliteInv
<1> QED BY <1>1, <1>2, <1>3, <1>4, <1>5 DEF SqliteNext

LEMMA PartIsLanded == ASSUME NEW k PROVE Part(file, k) = Landed(k)
BY DEF Part, Landed

LEMMA IInvImplies == ASSUME SqliteInv PROVE AllOrNothing /\ ToldTheTruth /\ CanceledWasAsked
<1>1. AllOrNothing
  BY PartIsLanded DEF SqliteInv, Whole, Commits, AllOrNothing
<1>2. ToldTheTruth
  BY PartIsLanded DEF SqliteInv, AsTold, Commits, ToldTheTruth
<1> QED BY <1>1, <1>2 DEF SqliteInv, Flagged

LEMMA Invariance == SqliteSpec => []SqliteInv
BY InitInv, NextInv, PTL DEF SqliteSpec
-----------------------------------------------------------------------------

\* A commit is in the file whole or not at all (client.rs, commit), for any
\* number of statements, connections, calls and cancels.
THEOREM CommitIsWhole == SqliteSpec => []AllOrNothing
BY Invariance, IInvImplies, PTL

\* The session was told of a commit what the file holds of it (with_conn).
THEOREM WhatWasToldIsTrue == SqliteSpec => []ToldTheTruth
BY Invariance, IInvImplies, PTL

\* Nobody is told of a cancel that no cancel fell in (the flag, client.rs,
\* SqliteConnection::cancel), and the two above: what the drivers run checks.
THEOREM SqliteInOrder == SqliteSpec => []SqliteHolds
<1>1. SqliteInv => SqliteHolds
  BY IInvImplies DEF SqliteHolds
<1> QED BY <1>1, Invariance, PTL
-----------------------------------------------------------------------------

(***************************************************************************)
(* ClickHouse: the conversation with a server, for any statements, results *)
(* and bounds.  Nothing on the wire says which query a packet belongs to, so*)
(* the invariant says where the query being fetched is: on its way to the  *)
(* server, with the server, or over with its last packet on its way back   *)
(* (Unasked, Working, Over); and what of its blocks has been read, is on the*)
(* wire and is still to come (Flow).                                       *)
(***************************************************************************)
Phases == {"idle", "external", "rows", "run", "lost"}
Classes == {"server", "connection", "canceled"}
Questions == [text : Texts, result : Seq(Nat), rows : 0..MaxRows, truncated : BOOLEAN,
         told : {"nothing", "error", "ok", "canceled"}]
Fetches == [on : BOOLEAN, rows : 0..MaxRows, truncated : BOOLEAN, canceled : BOOLEAN,
            wants : BOOLEAN]
Serving == [k : Nat, phase : Phases, left : Seq(Nat), canceled : BOOLEAN]
ToServer == {EmptyBlock, CancelPacket} \cup {QueryPacket(k) : k \in Nat}
Finals == {End(k) : k \in Nat} \cup {Says(k, class) : k \in Nat, class \in Classes}
ToClient == Finals \cup {Data(k, n) : k \in Nat, n \in Nat}

\* The lines, well typed.  A query of blocks is a read, and answers no header.
ClickHouseTypeOK ==
    /\ readOnly \in BOOLEAN /\ closed \in BOOLEAN /\ broken \in BOOLEAN
    /\ asks \in Seq(Questions) /\ fetch \in Fetches
    /\ toServer \in Seq(ToServer) /\ toClient \in Seq(ToClient)
    /\ server \in Serving /\ waiting \in Nat /\ pressCount \in Nat
    /\ \A k \in DOMAIN asks : asks[k].result # <<>> => IsReadOnlyStatement(asks[k].text)

\* The queries and the blocks on the wire.
Queries(line) == {q \in DOMAIN line : \E k \in Nat : line[q] = QueryPacket(k)}
Blocks(line) == {q \in DOMAIN line : line[q] = EmptyBlock}

\* The server is at no query.
Unclaimed == server.k = 0 /\ server.phase \in {"idle", "lost"} /\ (~broken => server = NoQuery)

\* The query waits for the server, the empty block behind it.
Unasked ==
    /\ Unclaimed /\ toClient = <<>> /\ fetch.rows = 0
    /\ ~broken => \E q \in DOMAIN toServer :
          /\ toServer[q] = QueryPacket(Current) /\ Queries(toServer) = {q}
          /\ q + 1 \in DOMAIN toServer /\ toServer[q + 1] = EmptyBlock

\* Of its result, i blocks were read and j sent; h is a header that was not read.
Flow(h, i, j, last) ==
    LET result == asks[Current].result IN
    /\ h \in 0..1 /\ j \in 0..Len(result) /\ i \in 0..j /\ (h = 1 => i = 0)
    /\ Len(toClient) = h + (j - i) + last
    /\ \A m \in 1..(h + (j - i)) :
          toClient[m] = Data(Current, IF m <= h THEN 0 ELSE result[i + m - h])
    /\ ~fetch.truncated => fetch.rows = Sums(result)[i]

\* The server is at it.
Remains(j) ==
    LET result == asks[Current].result IN
    /\ Len(server.left) = Len(result) - j
    /\ \A m \in 1..Len(server.left) : server.left[m] = result[j + m]
Working ==
    /\ server.k = Current /\ server.phase \in Phases \ {"idle"}
    /\ Queries(toServer) = {}
    /\ server.canceled => Current \in stopped
    /\ server.phase = "external" =>
          /\ toClient = <<>> /\ fetch.rows = 0 /\ ~server.canceled
          /\ server.left = asks[Current].result
          /\ ~broken => toServer # <<>> /\ toServer[1] = EmptyBlock
    /\ \E h, i, j \in Nat : Flow(h, i, j, 0) /\ Remains(j)

\* The server is done with it.
Over ==
    /\ Unclaimed /\ Queries(toServer) = {}
    /\ \E h, i, j \in Nat :
          /\ Flow(h, i, j, 1)
          /\ LET final == toClient[Len(toClient)] IN
             \/ final = End(Current) /\ (Current \notin stopped => j = Len(asks[Current].result))
             \/ \E class \in Classes : /\ final = Says(Current, class)
                                       /\ class = "canceled" => Current \in stopped

Fetching ==
    /\ Current > 0 /\ asks[Current].told = "nothing"
    /\ fetch.wants => ExpectsClientData(asks[Current].text)
    /\ Unasked \/ Working \/ Over

\* Between two queries, on a socket that works, nothing is at either end.
Between ==
    /\ ~closed => toClient = <<>>
    /\ ~broken => server = NoQuery /\ toClient = <<>> /\ Queries(toServer) = {}

\* Until a cancel stops a query, every block on its way to the server is one it
\* waits for, or will, and no header is left to answer once it does not.
Owed == stopped = {} /\ ~broken =>
    /\ ~fetch.on => Blocks(toServer) = {}
    /\ fetch.on /\ server.k = 0 /\ toClient = <<>> =>
          \A q \in Queries(toServer) : Blocks(toServer) = {q + 1}
    /\ fetch.on /\ server.phase = "external" => Blocks(toServer) = {1}
    /\ fetch.on /\ server.phase = "rows" =>
          \/ Len(toClient) = 1 /\ Blocks(toServer) = {}
          \/ toClient = <<>> /\ ~fetch.wants /\ \A p, q \in Blocks(toServer) : p = q
    /\ fetch.on /\ (server.phase = "run" \/ (server.k = 0 /\ toClient # <<>>)) =>
          /\ Blocks(toServer) = {}
          /\ \A m \in DOMAIN toClient : fetch.wants => toClient[m] \in Finals

\* A server hangs up for good, and only after a cancel.
Lost == server.phase = "lost" => broken /\ stopped # {}

ClickHouseInv ==
    /\ ClickHouseTypeOK /\ (fetch.on => Fetching) /\ (~fetch.on => Between) /\ Owed /\ Lost
    /\ WholeOrSaid
-----------------------------------------------------------------------------
\* The sums of the blocks' sizes are what they are defined to be.
SumsTo(blocks, n, f) ==
    /\ f \in [0..n -> Nat] /\ f[0] = 0
    /\ \A i \in 1..n : f[i] = f[i - 1] + blocks[i]

LEMMA Least == ASSUME NEW S \in SUBSET Nat, S # {} PROVE \E n \in S : \A m \in S : n <= m
<1>1. PICK n \in S : \A m \in S : <<m, n>> \notin OpToRel(<, Nat)
  BY WFMin, NatLessThanWellFounded
<1>2. \A m \in S : ~(m < n)
  BY <1>1, Zenon DEF OpToRel
<1> QED BY <1>2

LEMMA SumsExist ==
    ASSUME NEW blocks \in Seq(Nat)
    PROVE  \E f : SumsTo(blocks, Len(blocks), f)
<1> DEFINE Bad == {n \in 0..Len(blocks) : ~\E f : SumsTo(blocks, n, f)}
<1>0. Len(blocks) \in Nat /\ Len(blocks) \in 0..Len(blocks)
  OBVIOUS
<1>1. SUFFICES ASSUME Bad # {} PROVE FALSE
  BY <1>0
<1>2. PICK n \in Bad : \A m \in Bad : n <= m
  <2>1. Bad \in SUBSET Nat
    OBVIOUS
  <2> HIDE DEF Bad
  <2> QED BY <1>1, <2>1, Least
<1>3. n # 0
  <2>1. SumsTo(blocks, 0, [i \in 0..0 |-> 0])
    BY DEF SumsTo
  <2> QED BY <2>1
<1>4. n - 1 \in 0..Len(blocks) /\ n - 1 \notin Bad
  BY <1>2, <1>3
<1>5. PICK f : SumsTo(blocks, n - 1, f)
  BY <1>4
<1> DEFINE g == [i \in 0..n |-> IF i = n THEN f[n - 1] + blocks[n] ELSE f[i]]
<1>6. SumsTo(blocks, n, g)
  BY <1>3, <1>5 DEF SumsTo
<1> QED BY <1>6

LEMMA SumsAre ==
    ASSUME NEW blocks \in Seq(Nat)
    PROVE  SumsTo(blocks, Len(blocks), Sums(blocks))
<1> DEFINE Equals(f) == f = [i \in 0..Len(blocks) |-> IF i = 0 THEN 0 ELSE f[i - 1] + blocks[i]]
<1>1. PICK f : SumsTo(blocks, Len(blocks), f)
  BY SumsExist
<1>2. Equals(f)
  BY <1>1 DEF SumsTo
<1>3. Sums(blocks) = CHOOSE g : Equals(g)
  BY Zenon DEF Sums
<1>4. Equals(Sums(blocks))
  BY <1>2, <1>3, Zenon
<1>5. Sums(blocks) = [i \in 0..Len(blocks) |-> IF i = 0 THEN 0 ELSE Sums(blocks)[i - 1] + blocks[i]]
  BY <1>4
<1> DEFINE g == Sums(blocks)
           Off == {n \in 0..Len(blocks) : g[n] # f[n]}
<1>6. Len(blocks) \in Nat /\ Off \in SUBSET Nat
  OBVIOUS
<1>7. g[0] = 0 /\ \A i \in 1..Len(blocks) : g[i] = g[i - 1] + blocks[i]
  BY <1>5, <1>6
<1>8. Off = {}
  <2>1. SUFFICES ASSUME Off # {} PROVE FALSE
    OBVIOUS
  <2>2. PICK n \in Off : \A m \in Off : n <= m
    <3> HIDE DEF Off
    <3> QED BY <1>6, <2>1, Least
  <2> HIDE DEF g
  <2>3. n # 0 /\ n \in 1..Len(blocks)
    BY <1>1, <1>6, <1>7 DEF SumsTo
  <2>4. n - 1 \in 0..Len(blocks) /\ n - 1 \notin Off
    BY <1>6, <2>2, <2>3
  <2>5. g[n - 1] = f[n - 1]
    BY <2>4
  <2> QED BY <1>1, <1>7, <2>3, <2>5 DEF SumsTo
<1>9. g = [i \in 0..Len(blocks) |-> g[i]]
  BY <1>5
<1> HIDE DEF g
<1>10. g = f
  BY <1>1, <1>8, <1>9 DEF SumsTo
<1> QED BY <1>1, <1>10 DEF g

-----------------------------------------------------------------------------
(* What is on the wire.                                                    *)

LEMMA PacketsDiffer ==
    /\ CancelPacket # EmptyBlock /\ CancelPacket \in ToServer /\ EmptyBlock \in ToServer
    /\ \A k : QueryPacket(k) # EmptyBlock /\ QueryPacket(k) # CancelPacket /\ QueryPacket(k)[1] = "query"
    /\ \A k \in Nat : QueryPacket(k) \in ToServer
    /\ \A k, l : QueryPacket(k) = QueryPacket(l) => k = l
    /\ EmptyBlock[1] = "empty" /\ CancelPacket[1] = "cancel"
BY DEF CancelPacket, EmptyBlock, QueryPacket, ToServer

LEMMA AnswersDiffer ==
    ASSUME NEW p \in ToClient
    PROVE  /\ p.what = "data" => p \notin Finals /\ p = Data(p.k, p.rows) /\ p.k \in Nat /\ p.rows \in Nat
           /\ p.what = "end" => p \in Finals /\ p = End(p.k) /\ p.k \in Nat
           /\ p.what = "exception" =>
                 p \in Finals /\ p = Says(p.k, p.class) /\ p.k \in Nat /\ p.class \in Classes
<1>0. /\ \A k : End(k).what = "end"
      /\ \A k, class : Says(k, class).what = "exception"
      /\ \A k, n : Data(k, n).what = "data" /\ Data(k, n).k = k /\ Data(k, n).rows = n
  BY DEF End, Says, Data
<1>1. CASE \E k, n \in Nat : p = Data(k, n)
  BY <1>0, <1>1 DEF Finals
<1>2. CASE \E k \in Nat : p = End(k)
  BY <1>2 DEF Finals, End
<1>3. CASE \E k \in Nat, class \in Classes : p = Says(k, class)
  BY <1>3 DEF Finals, Says
<1> QED BY <1>1, <1>2, <1>3 DEF ToClient, Finals

LEMMA WithCancel ==
    ASSUME NEW line \in Seq(ToServer)
    PROVE  /\ Append(line, CancelPacket) \in Seq(ToServer)
           /\ Queries(Append(line, CancelPacket)) = Queries(line)
           /\ Blocks(Append(line, CancelPacket)) = Blocks(line)
           /\ DOMAIN line \subseteq DOMAIN Append(line, CancelPacket)
           /\ \A q \in DOMAIN line : Append(line, CancelPacket)[q] = line[q]
           /\ Append(line, CancelPacket) # <<>>
<1> DEFINE more == Append(line, CancelPacket)
<1>1. /\ more \in Seq(ToServer) /\ DOMAIN more = 1..(Len(line) + 1) /\ DOMAIN line = 1..Len(line)
      /\ Len(line) \in Nat /\ more # <<>>
  BY PacketsDiffer
<1>2. \A q \in DOMAIN line : more[q] = line[q]
  BY <1>1
<1>3. more[Len(line) + 1] = CancelPacket
  BY <1>1
<1> HIDE DEF more
<1>4. Queries(more) = Queries(line)
  BY <1>1, <1>2, <1>3, PacketsDiffer DEF Queries
<1>5. Blocks(more) = Blocks(line)
  BY <1>1, <1>2, <1>3, PacketsDiffer DEF Blocks
<1> QED BY <1>1, <1>2, <1>4, <1>5 DEF more

LEMMA WithBlock ==
    ASSUME NEW line \in Seq(ToServer)
    PROVE  /\ Append(line, EmptyBlock) \in Seq(ToServer)
           /\ Queries(Append(line, EmptyBlock)) = Queries(line)
           /\ Blocks(Append(line, EmptyBlock)) = Blocks(line) \cup {Len(line) + 1}
           /\ Append(line, EmptyBlock) # <<>>
<1> DEFINE more == Append(line, EmptyBlock)
<1>1. /\ more \in Seq(ToServer) /\ DOMAIN more = 1..(Len(line) + 1) /\ DOMAIN line = 1..Len(line)
      /\ Len(line) \in Nat /\ more # <<>>
  BY PacketsDiffer
<1>2. \A q \in DOMAIN line : more[q] = line[q]
  BY <1>1
<1>3. more[Len(line) + 1] = EmptyBlock
  BY <1>1
<1> HIDE DEF more
<1>4. Queries(more) = Queries(line)
  BY <1>1, <1>2, <1>3, PacketsDiffer DEF Queries
<1>5. Blocks(more) = Blocks(line) \cup {Len(line) + 1}
  BY <1>1, <1>2, <1>3, PacketsDiffer DEF Blocks
<1> QED BY <1>1, <1>4, <1>5 DEF more

LEMMA WithQuery ==
    ASSUME NEW line \in Seq(ToServer), NEW k \in Nat
    PROVE  LET more == line \o <<QueryPacket(k), EmptyBlock>> IN
           /\ more \in Seq(ToServer)
           /\ Queries(more) = Queries(line) \cup {Len(line) + 1}
           /\ Blocks(more) = Blocks(line) \cup {Len(line) + 2}
           /\ DOMAIN more = 1..(Len(line) + 2)
           /\ more[Len(line) + 1] = QueryPacket(k) /\ more[Len(line) + 2] = EmptyBlock
<1> DEFINE more == line \o <<QueryPacket(k), EmptyBlock>>
<1>1. /\ more \in Seq(ToServer) /\ DOMAIN more = 1..(Len(line) + 2) /\ DOMAIN line = 1..Len(line)
      /\ Len(line) \in Nat
  BY PacketsDiffer
<1>2. \A q \in DOMAIN line : more[q] = line[q]
  BY <1>1
<1>3. more[Len(line) + 1] = QueryPacket(k) /\ more[Len(line) + 2] = EmptyBlock
  BY <1>1
<1> HIDE DEF more
<1>4. Queries(more) = Queries(line) \cup {Len(line) + 1}
  BY <1>1, <1>2, <1>3, PacketsDiffer DEF Queries
<1>5. Blocks(more) = Blocks(line) \cup {Len(line) + 2}
  BY <1>1, <1>2, <1>3, PacketsDiffer DEF Blocks
<1> QED BY <1>1, <1>3, <1>4, <1>5 DEF more

LEMMA WithoutFirst ==
    ASSUME NEW line \in Seq(ToServer), line # <<>>
    PROVE  /\ Tail(line) \in Seq(ToServer) /\ Head(line) = line[1] /\ line[1] \in ToServer
           /\ 1 \in DOMAIN line
           /\ \A q \in Nat \ {0} : /\ q \in DOMAIN Tail(line) <=> q + 1 \in DOMAIN line
                                   /\ q \in DOMAIN Tail(line) => Tail(line)[q] = line[q + 1]
           /\ Queries(Tail(line)) = {q \in Nat \ {0} : q + 1 \in Queries(line)}
           /\ Blocks(Tail(line)) = {q \in Nat \ {0} : q + 1 \in Blocks(line)}
<1>1. /\ Tail(line) \in Seq(ToServer) /\ DOMAIN line = 1..Len(line) /\ Len(line) \in Nat \ {0}
      /\ DOMAIN Tail(line) = 1..(Len(line) - 1) /\ Head(line) = line[1] /\ line[1] \in ToServer
  OBVIOUS
<1>2. \A q \in 1..(Len(line) - 1) : Tail(line)[q] = line[q + 1]
  BY <1>1
<1>3. Queries(Tail(line)) = {q \in Nat \ {0} : q + 1 \in Queries(line)}
  BY <1>1, <1>2 DEF Queries
<1>4. Blocks(Tail(line)) = {q \in Nat \ {0} : q + 1 \in Blocks(line)}
  BY <1>1, <1>2 DEF Blocks
<1> QED BY <1>1, <1>2, <1>3, <1>4

LEMMA NothingOnTheWire == Queries(<<>>) = {} /\ Blocks(<<>>) = {} /\ <<>> \in Seq(ToServer) /\ <<>> \in Seq(ToClient)
BY DEF Queries, Blocks
-----------------------------------------------------------------------------
(* Records, field by field.                                                *)

LEMMA AskTold ==
    ASSUME NEW a \in Questions, NEW told, NEW r, NEW t
    PROVE  [a EXCEPT !.told = told, !.rows = r, !.truncated = t]
           = [text |-> a.text, result |-> a.result, rows |-> r, truncated |-> t, told |-> told]
<1>1. a = [text |-> a.text, result |-> a.result, rows |-> a.rows, truncated |-> a.truncated,
           told |-> a.told]
  BY DEF Questions
<1> DEFINE b == [a EXCEPT !.told = told]
           c == [b EXCEPT !.rows = r]
<1>2. b = [text |-> a.text, result |-> a.result, rows |-> a.rows, truncated |-> a.truncated, told |-> told]
  BY <1>1
<1>3. c = [text |-> a.text, result |-> a.result, rows |-> r, truncated |-> a.truncated, told |-> told]
  <2> HIDE DEF b
  <2> QED BY <1>2
<1>4. [c EXCEPT !.truncated = t] = [text |-> a.text, result |-> a.result, rows |-> r, truncated |-> t, told |-> told]
  <2> HIDE DEF c
  <2> QED BY <1>3
<1>5. [a EXCEPT !.told = told, !.rows = r, !.truncated = t] = [c EXCEPT !.truncated = t]
  OBVIOUS
<1> QED BY <1>4, <1>5

\* Records of a fetch, field by field.
Fetched(on, rows, truncated, canceled, wants) ==
    [on |-> on, rows |-> rows, truncated |-> truncated, canceled |-> canceled, wants |-> wants]

LEMMA FetchedAnew ==
    ASSUME NEW f, NEW o, NEW r, NEW t, NEW c, NEW w, f = Fetched(o, r, t, c, w), NEW v
    PROVE  /\ [f EXCEPT !.on = v] = Fetched(v, r, t, c, w)
           /\ [f EXCEPT !.rows = v] = Fetched(o, v, t, c, w)
           /\ [f EXCEPT !.truncated = v] = Fetched(o, r, v, c, w)
           /\ [f EXCEPT !.canceled = v] = Fetched(o, r, t, v, w)
           /\ [f EXCEPT !.wants = v] = Fetched(o, r, t, c, v)
           /\ f.on = o /\ f.rows = r /\ f.truncated = t /\ f.canceled = c /\ f.wants = w
BY DEF Fetched

LEMMA WantsAnew ==
    ASSUME NEW a, NEW o, NEW r, NEW t, NEW c, NEW w, a = Fetched(o, r, t, c, w), NEW v,
           NEW f, f = [a EXCEPT !.wants = v]
    PROVE  f = Fetched(o, r, t, c, v) /\ a.wants = w
BY FetchedAnew

LEMMA CanceledAnew ==
    ASSUME NEW a, NEW o, NEW r, NEW t, NEW c, NEW w, a = Fetched(o, r, t, c, w), NEW v,
           NEW f, f = [a EXCEPT !.canceled = v]
    PROVE  f = Fetched(o, r, t, v, w) /\ a.canceled = c
BY FetchedAnew

LEMMA FetchedFields ==
    ASSUME NEW a, NEW o, NEW r, NEW t, NEW c, NEW w, a = Fetched(o, r, t, c, w)
    PROVE  a.on = o /\ a.rows = r /\ a.truncated = t /\ a.canceled = c /\ a.wants = w
BY DEF Fetched

LEMMA FetchedOf ==
    ASSUME NEW f \in Fetches PROVE f = Fetched(f.on, f.rows, f.truncated, f.canceled, f.wants)
BY DEF Fetches, Fetched

LEMMA Opened ==
    ASSUME NEW no, NEW yes, NEW e, NEW f,
           f = [on |-> no, rows |-> 0, truncated |-> no, canceled |-> no, wants |-> no]
    PROVE  [f EXCEPT !.on = yes, !.wants = e]
           = [on |-> yes, rows |-> 0, truncated |-> no, canceled |-> no, wants |-> e]
<1> DEFINE g == [f EXCEPT !.on = yes]
<1>1. g = [on |-> yes, rows |-> 0, truncated |-> no, canceled |-> no, wants |-> no]
  OBVIOUS
<1>2. [g EXCEPT !.wants = e] = [on |-> yes, rows |-> 0, truncated |-> no, canceled |-> no, wants |-> e]
  <2> HIDE DEF g
  <2> QED BY <1>1
<1> QED BY <1>2

LEMMA Opening ==
    ASSUME NEW e
    PROVE  [NoFetch EXCEPT !.on = TRUE, !.wants = e] = Fetched(TRUE, 0, FALSE, FALSE, e)
BY Opened, Zenon DEF NoFetch, Fetched

LEMMA Absorbed ==
    ASSUME NEW f \in Fetches, NEW n \in Nat, MaxRows \in Nat
    PROVE  LET room == MaxRows - f.rows
               take == IF n < room THEN n ELSE room
               full == f.truncated \/ n > take
           IN /\ Absorb(f, n) = Fetched(f.on, f.rows + take, full, f.canceled, f.wants)
              /\ f.rows + take \in 0..MaxRows /\ take \in 0..n /\ (~full => ~f.truncated /\ take = n)
<1> DEFINE room == MaxRows - f.rows
           take == IF n < room THEN n ELSE room
           full == f.truncated \/ n > take
           g == [f EXCEPT !.rows = f.rows + take]
<1>1. f = Fetched(f.on, f.rows, f.truncated, f.canceled, f.wants) /\ f.rows \in 0..MaxRows
  BY FetchedOf DEF Fetches
<1>2. g = Fetched(f.on, f.rows + take, f.truncated, f.canceled, f.wants)
  <2> HIDE DEF take
  <2> QED BY <1>1, FetchedAnew
<1>3. [g EXCEPT !.truncated = full] = Fetched(f.on, f.rows + take, full, f.canceled, f.wants)
  <2>1. \A v : [g EXCEPT !.truncated = v] = Fetched(f.on, f.rows + take, v, f.canceled, f.wants)
    <3> HIDE DEF take, g
    <3> QED BY <1>2, FetchedAnew
  <2> HIDE DEF take, full, g
  <2> QED BY <2>1, Zenon
<1>4. Absorb(f, n) = [g EXCEPT !.truncated = full]
  BY DEF Absorb
<1>5. f.rows + take \in 0..MaxRows /\ take \in 0..n /\ (~full => ~f.truncated /\ take = n)
  BY <1>1
<1> QED BY <1>3, <1>4, <1>5
-----------------------------------------------------------------------------
LEMMA FlowKept ==
    ASSUME UNCHANGED <<asks, fetch, toClient>>, NEW h, NEW i, NEW j, NEW last, Flow(h, i, j, last)
    PROVE  Flow(h, i, j, last)'
BY DEF Flow, Current

LEMMA RemainsKept ==
    ASSUME UNCHANGED <<asks, server>>, NEW j, Remains(j) PROVE Remains(j)'
BY DEF Remains, Current

LEMMA OverKept ==
    ASSUME Over, UNCHANGED <<asks, fetch, toClient, server, stopped>>, broken => broken',
           Queries(toServer') = {}
    PROVE  Over'
<1> DEFINE Final(j) == LET final == toClient[Len(toClient)] IN
             \/ final = End(Current) /\ (Current \notin stopped => j = Len(asks[Current].result))
             \/ \E class \in Classes : /\ final = Says(Current, class)
                                       /\ class = "canceled" => Current \in stopped
<1>1. PICK h, i, j \in Nat : Flow(h, i, j, 1) /\ Final(j)
  BY DEF Over
<1>2. Flow(h, i, j, 1)'
  BY <1>1, FlowKept
<1>3. Final(j)'
  BY <1>1 DEF Current
<1>4. Unclaimed'
  BY DEF Over, Unclaimed
<1> QED BY <1>2, <1>3, <1>4 DEF Over

LEMMA WholeKept ==
    ASSUME WholeOrSaid, UNCHANGED asks, stopped \subseteq stopped' PROVE WholeOrSaid'
BY DEF WholeOrSaid

LEMMA WorkingKept ==
    ASSUME Working, UNCHANGED <<asks, fetch, toClient, server, stopped>>, broken => broken',
           Queries(toServer') = {},
           ~broken' => Queries(toServer) = Queries(toServer') /\ DOMAIN toServer \subseteq DOMAIN toServer'
                       /\ toServer' # <<>> /\ \A q \in DOMAIN toServer : toServer'[q] = toServer[q],
           toServer \in Seq(ToServer)
    PROVE  Working'
<1>1. PICK h, i, j \in Nat : Flow(h, i, j, 0) /\ Remains(j)
  BY DEF Working
<1>2. Flow(h, i, j, 0)' /\ Remains(j)'
  BY <1>1, FlowKept, RemainsKept
<1>3. toServer # <<>> => 1 \in DOMAIN toServer
  OBVIOUS
<1>4. /\ server'.k = Current' /\ server'.phase \in Phases \ {"idle"}
      /\ server'.canceled => Current' \in stopped'
      /\ server'.phase = "external" =>
          /\ toClient' = <<>> /\ fetch'.rows = 0 /\ ~server'.canceled
          /\ server'.left = asks'[Current'].result
          /\ ~broken' => toServer' # <<>> /\ toServer'[1] = EmptyBlock
  BY <1>3 DEF Working, Current
<1> QED BY <1>2, <1>4 DEF Working

LEMMA UnaskedKept ==
    ASSUME Unasked, UNCHANGED <<asks, fetch, toClient, server>>, broken => broken',
           ~broken' => Queries(toServer) = Queries(toServer') /\ DOMAIN toServer \subseteq DOMAIN toServer'
                       /\ \A q \in DOMAIN toServer : toServer'[q] = toServer[q]
    PROVE  Unasked'
<1>1. Unclaimed' /\ toClient' = <<>> /\ fetch'.rows = 0
  BY DEF Unasked, Unclaimed
<1>2. ASSUME ~broken' PROVE (\E q \in DOMAIN toServer :
          /\ toServer[q] = QueryPacket(Current) /\ Queries(toServer) = {q}
          /\ q + 1 \in DOMAIN toServer /\ toServer[q + 1] = EmptyBlock)'
  BY <1>2 DEF Unasked, Current
<1> QED BY <1>1, <1>2 DEF Unasked

\* A cancel, or none, is sent.
LEMMA LineAlike ==
    ASSUME ClickHouseInv, UNCHANGED <<asks, fetch, toClient, server, stopped, broken>>, closed => closed',
           Queries(toServer) = Queries(toServer'), Blocks(toServer) = Blocks(toServer'),
           DOMAIN toServer \subseteq DOMAIN toServer',
           \A q \in DOMAIN toServer : toServer'[q] = toServer[q],
           toServer # <<>> => toServer' # <<>>
    PROVE  (fetch.on => Fetching)' /\ (~fetch.on => Between)' /\ Owed' /\ Lost' /\ WholeOrSaid'
<1>1. toServer \in Seq(ToServer)
  BY DEF ClickHouseInv, ClickHouseTypeOK
<1>2. Unasked => Unasked'
  BY UnaskedKept
<1>3. Working => Working'
  <2>1. ASSUME Working, server.phase # "external" PROVE Working'
    <3>1. PICK h, i, j \in Nat : Flow(h, i, j, 0) /\ Remains(j)
      BY <2>1 DEF Working
    <3>2. Flow(h, i, j, 0)' /\ Remains(j)'
      BY <3>1, FlowKept, RemainsKept
    <3> QED BY <2>1, <3>2 DEF Working, Current
  <2>2. ASSUME Working, server.phase = "external" PROVE Working'
    <3>1. broken \/ toServer # <<>>
      BY <2>2 DEF Working
    <3>2. Queries(toServer') = {}
      BY <2>2 DEF Working
    <3> QED BY <1>1, <2>2, <3>1, <3>2, WorkingKept
  <2> QED BY <2>1, <2>2
<1>4. Over => Over'
  <2>1. ASSUME Over PROVE Queries(toServer') = {}
    BY <2>1 DEF Over
  <2> QED BY <2>1, OverKept
<1>5. fetch.on => Fetching'
  BY <1>2, <1>3, <1>4 DEF ClickHouseInv, Fetching, Current
<1>6. ~fetch.on => Between'
  BY DEF ClickHouseInv, Between
<1>7. Owed'
  BY DEF ClickHouseInv, Owed
<1>8. Lost'
  BY DEF ClickHouseInv, Lost
<1>9. WholeOrSaid'
  BY WholeKept DEF ClickHouseInv
<1> QED BY <1>5, <1>6, <1>7, <1>8, <1>9

LEMMA InitIInv == ASSUME ClickHouseInit PROVE ClickHouseInv
<1>0. NoFetch \in Fetches /\ NoQuery \in Serving
  BY ClickHouseAssumption DEF NoFetch, NoQuery, Fetches, Serving, Phases
<1>1. ClickHouseTypeOK
  <2>1. asks \in Seq(Questions) /\ \A k \in DOMAIN asks : asks[k].result # <<>> => IsReadOnlyStatement(asks[k].text)
    BY DEF ClickHouseInit
  <2>2. readOnly \in BOOLEAN /\ closed \in BOOLEAN /\ broken \in BOOLEAN
    BY Zenon DEF ClickHouseInit
  <2>3. waiting \in Nat /\ pressCount \in Nat
    BY DEF ClickHouseInit
  <2>4. fetch = NoFetch /\ server = NoQuery /\ toServer = <<>> /\ toClient = <<>>
    BY DEF ClickHouseInit
  <2> QED BY <1>0, <2>1, <2>2, <2>3, <2>4, NothingOnTheWire, Zenon DEF ClickHouseTypeOK
<1>2. ~fetch.on /\ Between
  BY NothingOnTheWire DEF ClickHouseInit, Between, NoFetch
<1>3. Owed /\ Lost /\ WholeOrSaid
  BY NothingOnTheWire DEF ClickHouseInit, Owed, Lost, WholeOrSaid, NoFetch, NoQuery
<1> QED BY <1>1, <1>2, <1>3 DEF ClickHouseInv

LEMMA PressKeeps == ASSUME ClickHouseInv, PressCancel PROVE ClickHouseInv'
<1>1. ClickHouseTypeOK'
  BY DEF ClickHouseInv, ClickHouseTypeOK, PressCancel
<1>2. (fetch.on => Fetching)' /\ (~fetch.on => Between)' /\ Owed' /\ Lost' /\ WholeOrSaid'
  BY LineAlike DEF PressCancel
<1> QED BY <1>1, <1>2 DEF ClickHouseInv

LEMMA SendCancelKeeps == ASSUME ClickHouseInv, SendCancel PROVE ClickHouseInv'
<1>1. toServer \in Seq(ToServer)
  BY DEF ClickHouseInv, ClickHouseTypeOK
<1>2. toServer' \in Seq(ToServer)
  BY <1>1, WithCancel DEF SendCancel
<1>3. ClickHouseTypeOK'
  <2>1. closed' \in BOOLEAN
    BY Zenon DEF ClickHouseInv, ClickHouseTypeOK, SendCancel
  <2>2. waiting' \in Nat
    BY DEF ClickHouseInv, ClickHouseTypeOK, SendCancel
  <2> QED BY <1>2, <2>1, <2>2 DEF ClickHouseInv, ClickHouseTypeOK, SendCancel
<1>4. /\ Queries(toServer) = Queries(toServer') /\ Blocks(toServer) = Blocks(toServer')
      /\ DOMAIN toServer \subseteq DOMAIN toServer'
      /\ \A q \in DOMAIN toServer : toServer'[q] = toServer[q]
      /\ toServer # <<>> => toServer' # <<>>
  BY <1>1, WithCancel DEF SendCancel
<1>5. UNCHANGED <<asks, fetch, toClient, server, stopped, broken>> /\ (closed => closed')
  BY DEF SendCancel
<1>6. (fetch.on => Fetching)' /\ (~fetch.on => Between)' /\ Owed' /\ Lost' /\ WholeOrSaid'
  BY <1>4, <1>5, LineAlike
<1> QED BY <1>3, <1>6 DEF ClickHouseInv

LEMMA BreaksKeeps == ASSUME ClickHouseInv, Breaks PROVE ClickHouseInv'
<1>1. ClickHouseTypeOK'
  BY NothingOnTheWire DEF ClickHouseInv, ClickHouseTypeOK, Breaks
<1>2. /\ broken' = TRUE /\ toServer' = <<>> /\ Queries(toServer') = {}
      /\ UNCHANGED <<closed, asks, fetch, toClient, server, stopped>> /\ toServer \in Seq(ToServer)
  BY NothingOnTheWire DEF Breaks, ClickHouseInv, ClickHouseTypeOK
<1>3. fetch.on => Fetching'
  <2>1. (Unasked => Unasked') /\ (Working => Working') /\ (Over => Over')
    BY <1>2, UnaskedKept, WorkingKept, OverKept
  <2> QED BY <1>2, <2>1 DEF ClickHouseInv, Fetching, Current
<1>4. ~fetch.on => Between'
  BY <1>2 DEF ClickHouseInv, Between
<1>5. Owed' /\ Lost'
  BY <1>2 DEF ClickHouseInv, Owed, Lost
<1>6. WholeOrSaid'
  BY <1>2, WholeKept DEF ClickHouseInv
<1> QED BY <1>1, <1>2, <1>3, <1>4, <1>5, <1>6 DEF ClickHouseInv

\* A query more, refused or sent.
LEMMA AskedMore ==
    ASSUME ClickHouseInv, NEW ask \in Questions, ask.told # "ok", asks' = Append(asks, ask), UNCHANGED stopped,
           ask.result # <<>> => IsReadOnlyStatement(ask.text)
    PROVE  /\ asks' \in Seq(Questions) /\ Current' = Current + 1 /\ Current \in Nat
           /\ asks'[Current + 1] = ask /\ WholeOrSaid'
           /\ \A k \in DOMAIN asks' : asks'[k].result # <<>> => IsReadOnlyStatement(asks'[k].text)
<1>1. asks \in Seq(Questions) /\ WholeOrSaid
      /\ \A k \in DOMAIN asks : asks[k].result # <<>> => IsReadOnlyStatement(asks[k].text)
  BY DEF ClickHouseInv, ClickHouseTypeOK
<1>2. /\ asks' \in Seq(Questions) /\ Len(asks') = Len(asks) + 1 /\ Len(asks) \in Nat
      /\ DOMAIN asks' = 1..(Len(asks) + 1) /\ DOMAIN asks = 1..Len(asks)
      /\ asks'[Len(asks) + 1] = ask /\ \A k \in DOMAIN asks : asks'[k] = asks[k]
  BY <1>1
<1>3. \A k \in DOMAIN asks' : k \in DOMAIN asks \/ k = Len(asks) + 1
  BY <1>2
<1>4. WholeOrSaid'
  BY <1>1, <1>2, <1>3 DEF WholeOrSaid
<1>5. \A k \in DOMAIN asks' : asks'[k].result # <<>> => IsReadOnlyStatement(asks'[k].text)
  BY <1>1, <1>2, <1>3
<1> QED BY <1>2, <1>4, <1>5 DEF Current

LEMMA FetchKeeps ==
    ASSUME ClickHouseInv, NEW text \in Texts, NEW result \in ResultsOf(text), Fetch(text, result)
    PROVE  ClickHouseInv'
<1> DEFINE refused == closed \/ (readOnly /\ ~IsReadOnlyStatement(text))
           sends == ~refused /\ ~broken
           ask == [text |-> text, result |-> result, rows |-> 0, truncated |-> FALSE,
                   told |-> IF sends THEN "nothing" ELSE "error"]
           asking == [NoFetch EXCEPT !.on = TRUE, !.wants = ExpectsClientData(text)]
<1>1. ~fetch.on /\ asks' = Append(asks, ask) /\ closed' = (closed \/ (~refused /\ broken))
      /\ fetch' = (IF sends THEN asking ELSE fetch)
      /\ toServer' = (IF sends THEN toServer \o <<QueryPacket(Current + 1), EmptyBlock>> ELSE toServer)
      /\ UNCHANGED <<readOnly, broken, toClient, server, waiting, pressCount, stopped>>
  BY DEF Fetch
<1>2. result \in Seq(Nat) /\ (result # <<>> => IsReadOnlyStatement(text))
  <2>1. CASE IsReadOnlyStatement(text)
    BY <2>1, ClickHouseAssumption DEF ResultsOf
  <2>2. CASE ~IsReadOnlyStatement(text)
    BY <2>2 DEF ResultsOf
  <2> QED BY <2>1, <2>2
<1>3. ask \in Questions /\ ask.text = text /\ ask.result = result /\ ask.told = IF sends THEN "nothing" ELSE "error"
  BY <1>2, ClickHouseAssumption DEF Questions
<1>4. asking \in Fetches /\ asking.on /\ asking.rows = 0 /\ asking.wants = ExpectsClientData(text)
  <2>1. asking = Fetched(TRUE, 0, FALSE, FALSE, ExpectsClientData(text))
    BY Opening, Zenon
  <2>2. ExpectsClientData(text) \in BOOLEAN
    BY DEF ExpectsClientData, WaitsForRows
  <2> HIDE DEF asking
  <2> QED BY <2>1, <2>2, ClickHouseAssumption DEF Fetches, Fetched
<1> HIDE DEF ask, asking
<1>5. /\ asks' \in Seq(Questions) /\ Current' = Current + 1 /\ Current \in Nat
      /\ asks'[Current + 1] = ask /\ WholeOrSaid'
      /\ \A k \in DOMAIN asks' : asks'[k].result # <<>> => IsReadOnlyStatement(asks'[k].text)
  BY <1>1, <1>2, <1>3, AskedMore
<1>6. Between /\ Owed /\ Lost /\ ClickHouseTypeOK
  BY <1>1 DEF ClickHouseInv
<1>7. CASE ~sends
  <2>1. UNCHANGED <<fetch, toServer, toClient, server, stopped, broken>> /\ (closed => closed')
    BY <1>1, <1>7
  <2>2. closed' \in BOOLEAN
    BY <1>1, <1>6, Zenon DEF ClickHouseTypeOK
  <2>3. ClickHouseTypeOK'
    BY <1>1, <1>5, <1>6, <2>1, <2>2 DEF ClickHouseTypeOK
  <2>4. ~fetch'.on /\ Between'
    BY <1>1, <1>6, <2>1 DEF Between
  <2>5. Owed' /\ Lost'
    BY <1>6, <2>1 DEF Owed, Lost
  <2> QED BY <1>5, <2>3, <2>4, <2>5 DEF ClickHouseInv
<1>8. CASE sends
  <2>1. /\ fetch' = asking /\ toServer' = toServer \o <<QueryPacket(Current + 1), EmptyBlock>>
        /\ closed' = closed /\ ~closed /\ ~broken /\ toServer \in Seq(ToServer)
    <3>1. closed' = closed
      BY <1>1, <1>6, <1>8, Zenon DEF ClickHouseTypeOK
    <3> QED BY <1>1, <1>6, <1>8, <3>1 DEF ClickHouseTypeOK
  <2>2. server = NoQuery /\ toClient = <<>> /\ Queries(toServer) = {}
    BY <1>6, <2>1 DEF Between
  <2>3. /\ toServer' \in Seq(ToServer) /\ Queries(toServer') = {Len(toServer) + 1}
        /\ Blocks(toServer') = Blocks(toServer) \cup {Len(toServer) + 2}
        /\ DOMAIN toServer' = 1..(Len(toServer) + 2) /\ Len(toServer) \in Nat
        /\ toServer'[Len(toServer) + 1] = QueryPacket(Current + 1)
        /\ toServer'[Len(toServer) + 2] = EmptyBlock
    BY <1>5, <2>1, <2>2, WithQuery
  <2>4. ClickHouseTypeOK'
    BY <1>1, <1>4, <1>5, <1>6, <2>1, <2>3 DEF ClickHouseTypeOK
  <2>5. Unasked'
    <3>1. Unclaimed' /\ toClient' = <<>> /\ fetch'.rows = 0
      BY <1>1, <1>4, <2>1, <2>2 DEF Unclaimed, NoQuery
    <3> DEFINE q == Len(toServer) + 1
    <3>2. /\ q \in DOMAIN toServer' /\ toServer'[q] = QueryPacket(Current') /\ Queries(toServer') = {q}
          /\ q + 1 \in DOMAIN toServer' /\ toServer'[q + 1] = EmptyBlock
      BY <1>5, <2>3
    <3> QED BY <3>1, <3>2 DEF Unasked
  <2>6. fetch'.on /\ Fetching'
    BY <1>3, <1>4, <1>5, <1>8, <2>1, <2>5 DEF Fetching
  <2>7. Owed'
    <3>1. ASSUME stopped = {} PROVE Blocks(toServer) = {}
      BY <1>1, <1>6, <2>1, <3>1 DEF Owed
    <3>2. server'.phase = "idle" /\ toClient' = <<>>
      BY <1>1, <2>2 DEF NoQuery
    <3>3. ASSUME stopped = {} PROVE \A q \in Queries(toServer') : Blocks(toServer') = {q + 1}
      BY <2>3, <3>1, <3>3
    <3> QED BY <1>1, <2>6, <3>2, <3>3 DEF Owed
  <2>8. Lost'
    BY <1>1, <1>6 DEF Lost
  <2> QED BY <1>5, <2>4, <2>6, <2>7, <2>8 DEF ClickHouseInv
<1> QED BY <1>7, <1>8

\* The query that is fetched has its answer.
LEMMA Answered ==
    ASSUME ClickHouseInv, fetch.on, NEW told \in {"ok", "error", "canceled"}, fetch' \in Fetches, Answer(told),
           UNCHANGED stopped,
           told = "ok" /\ ~fetch'.truncated /\ Current \notin stopped
              => fetch'.rows = Total(asks[Current].result)
    PROVE  /\ asks' \in Seq(Questions) /\ WholeOrSaid'
           /\ \A k \in DOMAIN asks' : asks'[k].result # <<>> => IsReadOnlyStatement(asks'[k].text)
<1>1. asks \in Seq(Questions) /\ WholeOrSaid /\ Current > 0 /\ Current \in Nat /\ Current \in DOMAIN asks
      /\ \A k \in DOMAIN asks : asks[k].result # <<>> => IsReadOnlyStatement(asks[k].text)
  BY DEF ClickHouseInv, ClickHouseTypeOK, Fetching, Current
<1> DEFINE entry == asks[Current]
           new == [text |-> entry.text, result |-> entry.result, rows |-> fetch'.rows,
                   truncated |-> fetch'.truncated, told |-> told]
<1>2. entry \in Questions
  BY <1>1
<1>3. new \in Questions
  BY <1>2 DEF Questions, Fetches
<1>4. asks' = [asks EXCEPT ![Current] = new]
  <2>1. new = [entry EXCEPT !.told = told, !.rows = fetch'.rows, !.truncated = fetch'.truncated]
    <3>1. \A r, t : [text |-> entry.text, result |-> entry.result, rows |-> r, truncated |-> t, told |-> told]
                    = [entry EXCEPT !.told = told, !.rows = r, !.truncated = t]
      BY <1>2, AskTold
    <3> QED BY <3>1, Zenon
  <2>2. [asks EXCEPT ![Current].told = told, ![Current].rows = fetch'.rows,
                     ![Current].truncated = fetch'.truncated]
        = [asks EXCEPT ![Current] = [entry EXCEPT !.told = told, !.rows = fetch'.rows,
                                                !.truncated = fetch'.truncated]]
    BY <1>1
  <2> QED BY <2>1, <2>2 DEF Answer
<1>5. /\ asks' \in Seq(Questions) /\ DOMAIN asks' = DOMAIN asks /\ asks'[Current] = new
      /\ \A k \in DOMAIN asks \ {Current} : asks'[k] = asks[k]
  <2> HIDE DEF new
  <2> QED BY <1>1, <1>3, <1>4
<1>6. /\ new.text = entry.text /\ new.result = entry.result /\ new.rows = fetch'.rows
      /\ new.truncated = fetch'.truncated /\ new.told = told
  OBVIOUS
<1> HIDE DEF new
<1>7. WholeOrSaid'
  <2> SUFFICES ASSUME NEW k \in DOMAIN asks', asks'[k].told = "ok", ~asks'[k].truncated, k \notin stopped
               PROVE  asks'[k].rows = Total(asks'[k].result)
    BY DEF WholeOrSaid
  <2>1. CASE k = Current
    BY <1>5, <1>6, <2>1
  <2>2. CASE k # Current
    BY <1>1, <1>5, <2>2 DEF WholeOrSaid
  <2> QED BY <2>1, <2>2
<1>8. \A k \in DOMAIN asks' : asks'[k].result # <<>> => IsReadOnlyStatement(asks'[k].text)
  BY <1>1, <1>5, <1>6
<1> QED BY <1>5, <1>7, <1>8

LEMMA ReadFailsKeeps == ASSUME ClickHouseInv, ReadFails PROVE ClickHouseInv'
<1>1. NoFetch \in Fetches /\ ~NoFetch.on
  BY ClickHouseAssumption DEF NoFetch, Fetches
<1>2. fetch.on /\ toClient = <<>> /\ broken /\ closed' = TRUE /\ fetch' = NoFetch /\ Answer("error")
      /\ UNCHANGED <<readOnly, broken, toServer, toClient, server, waiting, pressCount, stopped>>
  BY DEF ReadFails
<1>3. /\ asks' \in Seq(Questions) /\ WholeOrSaid'
      /\ \A k \in DOMAIN asks' : asks'[k].result # <<>> => IsReadOnlyStatement(asks'[k].text)
  BY <1>1, <1>2, Answered
<1>4. ClickHouseTypeOK'
  BY <1>1, <1>2, <1>3 DEF ClickHouseInv, ClickHouseTypeOK
<1>5. ~fetch'.on /\ Between' /\ Owed' /\ Lost'
  BY <1>1, <1>2 DEF ClickHouseInv, Between, Owed, Lost
<1> QED BY <1>3, <1>4, <1>5 DEF ClickHouseInv
-----------------------------------------------------------------------------
(* The server's side.                                                      *)

LEMMA ServingAnew ==
    ASSUME NEW s \in Serving
    PROVE  /\ \A p \in Phases : LET t == [s EXCEPT !.phase = p] IN
                 /\ t \in Serving /\ t.k = s.k /\ t.phase = p /\ t.left = s.left
                 /\ t.canceled = s.canceled
           /\ \A left \in Seq(Nat) : LET t == [s EXCEPT !.left = left] IN
                 /\ t \in Serving /\ t.k = s.k /\ t.phase = s.phase /\ t.left = left
                 /\ t.canceled = s.canceled
BY DEF Serving

LEMMA ServerMoves ==
    ASSUME server \in Serving, NEW p \in Phases, server' = [server EXCEPT !.phase = p]
    PROVE  /\ server' \in Serving /\ server'.k = server.k /\ server'.phase = p
           /\ server'.left = server.left /\ server'.canceled = server.canceled
BY ServingAnew

LEMMA ServerSheds ==
    ASSUME server \in Serving, NEW left \in Seq(Nat), server' = [server EXCEPT !.left = left]
    PROVE  /\ server' \in Serving /\ server'.k = server.k /\ server'.phase = server.phase
           /\ server'.left = left /\ server'.canceled = server.canceled
BY ServingAnew

LEMMA ServingStopped ==
    ASSUME NEW s \in Serving, NEW c \in BOOLEAN, NEW p \in Phases
    PROVE  LET t == [s EXCEPT !.canceled = c, !.phase = p] IN
           t \in Serving /\ t.k = s.k /\ t.phase = p /\ t.left = s.left
<1> DEFINE b == [s EXCEPT !.canceled = c]
<1>1. b \in Serving /\ b.k = s.k /\ b.left = s.left
  BY DEF Serving
<1>2. LET t == [b EXCEPT !.phase = p] IN
      t \in Serving /\ t.k = s.k /\ t.phase = p /\ t.left = s.left
  <2> HIDE DEF b
  <2> QED BY <1>1, ServingAnew
<1> QED BY <1>2

LEMMA NoQueryIs == NoQuery \in Serving /\ NoQuery.k = 0 /\ NoQuery.phase = "idle"
BY DEF NoQuery, Serving, Phases

\* A block whose number is known, or none, is off the line.
LEMMA FirstBlock ==
    ASSUME toServer \in Seq(ToServer), toServer # <<>>, toServer' = Tail(toServer)
    PROVE  /\ toServer' \in Seq(ToServer) /\ Head(toServer) = toServer[1] /\ toServer[1] \in ToServer
           /\ Queries(toServer) = {} => Queries(toServer') = {}
           /\ Blocks(toServer) = {} => Blocks(toServer') = {}
           /\ toServer[1] = EmptyBlock => 1 \in Blocks(toServer)
           /\ (\A p, q \in Blocks(toServer) : p = q) /\ toServer[1] = EmptyBlock => Blocks(toServer') = {}
<1>1. /\ Tail(toServer) \in Seq(ToServer) /\ Head(toServer) = toServer[1] /\ toServer[1] \in ToServer
      /\ 1 \in DOMAIN toServer
      /\ Queries(Tail(toServer)) = {q \in Nat \ {0} : q + 1 \in Queries(toServer)}
      /\ Blocks(Tail(toServer)) = {q \in Nat \ {0} : q + 1 \in Blocks(toServer)}
  BY WithoutFirst
<1>2. toServer[1] = EmptyBlock => 1 \in Blocks(toServer)
  BY <1>1 DEF Blocks
<1> QED BY <1>1, <1>2

LEMMA OnTheLine ==
    ASSUME NEW p \in ToServer
    PROVE  /\ p[1] = "query" => p = QueryPacket(p[2]) /\ p[2] \in Nat
           /\ p[1] = "empty" => p = EmptyBlock
           /\ p[1] = "cancel" => p = CancelPacket
BY DEF ToServer, QueryPacket, EmptyBlock, CancelPacket

LEMMA OverStays ==
    ASSUME Over, UNCHANGED <<asks, fetch, toClient, stopped>>, Unclaimed', Queries(toServer') = {}
    PROVE  Over'
<1> DEFINE Final(j) == LET final == toClient[Len(toClient)] IN
             \/ final = End(Current) /\ (Current \notin stopped => j = Len(asks[Current].result))
             \/ \E class \in Classes : /\ final = Says(Current, class)
                                       /\ class = "canceled" => Current \in stopped
<1>1. PICK h, i, j \in Nat : Flow(h, i, j, 1) /\ Final(j)
  BY DEF Over
<1>2. Flow(h, i, j, 1)'
  BY <1>1, FlowKept
<1>3. Final(j)'
  BY <1>1 DEF Current
<1> QED BY <1>2, <1>3 DEF Over

LEMMA TakesQueryKeeps ==
    ASSUME ClickHouseInv, toServer # <<>>, ~broken, Head(toServer)[1] = "query", server.phase = "idle",
           server' = [k |-> Head(toServer)[2], phase |-> "external",
                      left |-> asks[Head(toServer)[2]].result, canceled |-> FALSE],
           TakesOne, UNCHANGED <<toClient, stopped>>,
           UNCHANGED <<readOnly, closed, asks, fetch, waiting, pressCount>>
    PROVE  ClickHouseInv'
<1> DEFINE k == Head(toServer)[2]
<1>1. toServer' = Tail(toServer) /\ ~broken' /\ UNCHANGED broken /\ toServer \in Seq(ToServer) /\ ClickHouseTypeOK /\ WholeOrSaid
      /\ Owed /\ (fetch.on => Fetching) /\ (~fetch.on => Between)
  BY DEF TakesOne, ClickHouseInv, ClickHouseTypeOK
<1>2. /\ Tail(toServer) \in Seq(ToServer) /\ Head(toServer) = toServer[1] /\ toServer[1] \in ToServer
      /\ 1 \in DOMAIN toServer
      /\ \A q \in Nat \ {0} : /\ q \in DOMAIN Tail(toServer) <=> q + 1 \in DOMAIN toServer
                              /\ q \in DOMAIN Tail(toServer) => Tail(toServer)[q] = toServer[q + 1]
      /\ Queries(Tail(toServer)) = {q \in Nat \ {0} : q + 1 \in Queries(toServer)}
      /\ Blocks(Tail(toServer)) = {q \in Nat \ {0} : q + 1 \in Blocks(toServer)}
  BY <1>1, WithoutFirst
<1>3. 1 \in Queries(toServer) /\ toServer[1] = QueryPacket(k) /\ k \in Nat
  BY <1>2, OnTheLine DEF Queries
<1>4. fetch.on /\ Unasked
  BY <1>1, <1>3 DEF Fetching, Between, Working, Over
<1>5. PICK q \in DOMAIN toServer :
          /\ toServer[q] = QueryPacket(Current) /\ Queries(toServer) = {q}
          /\ q + 1 \in DOMAIN toServer /\ toServer[q + 1] = EmptyBlock
  BY <1>1, <1>4 DEF Unasked
<1>6. q = 1 /\ k = Current
  BY <1>3, <1>5, PacketsDiffer
<1>7. Current \in DOMAIN asks /\ Current \in Nat /\ Current # 0 /\ asks \in Seq(Questions) /\ asks[Current] \in Questions
  <2>1. Current > 0 /\ asks \in Seq(Questions)
    BY <1>1, <1>4 DEF Fetching, ClickHouseTypeOK
  <2> QED BY <2>1 DEF Current
<1>8. /\ server' \in Serving /\ server'.k = Current /\ server'.phase = "external" /\ ~server'.canceled
      /\ server'.left = asks[Current].result
  BY <1>3, <1>6, <1>7 DEF Serving, Phases, Questions
<1>9. toClient = <<>> /\ fetch.rows = 0
  BY <1>4 DEF Unasked
<1>10. Queries(toServer') = {} /\ toServer' # <<>> /\ toServer'[1] = EmptyBlock
  <2>1. Queries(toServer') = {}
    BY <1>1, <1>2, <1>5, <1>6
  <2>2. 1 \in Nat \ {0} /\ 1 + 1 \in DOMAIN toServer /\ toServer[1 + 1] = EmptyBlock
    BY <1>5, <1>6
  <2>3. 1 \in DOMAIN Tail(toServer) /\ Tail(toServer)[1] = EmptyBlock
    BY <1>2, <2>2
  <2>4. Tail(toServer) # <<>>
    <3>1. \A line \in Seq(ToServer) : 1 \in DOMAIN line => line # <<>>
      OBVIOUS
    <3> QED BY <1>2, <2>3, <3>1, Zenon
  <2> QED BY <1>1, <2>1, <2>3, <2>4
<1>11. ClickHouseTypeOK'
  BY <1>1, <1>2, <1>8 DEF ClickHouseTypeOK
<1>12. Flow(0, 0, 0, 0)'
  <2>1. asks[Current].result \in Seq(Nat)
    BY <1>7 DEF Questions
  <2>2. Sums(asks[Current].result)[0] = 0 /\ Len(asks[Current].result) \in Nat
    BY <2>1, SumsAre DEF SumsTo
  <2> QED BY <1>9, <2>2 DEF Flow, Current
<1>13. Remains(0)'
  BY <1>7, <1>8 DEF Remains, Questions, Current
<1>14. Working'
  BY <1>8, <1>9, <1>10, <1>12, <1>13 DEF Working, Current, Phases
<1>15. fetch'.on /\ Fetching'
  BY <1>1, <1>4, <1>14 DEF Fetching, Current
<1>16. Owed'
  <2>1. ASSUME stopped = {} PROVE Blocks(toServer') = {1}
    <3>1. Blocks(toServer) = {2}
      <4>1. server.k = 0
        BY <1>1, <1>4 DEF Unasked, Unclaimed
      <4> QED BY <1>1, <1>4, <1>5, <1>6, <1>9, <2>1, <4>1 DEF Owed
    <3> QED BY <1>1, <1>2, <3>1
  <2> QED BY <1>7, <1>8, <1>15, <2>1 DEF Owed
<1>17. Lost' /\ WholeOrSaid'
  BY <1>1, <1>8, WholeKept DEF Lost
<1> QED BY <1>11, <1>15, <1>16, <1>17 DEF ClickHouseInv

\* The empty block that ends the external data.
LEMMA TakesEmptyKeeps ==
    ASSUME ClickHouseInv, toServer # <<>>, ~broken, Head(toServer)[1] = "empty", server.phase = "external",
           toClient' = toClient \o (IF NeedsRows(asks[server.k].text) \/ IsReadOnlyStatement(asks[server.k].text)
                                      THEN <<Data(server.k, 0)>> ELSE <<>>),
           server' = [server EXCEPT !.phase = IF NeedsRows(asks[server.k].text) THEN "rows" ELSE "run"],
           TakesOne, UNCHANGED stopped,
           UNCHANGED <<readOnly, closed, asks, fetch, waiting, pressCount>>
    PROVE  ClickHouseInv'
<1> DEFINE text == asks[Current].text
           needs == NeedsRows(text)
           next == IF needs THEN "rows" ELSE "run"
           header == needs \/ IsReadOnlyStatement(text)
<1>1. toServer' = Tail(toServer) /\ ~broken' /\ UNCHANGED broken /\ ClickHouseTypeOK /\ WholeOrSaid /\ Owed
      /\ (fetch.on => Fetching) /\ (~fetch.on => Between) /\ toServer \in Seq(ToServer) /\ server \in Serving
  BY DEF TakesOne, ClickHouseInv, ClickHouseTypeOK
<1>2. fetch.on /\ Working
  BY <1>1, NoQueryIs DEF Fetching, Between, Unasked, Over, Unclaimed
<1>3. /\ server.k = Current /\ Queries(toServer) = {} /\ toClient = <<>> /\ fetch.rows = 0 /\ ~server.canceled
      /\ server.left = asks[Current].result /\ toServer[1] = EmptyBlock
  BY <1>2 DEF Working
<1>4. /\ toServer' \in Seq(ToServer) /\ Queries(toServer') = {}
      /\ (\A p, q \in Blocks(toServer) : p = q) => Blocks(toServer') = {}
  BY <1>1, <1>3, FirstBlock
<1>5. Current \in DOMAIN asks /\ Current \in Nat /\ Current # 0 /\ asks \in Seq(Questions) /\ asks[Current] \in Questions
  <2>1. Current > 0 /\ asks \in Seq(Questions)
    BY <1>1, <1>2 DEF Fetching, ClickHouseTypeOK
  <2> QED BY <2>1 DEF Current
<1>6. /\ server' \in Serving /\ server'.k = Current /\ server'.phase = next /\ ~server'.canceled
      /\ server'.left = asks[Current].result /\ next \in Phases
  <2>1. \E p \in Phases : p = next /\ server' = [server EXCEPT !.phase = p]
    BY <1>3 DEF Phases
  <2>2. PICK p \in Phases : p = next /\ server' = [server EXCEPT !.phase = p]
    BY <2>1
  <2> HIDE DEF next
  <2>3. /\ server' \in Serving /\ server'.k = server.k /\ server'.phase = p
        /\ server'.left = server.left /\ server'.canceled = server.canceled
    <3>1. server \in Serving
      BY <1>1
    <3> QED BY <2>2, <3>1, ServerMoves, Zenon
  <2> QED BY <1>3, <2>2, <2>3, Zenon
<1>7. header => toClient' = <<Data(Current, 0)>> /\ Data(Current, 0) \in ToClient
  BY <1>3, <1>5 DEF ToClient
<1>8. ~header => toClient' = <<>>
  BY <1>3
<1>9. toClient' \in Seq(ToClient)
  <2>1. CASE header
    <3>1. \A d \in ToClient : <<d>> \in Seq(ToClient)
      OBVIOUS
    <3> QED BY <1>7, <2>1, <3>1, Zenon
  <2>2. CASE ~header
    BY <1>8, <2>2, NothingOnTheWire
  <2> QED BY <2>1, <2>2
<1>10. ClickHouseTypeOK'
  BY <1>1, <1>4, <1>6, <1>9 DEF ClickHouseTypeOK
<1>11. asks[Current].result \in Seq(Nat) /\ Len(asks[Current].result) \in Nat /\ Sums(asks[Current].result)[0] = 0
  <2>1. asks[Current].result \in Seq(Nat)
    BY <1>5 DEF Questions
  <2> QED BY <2>1, SumsAre DEF SumsTo
<1>12. Remains(0)'
  BY <1>5, <1>6, <1>11 DEF Remains, Current
<1>13. \E h \in Nat : Flow(h, 0, 0, 0)'
  <2>1. CASE header
    <3>1. Flow(1, 0, 0, 0)'
      BY <1>3, <1>7, <1>11, <2>1 DEF Flow, Current
    <3> QED BY <3>1
  <2>2. CASE ~header
    <3>1. Flow(0, 0, 0, 0)'
      BY <1>3, <1>8, <1>11, <2>2 DEF Flow, Current
    <3> QED BY <3>1
  <2> QED BY <2>1, <2>2
<1>14. Working'
  <2>1. Current' = Current /\ next # "external" /\ next # "idle"
    BY DEF Current
  <2>2. /\ server'.k = Current' /\ server'.phase \in Phases \ {"idle"} /\ ~server'.canceled
        /\ server'.phase # "external"
    <3> HIDE DEF next
    <3> QED BY <1>6, <2>1
  <2> QED BY <1>4, <1>12, <1>13, <2>2 DEF Working
<1>15. fetch'.on /\ Fetching'
  BY <1>1, <1>2, <1>14 DEF Fetching, Current
<1>16. Owed'
  <2>1. ASSUME stopped = {} PROVE Blocks(toServer') = {}
    <3>1. Blocks(toServer) = {1}
      BY <1>1, <1>2, <2>1 DEF Owed
    <3>2. \A p, q \in Blocks(toServer) : p = q
      BY <3>1
    <3> QED BY <1>4, <3>2
  <2>2. CASE needs
    <3>1. Len(toClient') = 1
      BY <1>7, <2>2
    <3> QED BY <1>1, <1>5, <1>6, <1>15, <2>1, <2>2, <3>1 DEF Owed
  <2>3. CASE ~needs
    <3>1. ASSUME NEW m \in DOMAIN toClient' PROVE ~fetch.wants
      <4>1. Leading(text) \in {"select", "show"}
        BY <1>8, <2>3, <3>1 DEF IsReadOnlyStatement
      <4>2. ~ExpectsClientData(text)
        BY <4>1 DEF ExpectsClientData, WaitsForRows
      <4> QED BY <1>1, <1>2, <4>2 DEF Fetching
    <3> QED BY <1>1, <1>5, <1>6, <1>15, <2>1, <2>3, <3>1 DEF Owed
  <2> QED BY <2>2, <2>3
<1>17. Lost' /\ WholeOrSaid'
  BY <1>1, <1>6, WholeKept DEF Lost
<1> QED BY <1>10, <1>15, <1>16, <1>17 DEF ClickHouseInv

\* The block that ends the rows of an insert.
LEMMA TakesRowsKeeps ==
    ASSUME ClickHouseInv, toServer # <<>>, ~broken, Head(toServer)[1] = "empty", server.phase = "rows",
           server' = [server EXCEPT !.phase = "run"],
           TakesOne, UNCHANGED <<toClient, stopped>>,
           UNCHANGED <<readOnly, closed, asks, fetch, waiting, pressCount>>
    PROVE  ClickHouseInv'
<1>1. toServer' = Tail(toServer) /\ ~broken' /\ UNCHANGED broken /\ ClickHouseTypeOK /\ WholeOrSaid /\ Owed
      /\ (fetch.on => Fetching) /\ (~fetch.on => Between) /\ toServer \in Seq(ToServer) /\ server \in Serving
  BY DEF TakesOne, ClickHouseInv, ClickHouseTypeOK
<1>2. fetch.on /\ Working
  BY <1>1, NoQueryIs DEF Fetching, Between, Unasked, Over, Unclaimed
<1>3. toServer[1] = EmptyBlock /\ 1 \in Blocks(toServer)
  BY <1>1, FirstBlock, OnTheLine
<1>4. /\ toServer' \in Seq(ToServer) /\ Queries(toServer') = {}
      /\ (\A p, q \in Blocks(toServer) : p = q) => Blocks(toServer') = {}
  BY <1>1, <1>2, <1>3, FirstBlock DEF Working
<1>5. /\ server' \in Serving /\ server'.k = server.k /\ server'.phase = "run"
      /\ server'.left = server.left /\ server'.canceled = server.canceled
  <2>1. "run" \in Phases
    BY DEF Phases
  <2> QED BY <1>1, <2>1, ServingAnew
<1>6. ClickHouseTypeOK'
  BY <1>1, <1>4, <1>5 DEF ClickHouseTypeOK
<1>7. PICK h, i, j \in Nat : Flow(h, i, j, 0) /\ Remains(j)
  BY <1>2 DEF Working
<1>8. Flow(h, i, j, 0)' /\ Remains(j)'
  BY <1>5, <1>7, FlowKept DEF Remains, Current
<1>9. Working'
  <2>1. Current' = Current /\ stopped' = stopped
    BY DEF Current
  <2>2. /\ server'.k = Current' /\ server'.phase \in Phases \ {"idle"} /\ server'.phase # "external"
        /\ server'.canceled => Current' \in stopped'
    BY <1>2, <1>5, <2>1 DEF Working, Phases
  <2> QED BY <1>4, <1>8, <2>2 DEF Working
<1>10. fetch'.on /\ Fetching'
  BY <1>1, <1>2, <1>9 DEF Fetching, Current
<1>11. Owed'
  <2>1. ASSUME stopped = {} PROVE toClient = <<>> /\ Blocks(toServer') = {}
    <3>1. toClient = <<>> /\ \A p, q \in Blocks(toServer) : p = q
      BY <1>1, <1>2, <1>3, <2>1 DEF Owed
    <3> QED BY <1>4, <3>1
  <2>2. Current > 0 /\ server.k = Current
    BY <1>1, <1>2 DEF Fetching, Working
  <2> QED BY <1>1, <1>5, <1>10, <2>1, <2>2 DEF Owed
<1>12. Lost' /\ WholeOrSaid'
  BY <1>1, <1>5, WholeKept DEF Lost
<1> QED BY <1>6, <1>10, <1>11, <1>12 DEF ClickHouseInv

\* A block the server does not wait for: it hangs up.
LEMMA TakesStrayKeeps ==
    ASSUME ClickHouseInv, toServer # <<>>, ~broken, Head(toServer)[1] = "empty", server.phase \in {"idle", "run"},
           server' = [server EXCEPT !.phase = "lost"], broken' = TRUE, toServer' = <<>>,
           UNCHANGED <<toClient, stopped>>,
           UNCHANGED <<readOnly, closed, asks, fetch, waiting, pressCount>>
    PROVE  ClickHouseInv'
<1>1. /\ ClickHouseTypeOK /\ WholeOrSaid /\ Owed /\ (fetch.on => Fetching) /\ (~fetch.on => Between)
      /\ toServer \in Seq(ToServer) /\ server \in Serving
  BY DEF ClickHouseInv, ClickHouseTypeOK
<1>2. 1 \in Blocks(toServer)
  BY <1>1, FirstBlock, OnTheLine, WithoutFirst DEF Blocks
<1>3. /\ server' \in Serving /\ server'.k = server.k /\ server'.phase = "lost"
      /\ server'.left = server.left /\ server'.canceled = server.canceled
  <2>1. "lost" \in Phases
    BY DEF Phases
  <2> QED BY <1>1, <2>1, ServingAnew
<1>4. ClickHouseTypeOK'
  BY <1>1, <1>3, NothingOnTheWire DEF ClickHouseTypeOK
<1>5. Unclaimed => Unclaimed'
  BY <1>3 DEF Unclaimed
<1>6. fetch.on => Fetching'
  <2>1. Unasked => Unasked'
    BY <1>5 DEF Unasked
  <2>2. Over => Over'
    <3>1. Over => Unclaimed
      BY DEF Over
    <3> QED BY <1>5, <3>1, OverStays, NothingOnTheWire
  <2>3. ASSUME Working PROVE Working'
    <3>1. PICK h, i, j \in Nat : Flow(h, i, j, 0) /\ Remains(j)
      BY <2>3 DEF Working
    <3>2. Flow(h, i, j, 0)' /\ Remains(j)'
      BY <1>3, <3>1, FlowKept DEF Remains, Current
    <3>3. Current' = Current /\ stopped' = stopped
      BY DEF Current
    <3>4. /\ server'.k = Current' /\ server'.phase \in Phases \ {"idle"} /\ server'.phase # "external"
          /\ server'.canceled => Current' \in stopped'
      BY <1>3, <2>3, <3>3 DEF Working, Phases
    <3> QED BY <3>2, <3>4, NothingOnTheWire DEF Working
  <2> QED BY <1>1, <2>1, <2>2, <2>3 DEF Fetching, Current
<1>7. ~fetch.on => Between'
  BY <1>1 DEF Between
<1>8. stopped # {}
  <2> SUFFICES ASSUME stopped = {} PROVE FALSE
    OBVIOUS
  <2>1. fetch.on
    BY <1>1, <1>2 DEF Owed
  <2>2. ~Working
    <3>1. ASSUME Working PROVE server.phase = "run"
      BY <3>1 DEF Working
    <3> QED BY <1>1, <1>2, <2>1, <3>1 DEF Owed
  <2>3. ~Over
    <3> SUFFICES ASSUME Over PROVE FALSE
      OBVIOUS
    <3>1. server.k = 0 /\ toClient # <<>>
      <4>1. PICK h, i, j \in Nat : Flow(h, i, j, 1)
        BY DEF Over
      <4>2. Len(toClient) = h + (j - i) + 1 /\ i <= j
        BY <4>1 DEF Flow
      <4> QED BY <4>2 DEF Over, Unclaimed
    <3> QED BY <1>1, <1>2, <2>1, <3>1 DEF Owed
  <2>4. Unasked
    BY <1>1, <2>1, <2>2, <2>3 DEF Fetching
  <2>5. PICK q \in DOMAIN toServer :
            /\ toServer[q] = QueryPacket(Current) /\ Queries(toServer) = {q}
            /\ q + 1 \in DOMAIN toServer /\ toServer[q + 1] = EmptyBlock
    BY <1>1, <2>4 DEF Unasked
  <2>6. Blocks(toServer) = {q + 1}
    BY <1>1, <2>1, <2>4, <2>5 DEF Owed, Unasked, Unclaimed
  <2>7. q \in Nat /\ q # 0
    BY <1>1, <2>5
  <2> QED BY <1>2, <2>5, <2>6, <2>7
<1>9. Owed' /\ Lost' /\ WholeOrSaid'
  BY <1>1, <1>8, WholeKept DEF Owed, Lost
<1> QED BY <1>1, <1>4, <1>6, <1>7, <1>9 DEF ClickHouseInv

\* A cancel, at the query it is for, at a later one, or at none.
LEMMA TakesCancelKeeps ==
    ASSUME ClickHouseInv, toServer # <<>>, ~broken, Head(toServer)[1] = "cancel",
           IF server.k = 0
             THEN UNCHANGED <<server, stopped>>
             ELSE /\ stopped' = stopped \union {server.k}
                  /\ server' = [server EXCEPT !.canceled = TRUE, !.phase = "run"],
           TakesOne, UNCHANGED toClient,
           UNCHANGED <<readOnly, closed, asks, fetch, waiting, pressCount>>
    PROVE  ClickHouseInv'
<1>1. /\ toServer' = Tail(toServer) /\ ~broken' /\ UNCHANGED broken /\ ClickHouseTypeOK /\ WholeOrSaid /\ Owed
      /\ (fetch.on => Fetching) /\ (~fetch.on => Between) /\ toServer \in Seq(ToServer) /\ server \in Serving
  BY DEF TakesOne, ClickHouseInv, ClickHouseTypeOK
<1>2. /\ Tail(toServer) \in Seq(ToServer) /\ Head(toServer) = toServer[1] /\ toServer[1] \in ToServer
      /\ 1 \in DOMAIN toServer
      /\ \A q \in Nat \ {0} : /\ q \in DOMAIN Tail(toServer) <=> q + 1 \in DOMAIN toServer
                              /\ q \in DOMAIN Tail(toServer) => Tail(toServer)[q] = toServer[q + 1]
      /\ Queries(Tail(toServer)) = {q \in Nat \ {0} : q + 1 \in Queries(toServer)}
      /\ Blocks(Tail(toServer)) = {q \in Nat \ {0} : q + 1 \in Blocks(toServer)}
  BY <1>1, WithoutFirst
<1>3. toServer[1] = CancelPacket
  BY <1>2, OnTheLine
<1>4. /\ Queries(toServer) = {} => Queries(toServer') = {}
      /\ Blocks(toServer) = {} => Blocks(toServer') = {}
  BY <1>1, FirstBlock
<1>5. CASE server.k = 0
  <2>1. UNCHANGED <<server, stopped>>
    BY <1>5
  <2>2. ClickHouseTypeOK'
    BY <1>1, <1>2, <2>1 DEF ClickHouseTypeOK
  <2>3. ASSUME Unasked
        PROVE  Unasked' /\ (stopped = {} /\ fetch.on => \A q \in Queries(toServer') : Blocks(toServer') = {q + 1})
    <3>1. PICK q \in DOMAIN toServer :
              /\ toServer[q] = QueryPacket(Current) /\ Queries(toServer) = {q}
              /\ q + 1 \in DOMAIN toServer /\ toServer[q + 1] = EmptyBlock
      BY <1>1, <2>3 DEF Unasked
    <3>2. q # 1 /\ q \in Nat \ {0, 1}
      BY <1>1, <1>3, <3>1, PacketsDiffer
    <3> DEFINE p == q - 1
    <3>3. p \in Nat \ {0} /\ p + 1 = q
      BY <3>2
    <3>4. p \in DOMAIN toServer' /\ toServer'[p] = QueryPacket(Current)
      BY <1>1, <1>2, <3>1, <3>3
    <3>5. q \in DOMAIN toServer' /\ toServer'[q] = EmptyBlock
      BY <1>1, <1>2, <3>1, <3>2
    <3>6. Queries(toServer') = {p}
      BY <1>1, <1>2, <3>1, <3>3
    <3>7. Unclaimed' /\ toClient' = <<>> /\ fetch'.rows = 0 /\ Current' = Current
      BY <1>1, <2>1, <2>3 DEF Unasked, Unclaimed, Current
    <3> HIDE DEF p
    <3>8. Unasked'
      BY <3>3, <3>4, <3>5, <3>6, <3>7 DEF Unasked
    <3>9. ASSUME stopped = {}, fetch.on PROVE Blocks(toServer') = {p + 1}
      <4>1. Blocks(toServer) = {q + 1}
        BY <1>1, <1>5, <2>3, <3>1, <3>9 DEF Owed, Unasked
      <4> QED BY <1>1, <1>2, <3>2, <3>3, <4>1
    <3> QED BY <3>6, <3>8, <3>9
  <2>4. ASSUME Over PROVE Over'
    <3>1. Queries(toServer') = {}
      BY <1>4, <2>4 DEF Over
    <3> QED BY <2>1, <2>4, <3>1, <1>1, OverKept
  <2>5. fetch.on => Fetching'
    <3>1. Working => Current = 0
      BY <1>5 DEF Working
    <3> QED BY <1>1, <2>3, <2>4, <3>1 DEF Fetching, Current
  <2>6. ~fetch.on => Between'
    BY <1>1, <1>4, <2>1 DEF Between
  <2>7. Owed'
    <3>1. ASSUME ~fetch.on PROVE Owed'
      BY <1>1, <1>4, <2>1, <3>1 DEF Owed
    <3>2. ASSUME fetch.on PROVE Owed'
      <4>1. server.phase \in {"idle", "lost"}
        BY <1>1, <1>5, <3>2 DEF Fetching, Unasked, Over, Unclaimed, Working
      <4>2. CASE toClient = <<>>
        <5>1. Unasked
          <6>1. ~Working
            BY <1>1, <1>5, <3>2 DEF Working, Fetching
          <6>2. ASSUME Over PROVE FALSE
            <7>1. PICK h, i, j \in Nat : Flow(h, i, j, 1)
              BY <6>2 DEF Over
            <7>2. Len(toClient) = h + (j - i) + 1 /\ i <= j
              BY <7>1 DEF Flow
            <7> QED BY <4>2, <7>2
          <6> QED BY <1>1, <3>2, <6>1, <6>2 DEF Fetching
        <5> QED BY <1>1, <2>1, <2>3, <3>2, <4>1, <4>2, <5>1 DEF Owed
      <4>3. CASE toClient # <<>>
        BY <1>1, <1>4, <1>5, <2>1, <3>2, <4>1, <4>3 DEF Owed
      <4> QED BY <4>2, <4>3
    <3> QED BY <3>1, <3>2
  <2>8. Lost' /\ WholeOrSaid'
    BY <1>1, <2>1, WholeKept DEF Lost, ClickHouseInv
  <2> QED BY <2>2, <2>5, <2>6, <2>7, <2>8 DEF ClickHouseInv
<1>6. CASE server.k # 0
  <2>1. stopped' = stopped \cup {server.k} /\ server' = [server EXCEPT !.canceled = TRUE, !.phase = "run"]
    BY <1>6
  <2>2. server' \in Serving /\ server'.k = server.k /\ server'.phase = "run" /\ server'.left = server.left
    <3>1. TRUE \in BOOLEAN /\ "run" \in Phases
      BY DEF Phases
    <3> QED BY <1>1, <2>1, <3>1, ServingStopped, Zenon
  <2>3. fetch.on /\ Working
    BY <1>1, <1>6, NoQueryIs DEF Fetching, Between, Unasked, Over, Unclaimed
  <2>4. ClickHouseTypeOK'
    BY <1>1, <1>2, <2>2 DEF ClickHouseTypeOK
  <2>5. PICK h, i, j \in Nat : Flow(h, i, j, 0) /\ Remains(j)
    BY <2>3 DEF Working
  <2>6. Flow(h, i, j, 0)' /\ Remains(j)'
    BY <2>2, <2>5, FlowKept DEF Remains, Current
  <2>7. /\ server'.k = Current' /\ server'.phase \in Phases \ {"idle"} /\ server'.phase # "external"
        /\ Current' \in stopped' /\ Queries(toServer') = {}
    BY <1>4, <2>1, <2>2, <2>3 DEF Working, Phases, Current
  <2>8. Working'
    BY <2>6, <2>7 DEF Working
  <2>9. fetch'.on /\ Fetching'
    BY <1>1, <2>3, <2>8 DEF Fetching, Current
  <2>10. Owed' /\ Lost' /\ WholeOrSaid'
    <3>1. stopped \subseteq stopped' /\ stopped' # {}
      BY <2>1
    <3> QED BY <1>1, <2>2, <3>1, WholeKept DEF Owed, Lost
  <2> QED BY <2>4, <2>9, <2>10 DEF ClickHouseInv
<1> QED BY <1>5, <1>6

LEMMA ServerTakesKeeps == ASSUME ClickHouseInv, ServerTakes PROVE ClickHouseInv'
<1>1. /\ toServer # <<>> /\ ~broken
      /\ UNCHANGED <<readOnly, closed, asks, fetch, waiting, pressCount>>
  BY DEF ServerTakes
<1>2. CASE /\ Head(toServer)[1] = "query" /\ server.phase = "idle"
           /\ server' = [k |-> Head(toServer)[2], phase |-> "external",
                         left |-> asks[Head(toServer)[2]].result, canceled |-> FALSE]
           /\ TakesOne /\ UNCHANGED <<toClient, stopped>>
  BY <1>1, <1>2, TakesQueryKeeps
<1>3. CASE /\ Head(toServer)[1] = "empty" /\ server.phase = "external"
           /\ toClient' = toClient \o (IF NeedsRows(asks[server.k].text) \/ IsReadOnlyStatement(asks[server.k].text)
                                         THEN <<Data(server.k, 0)>> ELSE <<>>)
           /\ server' = [server EXCEPT !.phase = IF NeedsRows(asks[server.k].text) THEN "rows" ELSE "run"]
           /\ TakesOne /\ UNCHANGED stopped
  BY <1>1, <1>3, TakesEmptyKeeps
<1>4. CASE /\ Head(toServer)[1] = "empty" /\ server.phase = "rows"
           /\ server' = [server EXCEPT !.phase = "run"]
           /\ TakesOne /\ UNCHANGED <<toClient, stopped>>
  BY <1>1, <1>4, TakesRowsKeeps
<1>5. CASE /\ Head(toServer)[1] = "empty" /\ server.phase \in {"idle", "run"}
           /\ server' = [server EXCEPT !.phase = "lost"]
           /\ broken' = TRUE /\ toServer' = <<>>
           /\ UNCHANGED <<toClient, stopped>>
  BY <1>1, <1>5, TakesStrayKeeps
<1>6. CASE /\ Head(toServer)[1] = "cancel"
           /\ IF server.k = 0
                THEN UNCHANGED <<server, stopped>>
                ELSE /\ stopped' = stopped \union {server.k}
                     /\ server' = [server EXCEPT !.canceled = TRUE, !.phase = "run"]
           /\ TakesOne /\ UNCHANGED toClient
  BY <1>1, <1>6, TakesCancelKeeps
<1> QED BY <1>2, <1>3, <1>4, <1>5, <1>6, Zenon DEF ServerTakes

\* What is sent comes last.
LEMMA OneMore ==
    ASSUME NEW line \in Seq(ToClient), NEW p \in ToClient
    PROVE  /\ Append(line, p) \in Seq(ToClient) /\ Append(line, p) # <<>>
           /\ Len(Append(line, p)) = Len(line) + 1 /\ Len(line) \in Nat
           /\ \A m \in 1..Len(line) : Append(line, p)[m] = line[m]
           /\ Append(line, p)[Len(line) + 1] = p
           /\ \A m \in DOMAIN Append(line, p) : m \in DOMAIN line \/ m = Len(line) + 1
           /\ DOMAIN line = 1..Len(line)
OBVIOUS

LEMMA SendsBlockKeeps ==
    ASSUME ClickHouseInv, server.phase = "run", ~broken, ~server.canceled, server.left # <<>>,
           toClient' = Append(toClient, Data(server.k, Head(server.left))),
           server' = [server EXCEPT !.left = Tail(@)],
           UNCHANGED <<readOnly, closed, broken, asks, fetch, toServer, waiting, pressCount, stopped>>
    PROVE  ClickHouseInv'
<1>1. /\ ClickHouseTypeOK /\ WholeOrSaid /\ Owed /\ (fetch.on => Fetching) /\ (~fetch.on => Between)
      /\ toClient \in Seq(ToClient) /\ server \in Serving
  BY DEF ClickHouseInv, ClickHouseTypeOK
<1>2. fetch.on /\ Working
  BY <1>1, NoQueryIs DEF Fetching, Between, Unasked, Over, Unclaimed
<1>3. Current \in DOMAIN asks /\ Current \in Nat /\ Current # 0 /\ asks \in Seq(Questions) /\ asks[Current] \in Questions
  <2>1. Current > 0 /\ asks \in Seq(Questions)
    BY <1>1, <1>2 DEF Fetching, ClickHouseTypeOK
  <2> QED BY <2>1 DEF Current
<1> DEFINE result == asks[Current].result
<1>4. PICK h, i, j \in Nat : Flow(h, i, j, 0) /\ Remains(j)
  BY <1>2 DEF Working
<1>5. /\ result \in Seq(Nat) /\ Len(result) \in Nat /\ server.left \in Seq(Nat) /\ Len(server.left) \in Nat \ {0}
      /\ Tail(server.left) \in Seq(Nat) /\ Len(Tail(server.left)) = Len(server.left) - 1
      /\ \A m \in 1..(Len(server.left) - 1) : Tail(server.left)[m] = server.left[m + 1]
      /\ Head(server.left) = server.left[1] /\ server.left[1] \in Nat
  <2>1. server.left \in Seq(Nat) /\ result \in Seq(Nat)
    BY <1>1, <1>3 DEF Serving, Questions
  <2>2. \A t \in Seq(Nat) : /\ Len(t) \in Nat
                            /\ t # <<>> => /\ Len(t) \in Nat \ {0} /\ Tail(t) \in Seq(Nat)
                                           /\ Len(Tail(t)) = Len(t) - 1
                                           /\ \A m \in 1..(Len(t) - 1) : Tail(t)[m] = t[m + 1]
                                           /\ Head(t) = t[1] /\ t[1] \in Nat
    OBVIOUS
  <2> HIDE DEF result
  <2> QED BY <2>1, <2>2, Zenon
<1>6. /\ server.k = Current /\ server' \in Serving /\ server'.k = Current /\ server'.phase = "run"
      /\ server'.left = Tail(server.left) /\ server'.canceled = server.canceled
  <2>1. server' = [server EXCEPT !.left = Tail(server.left)]
    OBVIOUS
  <2>2. server.k = Current
    BY <1>2 DEF Working
  <2>3. /\ server' \in Serving /\ server'.k = server.k /\ server'.phase = server.phase
        /\ server'.left = Tail(server.left) /\ server'.canceled = server.canceled
    BY <1>1, <1>5, <2>1, ServerSheds, Zenon
  <2> QED BY <2>2, <2>3, Zenon
<1>7. j + 1 \in 0..Len(result) /\ server.left[1] = result[j + 1]
  <2>1. j \in 0..Len(result) /\ Len(server.left) = Len(result) - j
    BY <1>4 DEF Remains, Flow
  <2>2. \A m \in 1..Len(server.left) : server.left[m] = result[j + m]
    BY <1>4 DEF Remains
  <2>3. j + 1 \in 0..Len(result) /\ 1 \in 1..Len(server.left)
    <3>1. Len(result) \in Nat /\ Len(server.left) \in Nat /\ Len(server.left) # 0
      BY <1>5
    <3> HIDE DEF result
    <3> QED BY <2>1, <3>1
  <2> QED BY <2>2, <2>3
<1> DEFINE d == Data(Current, result[j + 1])
<1>8. d \in ToClient /\ toClient' = Append(toClient, d)
  <2>1. d \in ToClient
    BY <1>3, <1>5, <1>7 DEF ToClient
  <2> QED BY <1>5, <1>6, <1>7, <2>1
<1> HIDE DEF d
<1>9. /\ toClient' \in Seq(ToClient) /\ toClient' # <<>> /\ Len(toClient') = Len(toClient) + 1
      /\ Len(toClient) \in Nat /\ \A m \in 1..Len(toClient) : toClient'[m] = toClient[m]
      /\ toClient'[Len(toClient) + 1] = d
  BY <1>1, <1>8, OneMore
<1>10. ClickHouseTypeOK'
  BY <1>1, <1>6, <1>9 DEF ClickHouseTypeOK
<1>11. Current' = Current /\ asks' = asks /\ fetch' = fetch /\ stopped' = stopped
  BY DEF Current
<1>12. Flow(h, i, j + 1, 0)'
  <2> DEFINE sent == h + (j - i)
  <2>1. /\ h \in 0..1 /\ i \in 0..j /\ (h = 1 => i = 0) /\ Len(toClient) = sent /\ sent \in Nat
        /\ ~fetch.truncated => fetch.rows = Sums(result)[i]
    BY <1>4 DEF Flow
  <2>2. ASSUME NEW m \in 1..(h + ((j + 1) - i))
        PROVE  toClient'[m] = Data(Current, IF m <= h THEN 0 ELSE result[i + m - h])
    <3>1. CASE m \in 1..sent
      BY <1>4, <1>9, <2>1, <3>1 DEF Flow
    <3>2. CASE m = sent + 1
      <4>1. m > h /\ i + m - h = j + 1 /\ ~(m <= h)
        BY <2>1, <3>2
      <4> QED BY <1>9, <2>1, <3>2, <4>1 DEF d
    <3> QED BY <1>4, <2>1, <3>1, <3>2
  <2>3. Len(toClient') = h + ((j + 1) - i) + 0 /\ i \in 0..(j + 1)
    BY <1>4, <1>9, <2>1
  <2> QED BY <1>7, <1>11, <2>1, <2>2, <2>3 DEF Flow
<1>13. Remains(j + 1)'
  <2>1. Len(server'.left) = Len(result) - (j + 1)
    <3>1. Len(server'.left) = Len(server.left) - 1 /\ Len(server.left) = Len(result) - j
      BY <1>4, <1>5, <1>6 DEF Remains
    <3>2. j \in Nat /\ Len(result) \in Nat
      BY <1>5
    <3> HIDE DEF result
    <3> QED BY <3>1, <3>2
  <2>2. ASSUME NEW m \in 1..Len(server'.left) PROVE server'.left[m] = result[(j + 1) + m]
    <3>1. m + 1 \in 1..Len(server.left) /\ server'.left[m] = server.left[m + 1] /\ j + (m + 1) = (j + 1) + m
      <4>1. m \in 1..(Len(server.left) - 1)
        BY <1>5, <1>6
      <4>2. Tail(server.left)[m] = server.left[m + 1]
        BY <1>5, <4>1
      <4>3. m + 1 \in 1..Len(server.left) /\ j + (m + 1) = (j + 1) + m
        <5>1. j \in Nat /\ m \in Nat
          BY <4>1
        <5>2. Len(server.left) \in Nat
          BY <1>5
        <5> QED BY <4>1, <5>1, <5>2
      <4> QED BY <1>6, <4>2, <4>3
    <3> QED BY <1>4, <3>1 DEF Remains
  <2> QED BY <1>11, <2>1, <2>2 DEF Remains
<1>14. Working'
  <2>1. /\ server'.k = Current' /\ server'.phase \in Phases \ {"idle"} /\ server'.phase # "external"
        /\ server'.canceled => Current' \in stopped'
        /\ Queries(toServer') = {}
    BY <1>2, <1>6, <1>11 DEF Working, Phases
  <2>2. j + 1 \in Nat
    BY <1>4
  <2> QED BY <1>12, <1>13, <2>1, <2>2 DEF Working
<1>15. fetch'.on /\ Fetching'
  BY <1>1, <1>2, <1>11, <1>14 DEF Fetching
<1>16. ~fetch.wants
  <2>1. result # <<>>
    BY <1>5, <1>7
  <2>2. Leading(asks[Current].text) \in {"select", "show"}
    BY <1>1, <1>3, <2>1 DEF ClickHouseTypeOK, IsReadOnlyStatement
  <2>3. ~ExpectsClientData(asks[Current].text)
    BY <2>2 DEF ExpectsClientData, WaitsForRows
  <2> QED BY <1>1, <1>2, <2>3 DEF Fetching
<1>17. Owed'
  BY <1>1, <1>2, <1>3, <1>6, <1>11, <1>15, <1>16 DEF Owed
<1>18. Lost' /\ WholeOrSaid'
  BY <1>1, <1>6, WholeKept DEF Lost
<1> QED BY <1>10, <1>15, <1>17, <1>18 DEF ClickHouseInv

\* The last packet of a query, whichever it is.
LEMMA SendsFinalKeeps ==
    ASSUME ClickHouseInv, server.phase = "run", ~broken, NEW final \in Finals,
           toClient' = Append(toClient, final), server' = NoQuery,
           \/ final = End(server.k) /\ (server.canceled \/ server.left = <<>>)
           \/ \E class \in Classes : /\ final = Says(server.k, class)
                                     /\ class = "canceled" => server.canceled,
           UNCHANGED <<readOnly, closed, broken, asks, fetch, toServer, waiting, pressCount, stopped>>
    PROVE  ClickHouseInv'
<1>1. /\ ClickHouseTypeOK /\ WholeOrSaid /\ Owed /\ (fetch.on => Fetching) /\ (~fetch.on => Between)
      /\ toClient \in Seq(ToClient) /\ server \in Serving
  BY DEF ClickHouseInv, ClickHouseTypeOK
<1>2. fetch.on /\ Working
  BY <1>1, NoQueryIs DEF Fetching, Between, Unasked, Over, Unclaimed
<1>3. Current \in DOMAIN asks /\ Current \in Nat /\ Current # 0 /\ asks \in Seq(Questions) /\ asks[Current] \in Questions
  <2>1. Current > 0 /\ asks \in Seq(Questions)
    BY <1>1, <1>2 DEF Fetching, ClickHouseTypeOK
  <2> QED BY <2>1 DEF Current
<1>4. PICK h, i, j \in Nat : Flow(h, i, j, 0) /\ Remains(j)
  BY <1>2 DEF Working
<1>5. final \in ToClient
  BY DEF ToClient
<1>6. /\ toClient' \in Seq(ToClient) /\ toClient' # <<>> /\ Len(toClient') = Len(toClient) + 1
      /\ Len(toClient) \in Nat /\ \A m \in 1..Len(toClient) : toClient'[m] = toClient[m]
      /\ toClient'[Len(toClient')] = final
      /\ \A m \in DOMAIN toClient' : m \in DOMAIN toClient \/ toClient'[m] = final
      /\ DOMAIN toClient = 1..Len(toClient)
  BY <1>1, <1>5, OneMore
<1>7. ClickHouseTypeOK'
  BY <1>1, <1>6, NoQueryIs DEF ClickHouseTypeOK
<1>8. Current' = Current /\ asks' = asks /\ fetch' = fetch /\ stopped' = stopped
  BY DEF Current
<1>9. Unclaimed'
  BY NoQueryIs DEF Unclaimed
<1>10. Flow(h, i, j, 1)'
  <2>1. /\ h \in 0..1 /\ j \in 0..Len(asks[Current].result) /\ i \in 0..j /\ (h = 1 => i = 0)
        /\ Len(toClient) = h + (j - i)
        /\ ~fetch.truncated => fetch.rows = Sums(asks[Current].result)[i]
    BY <1>4 DEF Flow
  <2>2. \A m \in 1..(h + (j - i)) :
          toClient'[m] = Data(Current, IF m <= h THEN 0 ELSE asks[Current].result[i + m - h])
    BY <1>4, <1>6, <2>1 DEF Flow
  <2> QED BY <1>6, <1>8, <2>1, <2>2 DEF Flow
<1>11. \/ final = End(Current) /\ (Current \notin stopped => j = Len(asks[Current].result))
       \/ \E class \in Classes : final = Says(Current, class) /\ (class = "canceled" => Current \in stopped)
  <2>1. server.k = Current /\ (server.canceled => Current \in stopped)
    BY <1>2 DEF Working
  <2>2. ASSUME server.left = <<>> PROVE j = Len(asks[Current].result)
    <3>1. Len(asks[Current].result) \in Nat
      BY <1>3 DEF Questions
    <3> QED BY <1>4, <2>2, <3>1 DEF Remains
  <2> QED BY <2>1, <2>2
<1>12. Over'
  <2>1. Queries(toServer') = {}
    BY <1>2 DEF Working
  <2> QED BY <1>6, <1>8, <1>9, <1>10, <1>11, <2>1 DEF Over
<1>13. fetch'.on /\ Fetching'
  BY <1>1, <1>2, <1>8, <1>12 DEF Fetching
<1>14. Owed'
  <2>1. server'.k = 0 /\ server'.phase = "idle" /\ toClient' # <<>>
    BY <1>6, NoQueryIs
  <2>2. ASSUME stopped = {}
        PROVE  Blocks(toServer) = {} /\ \A m \in DOMAIN toClient' : fetch.wants => toClient'[m] \in Finals
    BY <1>1, <1>2, <1>6, <2>2 DEF Owed
  <2> QED BY <1>8, <1>13, <2>1, <2>2 DEF Owed
<1>15. Lost' /\ WholeOrSaid'
  BY <1>1, NoQueryIs, WholeKept DEF Lost
<1> QED BY <1>7, <1>13, <1>14, <1>15 DEF ClickHouseInv

LEMMA ServerSendsKeeps == ASSUME ClickHouseInv, ServerSends PROVE ClickHouseInv'
<1>1. /\ server.phase = "run" /\ ~broken
      /\ UNCHANGED <<readOnly, closed, broken, asks, fetch, toServer, waiting, pressCount, stopped>>
  BY DEF ServerSends
<1>2. server.k \in Nat
  BY DEF ClickHouseInv, ClickHouseTypeOK, Serving
<1>3. CASE /\ ~server.canceled /\ server.left # <<>>
           /\ toClient' = Append(toClient, Data(server.k, Head(server.left)))
           /\ server' = [server EXCEPT !.left = Tail(@)]
  BY <1>1, <1>3, SendsBlockKeeps
<1>4. CASE /\ server.canceled \/ server.left = <<>>
           /\ toClient' = Append(toClient, End(server.k))
           /\ server' = NoQuery
  <2>1. End(server.k) \in Finals
    BY <1>2 DEF Finals
  <2> QED BY <1>1, <1>4, <2>1, SendsFinalKeeps
<1>5. CASE /\ \E class \in {"server", "connection"} \union (IF server.canceled THEN {"canceled"} ELSE {}) :
                 toClient' = Append(toClient, Says(server.k, class))
           /\ server' = NoQuery
  <2>1. PICK class \in {"server", "connection"} \union (IF server.canceled THEN {"canceled"} ELSE {}) :
            toClient' = Append(toClient, Says(server.k, class))
    BY <1>5
  <2>2. class \in Classes /\ (class = "canceled" => server.canceled)
    BY DEF Classes
  <2>3. Says(server.k, class) \in Finals
    BY <1>2, <2>2 DEF Finals
  <2> QED BY <1>1, <1>5, <2>1, <2>2, <2>3, SendsFinalKeeps
<1> QED BY <1>3, <1>4, <1>5, Zenon DEF ServerSends
-----------------------------------------------------------------------------
(* The client reads.                                                       *)

LEMMA AtCurrent ==
    ASSUME ClickHouseInv, fetch.on
    PROVE  /\ Current \in DOMAIN asks /\ Current \in Nat /\ Current # 0
           /\ asks \in Seq(Questions) /\ asks[Current] \in Questions
           /\ asks[Current].result \in Seq(Nat) /\ Len(asks[Current].result) \in Nat
           /\ Fetching /\ ClickHouseTypeOK /\ WholeOrSaid /\ Owed /\ Lost
<1>1. Current > 0 /\ asks \in Seq(Questions) /\ Fetching /\ ClickHouseTypeOK /\ WholeOrSaid /\ Owed /\ Lost
  BY DEF Fetching, ClickHouseTypeOK, ClickHouseInv
<1>2. Current \in DOMAIN asks /\ Current \in Nat /\ Current # 0 /\ asks[Current] \in Questions
  BY <1>1 DEF Current
<1>3. asks[Current].result \in Seq(Nat)
  BY <1>2 DEF Questions
<1> QED BY <1>1, <1>2, <1>3

\* Of what is on the wire, the header comes first, then the blocks in order.
LEMMA FirstRead ==
    ASSUME NEW h \in Nat, NEW i \in Nat, NEW j \in Nat, NEW last \in 0..1, Flow(h, i, j, last), h + (j - i) > 0
    PROVE  toClient[1] = Data(Current, IF h = 1 THEN 0 ELSE asks[Current].result[i + 1])
<1>1. h \in 0..1 /\ 1 \in 1..(h + (j - i)) /\ (h = 1 => i = 0)
  BY DEF Flow
<1>2. toClient[1] = Data(Current, IF 1 <= h THEN 0 ELSE asks[Current].result[i + 1 - h])
  BY <1>1 DEF Flow
<1>3. (1 <= h <=> h = 1) /\ (h # 1 => i + 1 - h = i + 1)
  BY <1>1
<1> QED BY <1>2, <1>3

LEMMA FlowReads ==
    ASSUME toClient \in Seq(ToClient), toClient # <<>>, asks[Current].result \in Seq(Nat),
           NEW h \in Nat, NEW i \in Nat, NEW j \in Nat, NEW last \in 0..1,
           Flow(h, i, j, last), h + (j - i) > 0,
           toClient' = Tail(toClient), UNCHANGED asks,
           ~fetch'.truncated =>
              ~fetch.truncated /\ fetch'.rows = fetch.rows + (IF h = 1 THEN 0 ELSE asks[Current].result[i + 1])
    PROVE  \E g, e \in Nat : Flow(g, e, j, last)'
<1> DEFINE result == asks[Current].result
           g == 0
           e == IF h = 1 THEN i ELSE i + 1
<1>1. /\ h \in 0..1 /\ j \in 0..Len(result) /\ i \in 0..j /\ (h = 1 => i = 0)
      /\ Len(toClient) = h + (j - i) + last /\ Len(result) \in Nat
  BY DEF Flow
<1>2. /\ g \in 0..1 /\ e \in 0..j /\ (g = 1 => e = 0) /\ g + (j - e) = h + (j - i) - 1
      /\ e \in Nat /\ e = i + 1 - h /\ g = 0
  <2>1. CASE h = 1
    BY <1>1, <2>1
  <2>2. CASE h = 0
    BY <1>1, <2>2
  <2> QED BY <1>1, <2>1, <2>2
<1>3. Len(toClient') = Len(toClient) - 1 /\ \A m \in 1..(Len(toClient) - 1) : toClient'[m] = toClient[m + 1]
  OBVIOUS
<1>4. Len(toClient') = g + (j - e) + last
  <2> HIDE DEF g, e
  <2> QED BY <1>1, <1>2, <1>3
<1>5. ASSUME NEW m \in 1..(g + (j - e))
      PROVE  toClient'[m] = Data(Current, IF m <= g THEN 0 ELSE result[e + m - g])
  <2>1. m \in 1..(Len(toClient) - 1) /\ m + 1 \in 1..(h + (j - i)) /\ ~(m + 1 <= h) /\ ~(m <= g)
    BY <1>1, <1>2
  <2>2. toClient[m + 1] = Data(Current, result[i + (m + 1) - h])
    BY <2>1 DEF Flow
  <2>3. i + (m + 1) - h = e + m - g
    BY <1>1, <1>2, <2>1
  <2> QED BY <1>3, <2>1, <2>2, <2>3
<1>6. ASSUME ~fetch'.truncated PROVE fetch'.rows = Sums(result)[e]
  <2>1. fetch.rows = Sums(result)[i] /\ fetch'.rows = fetch.rows + (IF h = 1 THEN 0 ELSE result[i + 1])
    BY <1>6 DEF Flow
  <2>2. CASE h = 1
    BY <1>6, <2>1, <2>2, SumsAre, <1>1 DEF SumsTo
  <2>3. CASE h # 1
    <3>1. i + 1 \in 1..Len(result) /\ i + 1 - 1 = i /\ e = i + 1
      <4>1. h = 0 /\ i < j /\ j <= Len(result) /\ Len(result) \in Nat
        BY <1>1, <2>3
      <4>2. i + 1 \in 1..Len(result) /\ i + 1 - 1 = i
        <5> HIDE DEF result
        <5> QED BY <4>1
      <4> QED BY <2>3, <4>2
    <3>2. Sums(result)[i + 1] = Sums(result)[i + 1 - 1] + result[i + 1]
      <4>1. \A m \in 1..Len(result) : Sums(result)[m] = Sums(result)[m - 1] + result[m]
        BY SumsAre DEF SumsTo
      <4> HIDE DEF result
      <4> QED BY <3>1, <4>1
    <3> QED BY <2>1, <2>3, <3>1, <3>2
  <2> QED BY <2>2, <2>3
<1>7. Current' = Current /\ asks' = asks
  BY DEF Current
<1> HIDE DEF g, e
<1>8. Flow(g, e, j, last)'
  BY <1>1, <1>2, <1>4, <1>5, <1>6, <1>7 DEF Flow
<1> QED
  <2>1. g \in Nat /\ e \in Nat
    BY <1>2
  <2> QED BY <1>8, <2>1

\* A packet that is not a block of rows is the last of its query.
LEMMA FinalRead ==
    ASSUME ClickHouseInv, fetch.on, toClient # <<>>, Head(toClient).what \in {"end", "exception"}
    PROVE  /\ Over /\ Len(toClient) = 1 /\ Head(toClient) = toClient[1] /\ Tail(toClient) = <<>>
           /\ Head(toClient).what = "end" /\ Current \notin stopped /\ ~fetch.truncated =>
                 fetch.rows = Total(asks[Current].result)
           /\ Head(toClient).what = "exception" /\ Head(toClient).class = "canceled" => Current \in stopped
<1>1. toClient \in Seq(ToClient) /\ Head(toClient) = toClient[1]
  BY AtCurrent DEF ClickHouseTypeOK
<1>2. \A k, n : Data(k, n).what = "data"
  BY DEF Data
<1>3. ~Unasked
  BY DEF Unasked
<1>4. ~Working
  <2> SUFFICES ASSUME Working PROVE FALSE
    OBVIOUS
  <2>1. PICK h, i, j \in Nat : Flow(h, i, j, 0)
    BY DEF Working
  <2>2. h + (j - i) > 0
    <3>1. Len(toClient) = h + (j - i) + 0 /\ i <= j
      BY <2>1 DEF Flow
    <3>2. Len(toClient) \in Nat \ {0}
      BY <1>1
    <3> QED BY <3>1, <3>2
  <2> QED BY <1>1, <1>2, <2>1, <2>2, FirstRead
<1>5. Over
  BY <1>3, <1>4, AtCurrent DEF Fetching
<1> DEFINE Final(j) == LET final == toClient[Len(toClient)] IN
             \/ final = End(Current) /\ (Current \notin stopped => j = Len(asks[Current].result))
             \/ \E class \in Classes : /\ final = Says(Current, class)
                                       /\ class = "canceled" => Current \in stopped
<1>6. PICK h, i, j \in Nat : Flow(h, i, j, 1) /\ Final(j)
  BY <1>5 DEF Over
<1>7. h + (j - i) = 0 /\ i \in 0..j /\ h \in 0..1
  <2>1. ~(h + (j - i) > 0)
    BY <1>1, <1>2, <1>6, FirstRead
  <2>2. i \in 0..j /\ h \in 0..1
    BY <1>6 DEF Flow
  <2> QED BY <2>1, <2>2
<1>8. Len(toClient) = 1 /\ i = j
  BY <1>6, <1>7 DEF Flow
<1>9. Tail(toClient) = <<>>
  <2>1. Tail(toClient) \in Seq(ToClient) /\ Len(Tail(toClient)) = 0
    BY <1>1, <1>8
  <2>2. \A s \in Seq(ToClient) : Len(s) = 0 => s = <<>>
    OBVIOUS
  <2> QED BY <2>1, <2>2, Zenon
<1>10. \A k, class : /\ End(k).what = "end" /\ Says(k, class).what = "exception"
                     /\ Says(k, class).class = class
  BY DEF End, Says
<1>11. ASSUME Head(toClient).what = "end", Current \notin stopped, ~fetch.truncated
       PROVE  fetch.rows = Total(asks[Current].result)
  <2>1. j = Len(asks[Current].result)
    BY <1>1, <1>6, <1>8, <1>10, <1>11
  <2> QED BY <1>6, <1>8, <1>11, <2>1 DEF Flow, Total
<1>12. ASSUME Head(toClient).what = "exception", Head(toClient).class = "canceled" PROVE Current \in stopped
  BY <1>1, <1>6, <1>8, <1>10, <1>12
<1> QED BY <1>1, <1>5, <1>8, <1>9, <1>11, <1>12

\* A fetch that ends with the last packet leaves nothing behind it.
LEMMA EndKeeps ==
    ASSUME ClickHouseInv, fetch.on, toClient # <<>>, Head(toClient).what \in {"end", "exception"},
           toClient' = Tail(toClient), fetch' \in Fetches, ~fetch'.on,
           NEW told \in {"ok", "error", "canceled"}, Answer(told), closed' \in BOOLEAN,
           told = "ok" => /\ fetch'.rows = fetch.rows /\ fetch'.truncated = fetch.truncated
                          /\ \/ Head(toClient).what = "end"
                             \/ Head(toClient).class = "canceled",
           UNCHANGED toServer, UNCHANGED <<readOnly, broken, server, waiting, pressCount, stopped>>
    PROVE  ClickHouseInv'
<1>1. toClient' = <<>>
  BY FinalRead
<1>2. told = "ok" /\ ~fetch'.truncated /\ Current \notin stopped => fetch'.rows = Total(asks[Current].result)
  BY FinalRead
<1>3. /\ asks' \in Seq(Questions) /\ WholeOrSaid'
      /\ \A k \in DOMAIN asks' : asks'[k].result # <<>> => IsReadOnlyStatement(asks'[k].text)
  BY <1>2, Answered
<1>4. ClickHouseTypeOK'
  BY <1>1, <1>3, AtCurrent, NothingOnTheWire DEF ClickHouseTypeOK
<1>5. Unclaimed /\ Queries(toServer) = {}
  BY FinalRead DEF Over
<1>6. Between'
  BY <1>1, <1>5 DEF Between, Unclaimed
<1>7. Owed'
  <2>1. ASSUME stopped = {}, ~broken PROVE Blocks(toServer) = {}
    BY <1>5, <2>1, AtCurrent DEF Owed, Unclaimed
  <2>2. server.phase \in {"idle", "lost"}
    BY <1>5 DEF Unclaimed
  <2> QED BY <2>1, <2>2 DEF Owed
<1>8. Lost'
  BY AtCurrent DEF Lost
<1> QED BY <1>3, <1>4, <1>6, <1>7, <1>8 DEF ClickHouseInv

\* What a block of rows does to the fetch.
ReadOf(was, n, g, on, rows, full, canceled, wants) ==
    /\ g = Fetched(on, rows, full, canceled, wants)
    /\ rows \in 0..MaxRows /\ full \in BOOLEAN /\ on = was.on
    /\ ~full => ~was.truncated /\ rows = was.rows + n

WantsSet(d, b, v) == d = [b EXCEPT !.wants = v]
CanceledSet(d, b, v) == d = [b EXCEPT !.canceled = v]

LEMMA BlockAbsorbed ==
    ASSUME NEW was \in Fetches, NEW n \in Nat
    PROVE  \E rows, full : ReadOf(was, n, Absorb(was, n), was.on, rows, full, was.canceled, was.wants)
<1> DEFINE room == MaxRows - was.rows
           take == IF n < room THEN n ELSE room
           full == was.truncated \/ n > take
           rows == was.rows + take
<1>1. /\ Absorb(was, n) = Fetched(was.on, rows, full, was.canceled, was.wants)
      /\ rows \in 0..MaxRows /\ (~full => ~was.truncated /\ take = n)
  BY Absorbed, ClickHouseAssumption
<1>2. full \in BOOLEAN
  <2>1. was.truncated \in BOOLEAN
    BY DEF Fetches
  <2>2. (n > take) \in BOOLEAN
    OBVIOUS
  <2> HIDE DEF take
  <2> QED BY <2>1, <2>2, Zenon
<1>3. ~full => ~was.truncated /\ rows = was.rows + n
  BY <1>1
<1> HIDE DEF full, rows
<1> QED BY <1>1, <1>2, <1>3, Zenon DEF ReadOf

LEMMA BlockWants ==
    ASSUME NEW was, NEW n, NEW b, NEW on, NEW rows, NEW full, NEW canceled, NEW wants,
           ReadOf(was, n, b, on, rows, full, canceled, wants), NEW v, NEW d, WantsSet(d, b, v)
    PROVE  ReadOf(was, n, d, on, rows, full, canceled, v) /\ b.wants = wants
<1>1. b = Fetched(on, rows, full, canceled, wants)
  BY DEF ReadOf
<1>2. d = Fetched(on, rows, full, canceled, v) /\ b.wants = wants
  BY <1>1, WantsAnew DEF WantsSet
<1> QED BY <1>2 DEF ReadOf

LEMMA BlockCanceled ==
    ASSUME NEW was, NEW n, NEW b, NEW on, NEW rows, NEW full, NEW canceled, NEW wants,
           ReadOf(was, n, b, on, rows, full, canceled, wants), NEW v, NEW d, CanceledSet(d, b, v)
    PROVE  ReadOf(was, n, d, on, rows, full, v, wants) /\ b.canceled = canceled
<1>1. b = Fetched(on, rows, full, canceled, wants)
  BY DEF ReadOf
<1>2. d = Fetched(on, rows, full, v, wants) /\ b.canceled = canceled
  BY <1>1, CanceledAnew DEF CanceledSet
<1> QED BY <1>2 DEF ReadOf

LEMMA BlockIsRead ==
    ASSUME NEW was \in Fetches, NEW n, NEW g, NEW rows, NEW full, NEW canceled, NEW wants,
           ReadOf(was, n, g, was.on, rows, full, canceled, wants)
    PROVE  /\ g.on = was.on /\ g.wants = wants
           /\ wants \in BOOLEAN /\ canceled \in BOOLEAN => g \in Fetches
           /\ ~g.truncated => ~was.truncated /\ g.rows = was.rows + n
<1>1. /\ g = Fetched(was.on, rows, full, canceled, wants) /\ rows \in 0..MaxRows /\ full \in BOOLEAN
      /\ ~full => ~was.truncated /\ rows = was.rows + n
  BY DEF ReadOf
<1>2. g.on = was.on /\ g.rows = rows /\ g.truncated = full /\ g.wants = wants
  BY <1>1, FetchedFields
<1>3. was.on \in BOOLEAN
  BY DEF Fetches
<1>4. ASSUME wants \in BOOLEAN, canceled \in BOOLEAN PROVE g \in Fetches
  BY <1>1, <1>3, <1>4 DEF Fetches, Fetched
<1> QED BY <1>1, <1>2, <1>4, Zenon

\* A block of rows that is the first on the wire, and where it leaves the query.
LEMMA BlockFlows ==
    ASSUME ClickHouseInv, fetch.on, toClient # <<>>, toClient' = Tail(toClient), UNCHANGED asks,
           NEW h \in Nat, NEW i \in Nat, NEW j \in Nat, NEW last \in 0..1, Flow(h, i, j, last),
           Head(toClient).what = "data", h + (j - i) > 0,
           ~fetch'.truncated => ~fetch.truncated /\ fetch'.rows = fetch.rows + Head(toClient).rows
    PROVE  \E g, e \in Nat : Flow(g, e, j, last)'
<1>1. toClient \in Seq(ToClient) /\ Head(toClient) = toClient[1]
  BY AtCurrent DEF ClickHouseTypeOK
<1>2. toClient[1] = Data(Current, IF h = 1 THEN 0 ELSE asks[Current].result[i + 1])
  BY FirstRead
<1>3. \A k, n : Data(k, n).rows = n
  BY DEF Data
<1>4. Head(toClient).rows = IF h = 1 THEN 0 ELSE asks[Current].result[i + 1]
  BY <1>1, <1>2, <1>3
<1> QED BY <1>1, <1>4, AtCurrent, FlowReads

ReadInto(g, was, n, v) ==
    /\ g \in Fetches /\ g.on = was.on /\ g.wants = v
    /\ ~g.truncated => ~was.truncated /\ g.rows = was.rows + n

LEMMA BlockReadBy ==
    ASSUME NEW was \in Fetches, NEW n \in Nat, NEW v \in BOOLEAN, NEW f, WantsSet(f, Absorb(was, n), v),
           NEW u \in BOOLEAN, NEW g, CanceledSet(g, f, u)
    PROVE  ReadInto(g, was, n, v)
<1>1. PICK rows, full : ReadOf(was, n, Absorb(was, n), was.on, rows, full, was.canceled, was.wants)
  BY BlockAbsorbed
<1>2. ReadOf(was, n, f, was.on, rows, full, was.canceled, v)
  BY <1>1, BlockWants
<1>3. ReadOf(was, n, g, was.on, rows, full, u, v)
  BY <1>2, BlockCanceled
<1> QED BY <1>3, BlockIsRead DEF ReadInto

LEMMA AbsorbWants == ASSUME NEW was \in Fetches, NEW n \in Nat PROVE Absorb(was, n).wants = was.wants
<1>1. PICK rows, full : ReadOf(was, n, Absorb(was, n), was.on, rows, full, was.canceled, was.wants)
  BY BlockAbsorbed
<1> QED BY <1>1, BlockIsRead

\* A block and a cancel, one of them, or none.
Both(more, line, a) ==
    /\ more \in Seq(ToServer) /\ Queries(more) = Queries(line)
    /\ Blocks(more) = IF a THEN Blocks(line) \cup {Len(line) + 1} ELSE Blocks(line)

LEMMA WithBoth ==
    ASSUME NEW line \in Seq(ToServer), NEW a \in BOOLEAN, NEW s \in BOOLEAN, NEW more,
           more = line \o (IF a THEN <<EmptyBlock>> ELSE <<>>) \o (IF s THEN <<CancelPacket>> ELSE <<>>)
    PROVE  Both(more, line, a)
<1>1. \A l \in Seq(ToServer) : /\ l \o <<EmptyBlock>> = Append(l, EmptyBlock)
                               /\ l \o <<CancelPacket>> = Append(l, CancelPacket) /\ l \o <<>> = l
  BY PacketsDiffer
<1>2. PICK mid : mid = IF a THEN Append(line, EmptyBlock) ELSE line
  OBVIOUS
<1>3. /\ mid \in Seq(ToServer) /\ Queries(mid) = Queries(line)
      /\ Blocks(mid) = IF a THEN Blocks(line) \cup {Len(line) + 1} ELSE Blocks(line)
  BY <1>2, WithBlock
<1>4. line \o (IF a THEN <<EmptyBlock>> ELSE <<>>) = mid
  BY <1>1, <1>2
<1>5. more = IF s THEN Append(mid, CancelPacket) ELSE mid
  BY <1>1, <1>3, <1>4
<1> QED BY <1>3, <1>5, WithCancel DEF Both

LEMMA ReadDataKeeps ==
    ASSUME ClickHouseInv, fetch.on, toClient # <<>>, Head(toClient).what = "data", toClient' = Tail(toClient),
           ReadData(Head(toClient).rows),
           UNCHANGED <<readOnly, broken, server, waiting, pressCount, stopped>>
    PROVE  ClickHouseInv'
<1>1. /\ toClient \in Seq(ToClient) /\ Head(toClient) = toClient[1] /\ toClient[1] \in ToClient
      /\ Tail(toClient) \in Seq(ToClient) /\ fetch \in Fetches /\ toServer \in Seq(ToServer)
      /\ Len(toClient) \in Nat \ {0}
  BY AtCurrent DEF ClickHouseTypeOK
<1>2. PICK n : n = Head(toClient).rows /\ n \in Nat
  BY <1>1, AnswersDiffer
<1>3. toClient[1] \notin Finals
  BY <1>1, AnswersDiffer
<1> DEFINE answers == fetch.wants /\ n = 0
           f == [Absorb(fetch, n) EXCEPT !.wants = @ /\ ~answers]
           stop == f.truncated /\ ~f.canceled
<1>4. \/ /\ broken /\ closed' = TRUE /\ fetch' = NoFetch /\ Answer("error") /\ UNCHANGED toServer
      \/ /\ fetch' = [f EXCEPT !.canceled = @ \/ stop]
         /\ toServer' = toServer \o (IF answers THEN <<EmptyBlock>> ELSE <<>>)
                                 \o (IF stop THEN <<CancelPacket>> ELSE <<>>)
         /\ UNCHANGED <<closed, asks>>
  <2>1. ReadData(n)
    BY <1>2, Zenon
  <2> QED BY <2>1, Zenon DEF ReadData
<1>5. CASE broken /\ closed' = TRUE /\ fetch' = NoFetch /\ Answer("error") /\ UNCHANGED toServer
  <2>1. NoFetch \in Fetches /\ ~NoFetch.on
    BY ClickHouseAssumption DEF NoFetch, Fetches
  <2>2. /\ asks' \in Seq(Questions) /\ WholeOrSaid'
        /\ \A k \in DOMAIN asks' : asks'[k].result # <<>> => IsReadOnlyStatement(asks'[k].text)
    BY <1>5, <2>1, Answered
  <2>3. ClickHouseTypeOK'
    BY <1>1, <1>5, <2>1, <2>2, AtCurrent DEF ClickHouseTypeOK
  <2>4. ~fetch'.on /\ Between' /\ Owed' /\ Lost'
    BY <1>5, <2>1, AtCurrent DEF Between, Owed, Lost
  <2> QED BY <2>2, <2>3, <2>4 DEF ClickHouseInv
<1>6. CASE /\ fetch' = [f EXCEPT !.canceled = @ \/ stop]
           /\ toServer' = toServer \o (IF answers THEN <<EmptyBlock>> ELSE <<>>)
                                   \o (IF stop THEN <<CancelPacket>> ELSE <<>>)
           /\ UNCHANGED <<closed, asks>>
  <2>1. PICK v \in BOOLEAN, u \in BOOLEAN, a \in BOOLEAN, s \in BOOLEAN :
           /\ a = answers /\ s = stop
           /\ v = (Absorb(fetch, n).wants /\ ~answers) /\ u = (f.canceled \/ stop)
    <3>1. /\ answers \in BOOLEAN /\ stop \in BOOLEAN
          /\ (Absorb(fetch, n).wants /\ ~answers) \in BOOLEAN /\ (f.canceled \/ stop) \in BOOLEAN
      BY Zenon
    <3> HIDE DEF f, answers, stop
    <3> QED BY <3>1, Zenon
  <2>2. /\ WantsSet(f, Absorb(fetch, n), v) /\ CanceledSet(fetch', f, u)
        /\ (v => Absorb(fetch, n).wants /\ ~a) /\ (a <=> answers)
        /\ toServer' = toServer \o (IF a THEN <<EmptyBlock>> ELSE <<>>) \o (IF s THEN <<CancelPacket>> ELSE <<>>)
    <3>1. WantsSet(f, Absorb(fetch, n), v)
      BY <2>1, Zenon DEF WantsSet
    <3>2. CanceledSet(fetch', f, u)
      <4> HIDE DEF f
      <4> QED BY <1>6, <2>1, Zenon DEF CanceledSet
    <3>3. toServer' = toServer \o (IF a THEN <<EmptyBlock>> ELSE <<>>) \o (IF s THEN <<CancelPacket>> ELSE <<>>)
      <4> HIDE DEF f, answers, stop
      <4> QED BY <1>6, <2>1, Zenon
    <3> HIDE DEF f, stop
    <3> QED BY <2>1, <3>1, <3>2, <3>3, Zenon
  <2> HIDE DEF f, stop
  <2>3. /\ fetch' \in Fetches /\ fetch'.on = fetch.on /\ fetch'.wants = v
        /\ ~fetch'.truncated => ~fetch.truncated /\ fetch'.rows = fetch.rows + n
    <3>1. fetch \in Fetches /\ n \in Nat /\ v \in BOOLEAN /\ u \in BOOLEAN
      BY <1>1, <1>2, <2>1, Zenon
    <3>2. WantsSet(f, Absorb(fetch, n), v) /\ CanceledSet(fetch', f, u)
      BY <2>2
    <3>3. ReadInto(fetch', fetch, n, v)
      BY <3>1, <3>2, BlockReadBy, Zenon
    <3> QED BY <3>3 DEF ReadInto
  <2>4. fetch'.wants => fetch.wants /\ n # 0
    BY <1>1, <1>2, <2>2, <2>3, AbsorbWants, Zenon
  <2>5. /\ toServer' \in Seq(ToServer) /\ Queries(toServer') = Queries(toServer)
        /\ Blocks(toServer') = IF a THEN Blocks(toServer) \cup {Len(toServer) + 1} ELSE Blocks(toServer)
    <3>1. toServer \in Seq(ToServer)
      BY <1>1
    <3>2. toServer' = toServer \o (IF a THEN <<EmptyBlock>> ELSE <<>>) \o (IF s THEN <<CancelPacket>> ELSE <<>>)
      BY <2>2
    <3>3. Both(toServer', toServer, a)
      BY <3>1, <3>2, WithBoth, Zenon
    <3> QED BY <3>3 DEF Both
  <2>6. UNCHANGED <<closed, asks>> /\ Current' = Current
    BY <1>6 DEF Current
  <2>7. ClickHouseTypeOK'
    BY <1>1, <2>3, <2>5, <2>6, AtCurrent DEF ClickHouseTypeOK
  <2>8. ASSUME NEW h \in Nat, NEW i \in Nat, NEW j \in Nat, NEW last \in 0..1, Flow(h, i, j, last), h + (j - i) > 0
        PROVE  \E g, e \in Nat : Flow(g, e, j, last)'
    BY <1>2, <2>3, <2>6, <2>8, BlockFlows
  <2>9. ~Unasked
    BY DEF Unasked
  <2>10. ASSUME Working
         PROVE  /\ Working' /\ server.k = Current /\ server.phase # "external" /\ server.phase # "idle"
                /\ fetch.wants => n = 0
    <3>1. PICK h, i, j \in Nat : Flow(h, i, j, 0) /\ Remains(j)
      BY <2>10 DEF Working
    <3>2. h + (j - i) > 0
      <4>1. Len(toClient) = h + (j - i) + 0 /\ i <= j
        BY <3>1 DEF Flow
      <4> QED BY <1>1, <4>1
    <3>3. PICK g, e \in Nat : Flow(g, e, j, 0)'
      BY <2>8, <3>1, <3>2
    <3>4. Remains(j)'
      BY <2>6, <3>1, RemainsKept
    <3>5. /\ server'.k = Current' /\ server'.phase \in Phases \ {"idle"} /\ server'.phase # "external"
          /\ server'.canceled => Current' \in stopped'
          /\ Queries(toServer') = {}
      BY <2>5, <2>6, <2>10 DEF Working
    <3>6. Working'
      BY <3>3, <3>4, <3>5 DEF Working
    <3>7. ASSUME fetch.wants PROVE n = 0
      <4>1. Leading(asks[Current].text) = "insert"
        BY <3>7, AtCurrent DEF Fetching, ExpectsClientData, WaitsForRows
      <4>2. asks[Current].result = <<>>
        BY <4>1, AtCurrent DEF ClickHouseTypeOK, IsReadOnlyStatement
      <4>3. h = 1
        <5>1. j \in 0..Len(asks[Current].result) /\ i \in 0..j /\ h \in 0..1
          BY <3>1 DEF Flow
        <5>2. j = 0
          BY <4>2, <5>1
        <5> QED BY <3>2, <5>1, <5>2
      <4>4. toClient[1] = Data(Current, 0)
        BY <3>1, <3>2, <4>3, FirstRead
      <4> QED BY <1>1, <1>2, <4>4 DEF Data
    <3> QED BY <2>10, <3>5, <3>6, <3>7 DEF Working
  <2>11. ASSUME Over PROVE Over' /\ toClient' # <<>> /\ server.k = 0 /\ server.phase \in {"idle", "lost"}
    <3> DEFINE Final(j) == LET final == toClient[Len(toClient)] IN
                 \/ final = End(Current) /\ (Current \notin stopped => j = Len(asks[Current].result))
                 \/ \E class \in Classes : /\ final = Says(Current, class)
                                           /\ class = "canceled" => Current \in stopped
    <3>1. PICK h, i, j \in Nat : Flow(h, i, j, 1) /\ Final(j)
      BY <2>11 DEF Over
    <3>2. Len(toClient) = h + (j - i) + 1 /\ i <= j
      BY <3>1 DEF Flow
    <3>3. toClient[Len(toClient)] \in Finals
      BY <3>1, AtCurrent DEF Finals
    <3>4. Len(toClient) # 1
      BY <1>3, <3>3
    <3>5. h + (j - i) > 0
      BY <3>2, <3>4
    <3>6. PICK g, e \in Nat : Flow(g, e, j, 1)'
      BY <2>8, <3>1, <3>5
    <3>7. Len(toClient') \in Nat \ {0} /\ toClient'[Len(toClient')] = toClient[Len(toClient)]
      <4>1. Len(toClient') = Len(toClient) - 1 /\ \A m \in 1..(Len(toClient) - 1) : toClient'[m] = toClient[m + 1]
        BY <1>1
      <4>2. Len(toClient) - 1 \in 1..(Len(toClient) - 1)
        <5>1. Len(toClient) \in Nat /\ Len(toClient) # 0 /\ Len(toClient) # 1
          BY <1>1, <3>4
        <5>2. \A l \in Nat : l # 0 /\ l # 1 => l - 1 \in 1..(l - 1)
          OBVIOUS
        <5> QED BY <5>1, <5>2, Zenon
      <4> QED BY <1>1, <3>4, <4>1, <4>2
    <3>8. LET final == toClient'[Len(toClient')] IN
                 \/ final = End(Current) /\ (Current \notin stopped => j = Len(asks[Current].result))
                 \/ \E class \in Classes : /\ final = Says(Current, class)
                                           /\ class = "canceled" => Current \in stopped
      BY <3>1, <3>7
    <3>9. Unclaimed' /\ Queries(toServer') = {}
      BY <2>5, <2>11 DEF Over, Unclaimed
    <3>10. Over'
      BY <2>6, <3>6, <3>8, <3>9 DEF Over
    <3>11. toClient' # <<>>
      BY <3>7
    <3> QED BY <2>11, <3>10, <3>11 DEF Over, Unclaimed
  <2>12. fetch'.on /\ Fetching'
    BY <2>3, <2>4, <2>6, <2>9, <2>10, <2>11, AtCurrent DEF Fetching
  <2>13. \A m \in DOMAIN toClient' : m + 1 \in DOMAIN toClient /\ toClient'[m] = toClient[m + 1]
    BY <1>1
  <2>14. CASE Working
    <3>1. Owed'
      <4> SUFFICES ASSUME stopped = {}, ~broken PROVE Owed'
        BY DEF Owed
      <4>1. ASSUME server.phase = "rows" PROVE toClient' = <<>> /\ ~fetch'.wants /\ \A p, q \in Blocks(toServer') : p = q
        <5>1. Len(toClient) = 1 /\ Blocks(toServer) = {}
          BY <4>1, AtCurrent DEF Owed
        <5>2. toClient' = <<>>
          <6>1. \A line \in Seq(ToClient) : Len(line) = 0 => line = <<>>
            OBVIOUS
          <6>2. Len(Tail(toClient)) = 0
            BY <1>1, <5>1
          <6> QED BY <1>1, <6>1, <6>2, Zenon
        <5> QED BY <2>4, <2>5, <2>10, <2>14, <5>1, <5>2
      <4>2. ASSUME server.phase = "run" PROVE Blocks(toServer') = {} /\ ~fetch'.wants
        <5>1. Blocks(toServer) = {} /\ ~fetch.wants
          BY <1>1, <1>3, <4>2, AtCurrent DEF Owed
        <5> QED BY <2>2, <2>4, <2>5, <5>1
      <4>3. server'.k # 0 /\ server'.phase # "external" /\ server'.phase = server.phase
        BY <2>10, <2>14, AtCurrent
      <4> QED BY <2>12, <4>1, <4>2, <4>3 DEF Owed
    <3>2. Lost' /\ WholeOrSaid'
      BY <2>6, WholeKept, AtCurrent DEF Lost
    <3> QED BY <2>7, <2>12, <3>1, <3>2 DEF ClickHouseInv
  <2>15. CASE Over
    <3>1. Owed'
      <4> SUFFICES ASSUME stopped = {}, ~broken PROVE Owed'
        BY DEF Owed
      <4>1. Blocks(toServer) = {} /\ ~fetch.wants
        BY <1>1, <1>3, <2>11, <2>15, AtCurrent DEF Owed
      <4>2. Blocks(toServer') = {} /\ ~fetch'.wants
        BY <2>2, <2>4, <2>5, <4>1
      <4> QED BY <2>11, <2>12, <2>15, <4>2 DEF Owed
    <3>2. Lost' /\ WholeOrSaid'
      BY <2>6, WholeKept, AtCurrent DEF Lost
    <3> QED BY <2>7, <2>12, <3>1, <3>2 DEF ClickHouseInv
  <2> QED BY <2>9, <2>14, <2>15, AtCurrent DEF Fetching
<1> QED BY <1>4, <1>5, <1>6

LEMMA ReadPacketKeeps == ASSUME ClickHouseInv, ReadPacket PROVE ClickHouseInv'
<1>1. /\ fetch.on /\ toClient # <<>> /\ toClient' = Tail(toClient)
      /\ UNCHANGED <<readOnly, broken, server, waiting, pressCount, stopped>>
  BY DEF ReadPacket
<1>2. /\ toClient \in Seq(ToClient) /\ Head(toClient) \in ToClient /\ fetch \in Fetches /\ closed \in BOOLEAN
  BY <1>1, AtCurrent DEF ClickHouseTypeOK
<1>3. CASE Head(toClient).what = "data" /\ ReadData(Head(toClient).rows)
  BY <1>1, <1>3, ReadDataKeeps
<1>4. ASSUME Head(toClient).what = "end" \/ (Head(toClient).what = "exception" /\ Head(toClient).class = "canceled"),
             FinishFetch
      PROVE  ClickHouseInv'
  <2>1. fetch' = [fetch EXCEPT !.on = FALSE]
    BY <1>4 DEF FinishFetch
  <2>2. fetch' \in Fetches /\ ~fetch'.on /\ fetch'.rows = fetch.rows /\ fetch'.truncated = fetch.truncated
    <3>1. \A o \in BOOLEAN : LET g == [fetch EXCEPT !.on = o] IN
            g \in Fetches /\ g.on = o /\ g.rows = fetch.rows /\ g.truncated = fetch.truncated
      BY <1>2 DEF Fetches
    <3> QED BY <2>1, <3>1, Zenon
  <2>3. Answer("ok") /\ UNCHANGED <<closed, toServer>>
    BY <1>4 DEF FinishFetch
  <2>4. closed' \in BOOLEAN
    BY <1>2, <2>3, Zenon
  <2> QED BY <1>1, <1>4, <2>2, <2>3, <2>4, EndKeeps
<1>5. CASE Head(toClient).what = "end" /\ FinishFetch
  BY <1>4, <1>5
<1>6. CASE Head(toClient).what = "exception" /\ ReadException(Head(toClient).class)
  <2>1. CASE Head(toClient).class = "canceled" /\ fetch.canceled
    BY <1>4, <1>6, <2>1 DEF ReadException
  <2>2. CASE ~(Head(toClient).class = "canceled" /\ fetch.canceled)
    <3>1. NoFetch \in Fetches /\ ~NoFetch.on
      BY ClickHouseAssumption DEF NoFetch, Fetches
    <3>2. \E told \in {"error", "canceled"} : Answer(told)
      BY <1>6, <2>2, Zenon DEF ReadException
    <3>3. PICK told \in {"error", "canceled"} : Answer(told)
      BY <3>2
    <3>4. fetch' = NoFetch /\ closed' = (closed \/ Head(toClient).class = "connection") /\ UNCHANGED toServer
      BY <1>6, <2>2, Zenon DEF ReadException
    <3>5. closed' \in BOOLEAN
      BY <3>4, Zenon
    <3>6. fetch' \in Fetches /\ ~fetch'.on /\ told # "ok" /\ told \in {"ok", "error", "canceled"}
      BY <3>1, <3>4
    <3> QED BY <1>1, <1>6, <3>3, <3>4, <3>5, <3>6, EndKeeps
  <2> QED BY <2>1, <2>2
<1> QED BY <1>3, <1>5, <1>6, Zenon DEF ReadPacket
-----------------------------------------------------------------------------
LEMMA NextKeeps == ASSUME ClickHouseInv, [ClickHouseNext]_clickhouseVars PROVE ClickHouseInv'
<1>1. CASE UNCHANGED clickhouseVars
  <2>1. /\ UNCHANGED <<readOnly, closed, broken, asks, fetch, toServer, toClient, server, waiting, pressCount>>
        /\ UNCHANGED stopped
    BY <1>1 DEF clickhouseVars
  <2>2. ClickHouseTypeOK'
    BY <2>1 DEF ClickHouseInv, ClickHouseTypeOK
  <2>3. (fetch.on => Fetching)' /\ (~fetch.on => Between)' /\ Owed' /\ Lost' /\ WholeOrSaid'
    BY <2>1, LineAlike
  <2> QED BY <2>2, <2>3 DEF ClickHouseInv
<1>2. CASE \E text \in Texts : \E result \in ResultsOf(text) : Fetch(text, result)
  BY <1>2, FetchKeeps
<1> QED BY <1>1, <1>2, ReadPacketKeeps, ReadFailsKeeps, PressKeeps, SendCancelKeeps, ServerTakesKeeps,
           ServerSendsKeeps, BreaksKeeps DEF ClickHouseNext

LEMMA StepIsInStep == ASSUME ClickHouseInv PROVE ClickHouseInStep
<1>1. InStep
  <2> SUFFICES ASSUME NEW m \in DOMAIN toClient, ~closed PROVE fetch.on /\ toClient[m].k = Current
    BY DEF InStep
  <2>0. toClient # <<>>
    OBVIOUS
  <2>1. fetch.on
    BY <2>0 DEF ClickHouseInv, Between
  <2>2. toClient \in Seq(ToClient) /\ m \in 1..Len(toClient) /\ Len(toClient) \in Nat
    BY <2>1, AtCurrent DEF ClickHouseTypeOK
  <2>3. \A k, n, class : Data(k, n).k = k /\ End(k).k = k /\ Says(k, class).k = k
    BY DEF Data, End, Says
  <2>4. CASE Working
    <3>1. PICK h, i, j \in Nat : Flow(h, i, j, 0)
      BY <2>4 DEF Working
    <3>2. PICK n : toClient[m] = Data(Current, n)
      BY <2>2, <3>1 DEF Flow
    <3> QED BY <2>1, <2>3, <3>2
  <2>5. CASE Over
    <3>1. PICK h, i, j \in Nat :
            /\ Flow(h, i, j, 1)
            /\ \/ toClient[Len(toClient)] = End(Current)
               \/ \E class \in Classes : toClient[Len(toClient)] = Says(Current, class)
      BY <2>5 DEF Over
    <3>2. Len(toClient) = h + (j - i) + 1
      BY <3>1 DEF Flow
    <3>3. CASE m = Len(toClient)
      BY <2>1, <2>3, <3>1, <3>3
    <3>4. CASE m # Len(toClient)
      <4>1. m \in 1..(h + (j - i))
        BY <2>2, <3>2, <3>4
      <4>2. PICK n : toClient[m] = Data(Current, n)
        BY <3>1, <4>1 DEF Flow
      <4> QED BY <2>1, <2>3, <4>2
    <3> QED BY <3>3, <3>4
  <2>6. ~Unasked
    BY <2>0 DEF Unasked
  <2> QED BY <2>1, <2>4, <2>5, <2>6, AtCurrent DEF Fetching
<1>2. NoStrayBlock /\ WholeOrSaid
  BY DEF ClickHouseInv, Lost, NoStrayBlock
<1> QED BY <1>1, <1>2 DEF ClickHouseInStep

\* What is on the wire, at the client and at the server stays well formed, and a
\* query that has blocks is a read, which answers no header (`fetch').
THEOREM TypeCorrect == ClickHouseSpec => []ClickHouseTypeOK
<1>1. ClickHouseInit => ClickHouseInv
  BY InitIInv
<1>2. ClickHouseInv /\ [ClickHouseNext]_clickhouseVars => ClickHouseInv'
  BY NextKeeps
<1>3. ClickHouseInv => ClickHouseTypeOK
  BY DEF ClickHouseInv
<1> QED BY <1>1, <1>2, <1>3, PTL DEF ClickHouseSpec

\* An answer that is not said to be cut short has every row of its result, unless
\* a cancel stopped its query at the server (`Fetch::absorb', `finish').
THEOREM AnswersAreWhole == ClickHouseSpec => []WholeOrSaid
<1>1. ClickHouseInit => ClickHouseInv
  BY InitIInv
<1>2. ClickHouseInv /\ [ClickHouseNext]_clickhouseVars => ClickHouseInv'
  BY NextKeeps
<1>3. ClickHouseInv => WholeOrSaid
  BY DEF ClickHouseInv
<1> QED BY <1>1, <1>2, <1>3, PTL DEF ClickHouseSpec

\* Every packet the client finds on its socket belongs to the query it is
\* fetching, whenever a cancel comes, from the user or from itself, and wherever
\* the socket breaks (`Client::fetch', `cancel'); the server is sent no block it
\* does not wait for before a cancel has stopped a query; and an answer that is
\* not said to be cut short has every row of its result unless it was canceled
\* (`Fetch::absorb').
THEOREM ClickHouseStaysInStep == ClickHouseSpec => []ClickHouseInStep
<1>1. ClickHouseInit => ClickHouseInv
  BY InitIInv
<1>2. ClickHouseInv /\ [ClickHouseNext]_clickhouseVars => ClickHouseInv'
  BY NextKeeps
<1>3. ClickHouseInv => ClickHouseInStep
  BY StepIsInStep
<1> QED BY <1>1, <1>2, <1>3, PTL DEF ClickHouseSpec
-----------------------------------------------------------------------------

(***************************************************************************)
(* Redis, walking the keyspace: a page is what the server answered, so the *)
(* invariant says that what stayed from the beginning of a walk is either  *)
(* shown, or on its way, or ahead of the cursor.                           *)
(***************************************************************************)
\* SetToSeq lists a finite set, every element of it once.
LEMMA SetToSeqLists ==
    ASSUME NEW S, IsFiniteSet(S)
    PROVE  /\ SetToSeq(S) \in Seq(S) /\ Range(SetToSeq(S)) = S
           /\ IsInjective(SetToSeq(S))
<1> DEFINE n == Cardinality(S)
           Lists(f) == IsInjective(f)
<1>1. n \in Nat /\ ExistsBijection(1..n, S)
  BY FS_CardinalityType
<1>2. PICK f \in Bijection(1..n, S) : TRUE
  BY <1>1 DEF ExistsBijection
<1>3. f \in [1..n -> S] /\ IsInjective(f)
  BY <1>2 DEF Bijection, Injection, IsInjective
<1>4. SetToSeq(S) = CHOOSE g \in [1..n -> S] : IsInjective(g)
  BY Zenon DEF SetToSeq
<1>5. SetToSeq(S) \in [1..n -> S] /\ IsInjective(SetToSeq(S))
  <2> HIDE DEF n
  <2>1. \E g \in [1..n -> S] : IsInjective(g)
    BY <1>3
  <2> QED BY <1>4, <2>1, Zenon
<1> DEFINE s == SetToSeq(S)
<1>6. s \in Injection(1..n, S)
  BY <1>5, Zenon DEF Injection
<1>7. IsFiniteSet(1..n) /\ Cardinality(1..n) = n
  BY <1>1, FS_Interval
<1>8. s \in Surjection(1..n, S)
  BY <1>6, <1>7, FS_Injection
<1>9. Range(s) = S
  BY <1>5, <1>8 DEF Surjection, Range
<1> QED BY <1>1, <1>5, <1>9, SeqDef
-----------------------------------------------------------------------------
RedisTypeOK ==
    /\ old \subseteq {"type", "memory"}
    /\ data \in [{0, 1} -> [Keys -> Types \union {"none"}]]
    /\ selected \in {0, 1}
    /\ queueing \in BOOLEAN /\ hasType \in BOOLEAN /\ hasMemory \in BOOLEAN
    /\ complete \in BOOLEAN /\ moved \in BOOLEAN
    /\ query \in [kind : Types \union {AnyType}, memory : BOOLEAN]
    /\ cursor \in 0..MaxKey /\ listed \subseteq Keys \X Types
    /\ call \in [at : {"idle", "walk", "describe", "page"}, pos : 0..MaxKey,
                 found : SUBSET Keys, got : Seq(Keys \X Types), done : BOOLEAN]
    /\ present \subseteq Keys
    /\ changes \in Nat /\ failures \in Nat /\ lines \in Nat

\* A call is from the caller's cursor on; what a page found is described before
\* the next page.
CallOK ==
    /\ call.at = "idle" => call = NoCall
    /\ call.at = "walk" => ~call.done
    /\ call.at # "describe" => call.found = {}

\* What stayed and fits is listed as far as the caller is, and collected as far
\* as the call is, unless it is about to be described.
Covered ==
    ~moved =>
        /\ selected = Home /\ ~queueing
        /\ \A k \in present : Fits(data[Home][k], query.kind) =>
              LET entry == <<k, data[Home][k]>>
              IN /\ complete \/ k < cursor => entry \in listed
                 /\ call.at # "idle" /\ (call.done \/ k < call.pos) =>
                       entry \in listed \union Range(call.got) \/ k \in call.found

\* What is listed or collected is of the type asked for, but for keys that
\* changed; what waits to be described is when the server was asked to choose.
OfItsType ==
    /\ \A e \in listed \union Range(call.got) : e[1] \in present => Fits(e[2], query.kind)
    /\ Asks => \A k \in call.found \intersect present : data[selected][k] = query.kind

RedisInv == RedisTypeOK /\ CallOK /\ Covered /\ OfItsType

LEMMA RedisInitially == RedisInit => RedisInv
<1> SUFFICES ASSUME RedisInit PROVE RedisInv
  OBVIOUS
<1>1. NoCall.at = "idle" /\ NoCall.pos = 0 /\ NoCall.found = {} /\ NoCall.got = <<>> /\ NoCall.done = FALSE
  BY DEF NoCall
<1>2. RedisTypeOK
  <2>1. call \in [at : {"idle", "walk", "describe", "page"}, pos : 0..MaxKey,
                 found : SUBSET Keys, got : Seq(Keys \X Types), done : BOOLEAN]
    BY RedisAssumption DEF RedisInit, NoCall
  <2>2. cursor \in 0..MaxKey /\ listed \subseteq Keys \X Types
    BY RedisAssumption DEF RedisInit
  <2>3. changes \in Nat /\ failures \in Nat /\ lines \in Nat
    BY DEF RedisInit
  <2>4. /\ data \in [{0, 1} -> [Keys -> Types \union {"none"}]]
        /\ query \in [kind : Types \union {AnyType}, memory : BOOLEAN]
        /\ selected \in {0, 1} /\ present \subseteq Keys
    BY DEF RedisInit, Home
  <2> QED BY <2>1, <2>2, <2>3, <2>4 DEF RedisInit, RedisTypeOK
<1>3. Range(call.got) = {}
  BY <1>1 DEF RedisInit, Range
<1>4. CallOK /\ Covered /\ OfItsType
  BY <1>1, <1>3, RedisAssumption DEF RedisInit, CallOK, Covered, OfItsType, Keys, Home, NoCall
<1> QED BY <1>2, <1>4 DEF RedisInv

LEMMA RangeOfNone == Range(<<>>) = {}
  BY DEF Range

LEMMA ListKeysKeeps == RedisInv /\ ListKeys => RedisInv'
<1> SUFFICES ASSUME RedisInv, ListKeys PROVE RedisInv'
  OBVIOUS
<1> USE DEF RedisInv
<1>1. /\ call' = [at |-> "walk", pos |-> cursor, found |-> {}, got |-> <<>>, done |-> FALSE]
      /\ ~complete
      /\ UNCHANGED <<old, data, selected, queueing, hasType, hasMemory, query, cursor, listed,
                     complete, present, moved, changes, failures, lines>>
  BY DEF ListKeys, NoCall, keyspace, caller, ghosts, bounds
<1>2. RedisTypeOK'
  BY <1>1 DEF RedisTypeOK
<1>3. CallOK'
  BY <1>1 DEF CallOK
<1>4. Covered'
  BY <1>1, RangeOfNone DEF Covered, Fits
<1>5. OfItsType'
  BY <1>1, RangeOfNone DEF OfItsType, Asks, Fits
<1> QED BY <1>2, <1>3, <1>4, <1>5

LEMMA WalkKeeps == RedisInv /\ Walk => RedisInv'
<1> SUFFICES ASSUME RedisInv, Walk PROVE RedisInv'
  OBVIOUS
<1> USE DEF RedisInv
<1> DEFINE b == Bucket(call.pos)
           next == IF queueing THEN 0 ELSE NextBucket(call.pos)
           found == {j \in {b} : ~queueing /\ data[selected][j] # "none"
                                 /\ (Asks => data[selected][j] = query.kind)}
<1>1. call.at = "walk" /\ ~call.done /\ call.found = {}
  BY DEF Walk, CallOK
<1>2. call' = [call EXCEPT !.pos = next, !.done = (next = 0), !.found = found,
                           !.at = IF found = {} THEN "page" ELSE "describe"]
  BY DEF Walk
<1>3. UNCHANGED <<old, data, selected, queueing, hasType, hasMemory, query, cursor, listed,
                  complete, present, moved, changes, failures, lines>>
  BY DEF Walk, keyspace, caller, ghosts, bounds
<1>4. b \in Keys /\ next \in 0..MaxKey
  BY RedisAssumption DEF RedisTypeOK, Bucket, NextBucket, Keys
<1>5. /\ call'.at = (IF found = {} THEN "page" ELSE "describe") /\ call'.pos = next
      /\ call'.found = found /\ call'.got = call.got /\ call'.done = (next = 0)
  BY <1>2 DEF RedisTypeOK
<1>6. found \subseteq Keys
  BY <1>4
<1> HIDE DEF found, next, b
<1>7. RedisTypeOK'
  BY <1>2, <1>3, <1>4, <1>6 DEF RedisTypeOK
<1>8. CallOK'
  BY <1>5 DEF CallOK, NoCall
<1>9. Covered'
  <2> SUFFICES ASSUME ~moved, NEW k \in present, Fits(data[Home][k], query.kind),
                      call'.done \/ k < call'.pos
               PROVE  <<k, data[Home][k]>> \in listed \union Range(call.got) \/ k \in found
    BY <1>3, <1>5 DEF Covered, Fits
  <2>1. selected = Home /\ ~queueing
    BY DEF Covered
  <2>2. CASE k < call.pos
    BY <2>2, <1>1 DEF Covered
  <2>3. CASE ~(k < call.pos)
    <3>1. k = b
      BY <2>1, <2>3, <1>5, RedisAssumption DEF b, next, Bucket, NextBucket, RedisTypeOK, Keys
    <3>2. data[selected][k] # "none" /\ (Asks => data[selected][k] = query.kind)
      BY <2>1, RedisAssumption DEF Fits, Asks
    <3> QED BY <3>1, <3>2, <2>1 DEF found
  <2> QED BY <2>2, <2>3
<1>10. OfItsType'
  BY <1>3, <1>5 DEF OfItsType, found, Asks, Fits
<1> QED BY <1>7, <1>8, <1>9, <1>10

LEMMA WalkRefusedKeeps == RedisInv /\ WalkRefused => RedisInv'
<1> SUFFICES ASSUME RedisInv, WalkRefused PROVE RedisInv'
  OBVIOUS
<1> USE DEF RedisInv
<1>1. /\ UNCHANGED <<old, data, selected, queueing, hasMemory, query, cursor, listed, complete, call,
                     present, moved, changes, lines>>
      /\ hasType' = FALSE /\ failures' \in {failures, failures + 1}
  BY DEF WalkRefused, keyspace, caller, ghosts, bounds
<1>2. RedisTypeOK'
  <2>1. failures' \in Nat
    BY <1>1 DEF RedisTypeOK
  <2> QED BY <1>1, <2>1 DEF RedisTypeOK
<1>4. CallOK'
  BY <1>1 DEF CallOK, NoCall
<1>3. Covered' /\ OfItsType'
  BY <1>1 DEF Covered, OfItsType, Fits, Asks
<1> QED BY <1>2, <1>3, <1>4

LEMMA DescribeKeeps == RedisInv /\ Describe => RedisInv'
<1> SUFFICES ASSUME RedisInv, Describe PROVE RedisInv'
  OBVIOUS
<1> USE DEF RedisInv
<1> DEFINE kept == {k \in call.found :
                      /\ ~queueing /\ data[selected][k] # "none"
                      /\ hasType \/ Fits(data[selected][k], query.kind)}
           entries == {<<k, data[selected][k]>> : k \in kept}
<1>1. call.at = "describe"
  BY DEF Describe
<1>2. call' = [call EXCEPT !.at = "page", !.found = {}, !.got = call.got \o SetToSeq(entries)]
  BY DEF Describe
<1>3. UNCHANGED <<old, data, selected, queueing, hasType, hasMemory, query, cursor, listed,
                  complete, present, moved, changes, failures, lines>>
  BY DEF Describe, keyspace, caller, ghosts, bounds
<1>4. entries \subseteq Keys \X Types
  BY DEF RedisTypeOK
<1>5. IsFiniteSet(entries)
  <2>1. IsFiniteSet(Keys)
    BY FS_Interval, RedisAssumption DEF Keys
  <2>2. IsFiniteSet(kept)
    BY <2>1, FS_Subset DEF RedisTypeOK
  <2> DEFINE entry == [k \in kept |-> <<k, data[selected][k]>>]
  <2>3. entry \in [kept -> entries] /\ \A e \in entries : \E k \in kept : entry[k] = e
    OBVIOUS
  <2>4. entry \in Surjection(kept, entries)
    <3> HIDE DEF kept, entries, entry
    <3> QED BY <2>3, Zenon DEF Surjection
  <2> QED BY <2>2, <2>4, FS_Surjection
<1> HIDE DEF entries
<1>6. SetToSeq(entries) \in Seq(Keys \X Types) /\ Range(SetToSeq(entries)) = entries
  <2>1. SetToSeq(entries) \in Seq(entries) /\ Range(SetToSeq(entries)) = entries
    BY <1>5, SetToSeqLists
  <2> QED BY <1>4, <2>1
<1>7. /\ call'.at = "page" /\ call'.pos = call.pos /\ call'.found = {}
      /\ call'.got = call.got \o SetToSeq(entries) /\ call'.done = call.done
  BY <1>2 DEF RedisTypeOK
<1>8. call'.got \in Seq(Keys \X Types)
  BY <1>6, <1>7 DEF RedisTypeOK
<1>9. Range(call'.got) = Range(call.got) \union entries
  <2>1. call.got \in Seq(Keys \X Types)
    BY DEF RedisTypeOK
  <2> DEFINE a == call.got
             c == SetToSeq(entries)
  <2>2. /\ Len(a) \in Nat /\ Len(c) \in Nat /\ DOMAIN a = 1..Len(a) /\ DOMAIN c = 1..Len(c)
        /\ DOMAIN (a \o c) = 1..(Len(a) + Len(c))
        /\ \A i \in 1..(Len(a) + Len(c)) : (a \o c)[i] = IF i <= Len(a) THEN a[i] ELSE c[i - Len(a)]
    BY <1>6, <2>1
  <2> HIDE DEF a, c
  <2>3. Range(a \o c) = Range(a) \union Range(c)
    <3>1. ASSUME NEW i \in 1..(Len(a) + Len(c)) PROVE (a \o c)[i] \in Range(a) \union Range(c)
      BY <2>2 DEF Range
    <3>2. ASSUME NEW i \in 1..Len(a) PROVE a[i] \in Range(a \o c)
      <4>1. i \in 1..(Len(a) + Len(c)) /\ (a \o c)[i] = a[i]
        BY <2>2
      <4> QED BY <4>1, <2>2 DEF Range
    <3>3. ASSUME NEW i \in 1..Len(c) PROVE c[i] \in Range(a \o c)
      <4>1. Len(a) + i \in 1..(Len(a) + Len(c)) /\ (a \o c)[Len(a) + i] = c[i]
        BY <2>2
      <4> QED BY <4>1, <2>2 DEF Range
    <3> QED BY <3>1, <3>2, <3>3, <2>2 DEF Range
  <2> QED BY <2>3, <1>6, <1>7 DEF a, c
<1>10. RedisTypeOK'
  BY <1>2, <1>3, <1>8 DEF RedisTypeOK
<1>11. CallOK'
  BY <1>7 DEF CallOK, NoCall
<1>12. Covered'
  <2> SUFFICES ASSUME ~moved, NEW k \in present, Fits(data[Home][k], query.kind),
                      call.done \/ k < call.pos, k \in call.found
               PROVE  <<k, data[Home][k]>> \in entries
    BY <1>1, <1>3, <1>7, <1>9 DEF Covered, Fits
  <2>1. selected = Home /\ ~queueing
    BY DEF Covered
  <2> QED BY <2>1 DEF entries, Fits
<1>13. OfItsType'
  <2>1. ASSUME NEW e \in entries, e[1] \in present PROVE Fits(e[2], query.kind)
    <3>1. PICK k \in kept : e = <<k, data[selected][k]>>
      BY DEF entries
    <3>2. CASE hasType /\ query.kind # AnyType
      BY <3>1, <3>2, <2>1 DEF OfItsType, Asks, Fits
    <3>3. CASE ~(hasType /\ query.kind # AnyType)
      BY <3>1, <3>3 DEF Fits
    <3> QED BY <3>2, <3>3
  <2>2. \A e \in listed \union Range(call'.got) : e[1] \in present => Fits(e[2], query.kind)
    BY <2>1, <1>9 DEF OfItsType
  <2> QED BY <2>2, <1>3, <1>7 DEF OfItsType, Fits
<1> QED BY <1>10, <1>11, <1>12, <1>13

LEMMA DescribeRefusedKeeps == RedisInv /\ DescribeRefused => RedisInv'
<1> SUFFICES ASSUME RedisInv, DescribeRefused PROVE RedisInv'
  OBVIOUS
<1> USE DEF RedisInv
<1>1. /\ UNCHANGED <<old, data, selected, queueing, hasType, query, cursor, listed, complete, call,
                     present, moved, changes, lines>>
      /\ hasMemory' = FALSE /\ failures' \in {failures, failures + 1}
  BY DEF DescribeRefused, keyspace, caller, ghosts, bounds
<1>2. RedisTypeOK'
  <2>1. failures' \in Nat
    BY <1>1 DEF RedisTypeOK
  <2> QED BY <1>1, <2>1 DEF RedisTypeOK
<1>4. CallOK'
  BY <1>1 DEF CallOK, NoCall
<1>3. Covered' /\ OfItsType'
  BY <1>1 DEF Covered, OfItsType, Fits, Asks
<1> QED BY <1>2, <1>3, <1>4

LEMMA TakeMoreKeeps == RedisInv /\ TakeMore => RedisInv'
<1> SUFFICES ASSUME RedisInv, TakeMore PROVE RedisInv'
  OBVIOUS
<1> USE DEF RedisInv
<1>1. /\ UNCHANGED <<old, data, selected, queueing, hasType, hasMemory, query, cursor, listed,
                     complete, present, moved, changes, failures, lines>>
      /\ call' = [call EXCEPT !.at = "walk"] /\ call.at = "page" /\ ~call.done
  BY DEF TakeMore, keyspace, caller, ghosts, bounds
<1>2. /\ call'.at = "walk" /\ call'.pos = call.pos /\ call'.found = call.found
      /\ call'.got = call.got /\ call'.done = call.done
  BY <1>1 DEF RedisTypeOK
<1>3. RedisTypeOK'
  BY <1>1 DEF RedisTypeOK
<1>4. CallOK' /\ Covered' /\ OfItsType'
  BY <1>1, <1>2 DEF CallOK, Covered, OfItsType, Fits, Asks, NoCall
<1> QED BY <1>3, <1>4

LEMMA PageLandsKeeps == RedisInv /\ PageLands => RedisInv'
<1> SUFFICES ASSUME RedisInv, PageLands PROVE RedisInv'
  OBVIOUS
<1> USE DEF RedisInv
<1>1. /\ UNCHANGED <<old, data, selected, queueing, hasType, hasMemory, query,
                     present, moved, changes, failures, lines>>
      /\ call.at = "page" /\ call' = NoCall /\ cursor' = call.pos /\ complete' = call.done
      /\ listed' = listed \union Range(call.got)
  BY DEF PageLands, keyspace, ghosts, bounds
<1>2. Range(call.got) \subseteq Keys \X Types
  BY DEF RedisTypeOK, Range
<1>3. RedisTypeOK'
  BY <1>1, <1>2, RedisAssumption DEF RedisTypeOK, NoCall
<1>4. call.found = {}
  BY <1>1 DEF CallOK
<1>5. NoCall.at = "idle" /\ NoCall.found = {} /\ NoCall.got = <<>> /\ NoCall.done = FALSE
  BY DEF NoCall
<1>6. CallOK'
  BY <1>1, <1>5 DEF CallOK
<1>7. Covered'
  BY <1>1, <1>4, <1>5 DEF Covered, Fits
<1>8. OfItsType'
  BY <1>1, <1>5, RangeOfNone DEF OfItsType, Fits, Asks
<1> QED BY <1>3, <1>6, <1>7, <1>8

LEMMA FailsKeeps == RedisInv /\ Fails => RedisInv'
<1> SUFFICES ASSUME RedisInv, Fails PROVE RedisInv'
  OBVIOUS
<1> USE DEF RedisInv
<1>1. /\ UNCHANGED <<old, data, selected, queueing, hasType, hasMemory, query, cursor, listed,
                     complete, present, moved, changes, lines>>
      /\ call' = NoCall /\ failures' = failures + 1
  BY DEF Fails, keyspace, caller, ghosts, bounds
<1>2. NoCall.at = "idle" /\ NoCall.found = {} /\ NoCall.got = <<>> /\ NoCall.done = FALSE
  BY DEF NoCall
<1>3. RedisTypeOK'
  BY <1>1, RedisAssumption DEF RedisTypeOK, NoCall
<1>4. CallOK' /\ Covered' /\ OfItsType'
  BY <1>1, <1>2, RangeOfNone DEF CallOK, Covered, OfItsType, Fits, Asks
<1> QED BY <1>3, <1>4

LEMMA ConsoleKeeps ==
    ASSUME RedisInv, NEW line \in {"select", "multi", "exec"}, Console(line)
    PROVE  RedisInv'
<1> USE DEF RedisInv
<1>1. /\ UNCHANGED <<old, data, hasType, hasMemory, query, cursor, listed, complete, call,
                     present, changes, failures>>
      /\ call.at = "idle" /\ moved' = TRUE /\ lines' = lines + 1
      /\ selected' \in {selected, 1} /\ queueing' \in BOOLEAN
  BY DEF Console, caller, RedisTypeOK
<1>2. call = NoCall /\ call.found = {}
  BY <1>1 DEF CallOK
<1>3. RedisTypeOK'
  BY <1>1 DEF RedisTypeOK
<1>4. CallOK' /\ Covered' /\ OfItsType'
  BY <1>1, <1>2 DEF CallOK, Covered, OfItsType, Fits, Asks, NoCall
<1> QED BY <1>3, <1>4

LEMMA ChangeKeeps ==
    ASSUME RedisInv, NEW j \in Keys, NEW type \in Types \union {"none"}, Change(j, type)
    PROVE  RedisInv'
<1> USE DEF RedisInv
<1>1. /\ UNCHANGED <<old, selected, queueing, hasType, hasMemory, query, cursor, listed,
                     complete, call, moved, failures, lines>>
      /\ data' = [data EXCEPT ![Home][j] = type] /\ present' = present \ {j}
      /\ changes' = changes + 1
  BY DEF Change, caller
<1>2. RedisTypeOK'
  BY <1>1 DEF RedisTypeOK, Home
<1>3. \A d \in {0, 1}, k \in Keys \ {j} : data'[d][k] = data[d][k]
  BY <1>1 DEF RedisTypeOK, Home
<1>4. CallOK'
  BY <1>1 DEF CallOK, NoCall
<1>5. Covered'
  BY <1>1, <1>3 DEF Covered, Fits, RedisTypeOK, Home
<1>6. OfItsType'
  BY <1>1, <1>3 DEF OfItsType, Fits, Asks, RedisTypeOK
<1> QED BY <1>2, <1>4, <1>5, <1>6

LEMMA RedisInvHolds == RedisSpec => []RedisInv
<1>1. RedisInv /\ [RedisNext]_redisVars => RedisInv'
  <2> SUFFICES ASSUME RedisInv, [RedisNext]_redisVars PROVE RedisInv'
    OBVIOUS
  <2>1. CASE UNCHANGED redisVars
    BY <2>1 DEF redisVars, RedisInv, RedisTypeOK, CallOK, Covered, OfItsType, Fits, Asks, NoCall
  <2>2. CASE RedisNext
    BY <2>2, ListKeysKeeps, WalkKeeps, WalkRefusedKeeps, DescribeKeeps, DescribeRefusedKeeps,
       TakeMoreKeeps, PageLandsKeeps, FailsKeeps, ConsoleKeeps, ChangeKeeps DEF RedisNext
  <2> QED BY <2>1, <2>2
<1> QED BY <1>1, RedisInitially, PTL DEF RedisSpec

\* A walk lists what stayed and fits, whatever the server refuses, whichever
\* calls fail and however many there are, and nothing of another type.
THEOREM WalksAreWhole == RedisSpec => []RedisWalks
<1>1. RedisInv => RedisWalks
  BY DEF RedisInv, Covered, OfItsType, FindsWhatStays, ListsOnlyItsType, RedisWalks
<1> QED BY <1>1, RedisInvHolds, PTL
-----------------------------------------------------------------------------

(***************************************************************************)
(* Redis, paging one key: the invariant says which elements are shown by   *)
(* where the cursor is, of a list by place, of a stream or a hash by id or *)
(* by bucket.                                                              *)
(***************************************************************************)
-----------------------------------------------------------------------------
KeyTypeOK ==
    /\ kind \in Kinds /\ ever \subseteq Elements /\ content \in Seq(ever)
    /\ at \in {"length", "elements", "between", "done"}
    /\ total \in Nat /\ from \in Nat /\ shown \in Seq(ever)
    /\ stayed \subseteq ever /\ slid \subseteq {"repeats", "skips"} /\ removed \in Nat

In(e, s) == \E i \in 1..Len(s) : s[i] = e
InOrder(s) == \A i, j \in 1..Len(s) : i < j => s[i] < s[j]
Unrepeated(s) == \A i, j \in 1..Len(s) : s[i] = s[j] => i = j

\* An element is in the key once, and in its place unless it is a list.
ContentOK ==
    /\ Unrepeated(content)
    /\ kind # "list" => InOrder(content)
    /\ \A e \in stayed : In(e, content)

\* Of a list whose positions never slid towards its cursor, what stayed before
\* the cursor is shown, and the length it is paged by counts all that stayed.
Unskipped ==
    kind = "list" /\ "skips" \notin slid =>
        /\ at # "done" => \A i \in 1..Len(content) :
                             i <= from /\ content[i] \in stayed => In(content[i], shown)
        /\ at = "elements" => \A i \in 1..Len(content) : content[i] \in stayed => i <= total
        /\ at = "done" => \A e \in stayed : In(e, shown)

\* Of one whose positions never slid away from it, nothing behind it is shown.
Unslid ==
    kind = "list" /\ "repeats" \notin slid =>
        /\ Unrepeated(shown)
        /\ at # "done" => \A i \in 1..Len(content) : from < i => ~In(content[i], shown)

\* Of a stream or a hash what stayed is shown up to the cursor, of a stream in
\* order and no further.
WalkOK ==
    kind # "list" =>
        /\ \A e \in stayed : at = "done" \/ e <= from => In(e, shown)
        /\ kind = "stream" => InOrder(shown)
        /\ kind = "stream" /\ at # "done" => \A i \in 1..Len(shown) : shown[i] <= from

KeyInv == KeyTypeOK /\ ContentOK /\ Unskipped /\ Unslid /\ WalkOK

LEMMA KeyInitially == KeyInit => KeyInv
<1> SUFFICES ASSUME KeyInit PROVE KeyInv
  OBVIOUS
<1>1. PICK n \in 0..MaxElements : content \in [1..n -> Elements]
  BY DEF KeyInit
<1>2. n \in Nat /\ DOMAIN content = 1..n
  BY <1>1, KeyAssumption
<1>3. content \in Seq(Elements) /\ Len(content) = n
  BY <1>1, <1>2
<1>4. /\ kind \in Kinds /\ at = "between" /\ total = 0 /\ from = 0 /\ shown = <<>>
      /\ slid = {} /\ removed = 0 /\ stayed = ever /\ ever = {content[i] : i \in 1..n}
      /\ \A i, j \in 1..n : i < j => content[i] < content[j]
  BY <1>2 DEF KeyInit, Range
<1>5. ever \subseteq Elements /\ content \in Seq(ever)
  BY <1>1, <1>2, <1>3, <1>4
<1>6. KeyTypeOK
  BY <1>4, <1>5 DEF KeyTypeOK
<1>7. \A i \in 1..n : content[i] \in Int
  BY <1>1, KeyAssumption DEF Elements
<1>8. ContentOK
  BY <1>2, <1>3, <1>4, <1>7 DEF ContentOK, Unrepeated, InOrder, In
<1>9. \A i \in 1..n : 0 < content[i]
  BY <1>1, KeyAssumption DEF Elements
<1>10. Unskipped /\ Unslid
  BY <1>2, <1>3, <1>4 DEF Unskipped, Unslid, Unrepeated, In
<1>11. WalkOK
  BY <1>2, <1>3, <1>4, <1>7, <1>9 DEF WalkOK, InOrder, In
<1> QED BY <1>6, <1>8, <1>10, <1>11 DEF KeyInv

\* Two sequences end to end hold what either does, each in its place.
LEMMA Joined ==
    ASSUME NEW S, NEW s \in Seq(S), NEW r \in Seq(S)
    PROVE  /\ s \o r \in Seq(S) /\ Len(s \o r) = Len(s) + Len(r)
           /\ \A i \in 1..Len(s) : (s \o r)[i] = s[i]
           /\ \A i \in 1..Len(r) : (s \o r)[Len(s) + i] = r[i]
           /\ \A e : In(e, s \o r) <=> In(e, s) \/ In(e, r)
<1> DEFINE b == s \o r
<1>1. /\ b \in Seq(S) /\ Len(b) = Len(s) + Len(r)
      /\ \A i \in 1..(Len(s) + Len(r)) : b[i] = IF i <= Len(s) THEN s[i] ELSE r[i - Len(s)]
  BY ConcatProperties
<1>2. Len(s) \in Nat /\ Len(r) \in Nat
  OBVIOUS
<1> HIDE DEF b
<1>3. \A i \in 1..Len(s) : b[i] = s[i]
  BY <1>1, <1>2
<1>4. ASSUME NEW i \in 1..Len(r) PROVE b[Len(s) + i] = r[i]
  <2>1. Len(s) + i \in 1..(Len(s) + Len(r)) /\ ~(Len(s) + i <= Len(s)) /\ (Len(s) + i) - Len(s) = i
    BY <1>2
  <2> QED BY <2>1, <1>1
<1>5. ASSUME NEW e, In(e, b) PROVE In(e, s) \/ In(e, r)
  <2>1. PICK i \in 1..Len(b) : b[i] = e
    BY <1>5 DEF In
  <2>2. CASE i <= Len(s)
    BY <2>1, <2>2, <1>1, <1>2, <1>3 DEF In
  <2>3. CASE ~(i <= Len(s))
    <3>1. i - Len(s) \in 1..Len(r) /\ Len(s) + (i - Len(s)) = i
      BY <2>3, <1>1, <1>2
    <3>2. r[i - Len(s)] = e
      BY <2>1, <3>1, <1>4
    <3> QED BY <3>1, <3>2 DEF In
  <2> QED BY <2>2, <2>3
<1>6. ASSUME NEW e, In(e, s) PROVE In(e, b)
  BY <1>6, <1>1, <1>2, <1>3 DEF In
<1>7. ASSUME NEW e, In(e, r) PROVE In(e, b)
  <2>1. PICK i \in 1..Len(r) : r[i] = e
    BY <1>7 DEF In
  <2>2. Len(s) + i \in 1..Len(b) /\ b[Len(s) + i] = e
    BY <2>1, <1>1, <1>2, <1>4
  <2> QED BY <2>2 DEF In
<1> QED BY <1>1, <1>3, <1>4, <1>5, <1>6, <1>7 DEF b

\* A stretch of a sequence.
LEMMA Stretched ==
    ASSUME NEW S, NEW c \in Seq(S), NEW hi \in 0..Len(c), NEW lo \in 0..hi
    PROVE  /\ SubSeq(c, lo + 1, hi) \in Seq(S) /\ Len(SubSeq(c, lo + 1, hi)) = hi - lo
           /\ \A i \in 1..(hi - lo) : SubSeq(c, lo + 1, hi)[i] = c[lo + i]
           /\ \A e : In(e, SubSeq(c, lo + 1, hi)) <=> \E i \in (lo + 1)..hi : c[i] = e
<1> DEFINE start == lo + 1
<1>0. start \in 1..(hi + 1) /\ start = lo + 1 /\ hi \in Nat /\ lo \in Nat /\ Len(c) \in Nat
  OBVIOUS
<1> DEFINE r == SubSeq(c, lo + 1, hi)
<1>1. r = SubSeq(c, start, hi)
  OBVIOUS
<1> HIDE DEF r, start
<1>2. /\ r \in Seq(S) /\ Len(r) = (hi - start) + 1
      /\ \A i \in 1..((hi - start) + 1) : r[i] = c[start + i - 1]
  BY <1>0, <1>1, SubSeqProperties
<1>3. (hi - start) + 1 = hi - lo /\ \A i \in 1..(hi - lo) : start + i - 1 = lo + i
  BY <1>0
<1>4. /\ r \in Seq(S) /\ Len(r) = hi - lo
      /\ \A i \in 1..(hi - lo) : r[i] = c[lo + i]
  BY <1>2, <1>3
<1>5. ASSUME NEW e, In(e, r) PROVE \E i \in (lo + 1)..hi : c[i] = e
  <2>1. PICK i \in 1..(hi - lo) : r[i] = e
    BY <1>5, <1>4 DEF In
  <2>2. lo + i \in (lo + 1)..hi /\ c[lo + i] = e
    BY <2>1, <1>4, <1>0
  <2> QED BY <2>2
<1>6. ASSUME NEW e, NEW i \in (lo + 1)..hi, c[i] = e PROVE In(e, r)
  <2>1. i - lo \in 1..(hi - lo) /\ lo + (i - lo) = i
    BY <1>0
  <2>2. r[i - lo] = e
    BY <2>1, <1>4, <1>6
  <2> QED BY <2>1, <2>2, <1>4 DEF In
<1> QED BY <1>4, <1>5, <1>6 DEF r

LEMMA UnrepeatedJoined ==
    ASSUME NEW S, NEW s \in Seq(S), NEW r \in Seq(S), Unrepeated(s), Unrepeated(r),
           \A i \in 1..Len(r) : ~In(r[i], s)
    PROVE  Unrepeated(s \o r)
<1> DEFINE b == s \o r
<1>1. /\ Len(b) = Len(s) + Len(r)
      /\ \A i \in 1..Len(s) : b[i] = s[i]
      /\ \A i \in 1..Len(r) : b[Len(s) + i] = r[i]
  BY Joined
<1>2. Len(s) \in Nat /\ Len(r) \in Nat
  OBVIOUS
<1> HIDE DEF b
<1>3. ASSUME NEW i \in 1..Len(b), NEW j \in 1..Len(b), b[i] = b[j], i < j PROVE FALSE
  <2>1. CASE j <= Len(s)
    BY <1>1, <1>2, <1>3, <2>1 DEF Unrepeated
  <2>2. CASE Len(s) < j
    <3>1. j - Len(s) \in 1..Len(r) /\ Len(s) + (j - Len(s)) = j
      BY <2>2, <1>1, <1>2
    <3>2. b[j] = r[j - Len(s)]
      BY <3>1, <1>1
    <3>3. CASE i <= Len(s)
      <4>1. i \in 1..Len(s) /\ s[i] = r[j - Len(s)]
        BY <3>2, <3>3, <1>1, <1>2, <1>3
      <4> QED BY <4>1, <3>1 DEF In
    <3>4. CASE Len(s) < i
      <4>1. i - Len(s) \in 1..Len(r) /\ Len(s) + (i - Len(s)) = i
        BY <3>4, <1>1, <1>2
      <4>2. b[i] = r[i - Len(s)]
        BY <4>1, <1>1
      <4>3. i - Len(s) = j - Len(s)
        BY <4>1, <4>2, <3>1, <3>2, <1>3 DEF Unrepeated
      <4> QED BY <4>3, <1>2, <1>3
    <3> QED BY <3>3, <3>4, <1>2
  <2> QED BY <2>1, <2>2, <1>1, <1>2
<1>4. ASSUME NEW i \in 1..Len(b), NEW j \in 1..Len(b), b[i] = b[j] PROVE i = j
  <2>1. ~(i < j) /\ ~(j < i)
    BY <1>3, <1>4
  <2> QED BY <2>1, <1>1, <1>2
<1> QED BY <1>4 DEF Unrepeated, b

LEMMA ReadKeeps == KeyInv /\ Read => KeyInv'
<1> SUFFICES ASSUME KeyInv, Read PROVE KeyInv'
  OBVIOUS
<1> QED BY DEF Read, world, KeyInv, KeyTypeOK, ContentOK, Unskipped, Unslid, WalkOK, Unrepeated,
       InOrder, In

LEMMA AskLengthKeeps == KeyInv /\ AskLength => KeyInv'
<1> SUFFICES ASSUME KeyInv, AskLength PROVE KeyInv'
  OBVIOUS
<1> USE DEF KeyInv
<1>1. /\ UNCHANGED <<kind, content, ever, from, shown, stayed, slid, removed>>
      /\ at = "length" /\ at' = "elements" /\ total' = Len(content)
  BY DEF AskLength, world
<1>2. KeyTypeOK' /\ ContentOK' /\ Unslid' /\ WalkOK'
  BY <1>1 DEF KeyTypeOK, ContentOK, Unslid, WalkOK, Unrepeated, InOrder, In
<1>3. Unskipped'
  BY <1>1 DEF KeyTypeOK, Unskipped, In
<1> QED BY <1>2, <1>3

LEMMA ReadListKeeps == KeyInv /\ ReadList => KeyInv'
<1> SUFFICES ASSUME KeyInv, ReadList PROVE KeyInv'
  OBVIOUS
<1> USE DEF KeyInv
<1> DEFINE end == IF from + Limit < Len(content) THEN from + Limit ELSE Len(content)
           rows == SubSeq(content, from + 1, end)
           next == from + Len(rows)
<1>1. /\ UNCHANGED <<kind, content, ever, total, stayed, slid, removed>>
      /\ kind = "list" /\ at = "elements"
      /\ shown' = shown \o rows /\ from' = next
      /\ at' = IF next < total THEN "between" ELSE "done"
  BY DEF ReadList, Page, world
<1>2. /\ from \in Nat /\ end \in 0..Len(content) /\ Len(content) \in Nat /\ total \in Nat
      /\ content \in Seq(ever) /\ shown \in Seq(ever)
      /\ end < from => end = Len(content)
  BY KeyAssumption DEF KeyTypeOK
<1> HIDE DEF end
<1>3. /\ rows \in Seq(ever) /\ Len(rows) = IF from <= end THEN end - from ELSE 0
      /\ \A i \in 1..Len(rows) : rows[i] = content[from + i]
      /\ \A e : In(e, rows) <=> \E i \in (from + 1)..end : content[i] = e
  <2>1. CASE from <= end
    <3>1. from \in 0..end
      BY <2>1, <1>2
    <3> QED BY <2>1, <3>1, <1>2, Stretched
  <2>2. CASE ~(from <= end)
    <3>1. rows = <<>>
      BY <1>2, <2>2, SubSeqEmpty
    <3>2. Len(<<>>) = 0 /\ <<>> \in Seq(ever)
      OBVIOUS
    <3>3. \A i \in (from + 1)..end : FALSE
      BY <2>2, <1>2
    <3> HIDE DEF rows
    <3> QED BY <2>2, <3>1, <3>2, <3>3 DEF In
  <2> QED BY <2>1, <2>2
<1> HIDE DEF rows
<1>4. /\ next \in Nat /\ from <= next /\ end <= next
      /\ \A i \in 1..Len(content) : i <= next <=> i <= from \/ i \in (from + 1)..end
  BY <1>2, <1>3
<1> HIDE DEF next
<1>5. shown' \in Seq(ever) /\ \A e : In(e, shown') <=> In(e, shown) \/ In(e, rows)
  BY <1>1, <1>2, <1>3, Joined
<1>6. KeyTypeOK' /\ ContentOK' /\ WalkOK'
  BY <1>1, <1>4, <1>5 DEF KeyTypeOK, ContentOK, WalkOK, Unrepeated, InOrder, In
<1>7. ASSUME "skips" \notin slid PROVE Unskipped'
  <2>1. ASSUME NEW i \in 1..Len(content), i <= next, content[i] \in stayed
        PROVE  In(content[i], shown')
    <3>1. CASE i <= from
      BY <2>1, <3>1, <1>1, <1>5, <1>7 DEF Unskipped
    <3>2. CASE i \in (from + 1)..end
      BY <3>2, <1>3, <1>5
    <3> QED BY <2>1, <3>1, <3>2, <1>4
  <2>2. ASSUME ~(next < total), NEW e \in stayed PROVE In(e, shown')
    <3>1. PICK i \in 1..Len(content) : content[i] = e
      BY DEF ContentOK, In
    <3>2. i <= total
      BY <3>1, <1>1, <1>7 DEF Unskipped
    <3>3. i <= next
      BY <2>2, <3>2, <1>2, <1>4
    <3> QED BY <2>1, <3>1, <3>3
  <2> QED BY <2>1, <2>2, <1>1 DEF Unskipped
<1>8. ASSUME "repeats" \notin slid PROVE Unslid'
  <2>1. Unrepeated(shown) /\ \A i \in 1..Len(content) : from < i => ~In(content[i], shown)
    BY <1>8, <1>1 DEF Unslid
  <2>2. \A i \in 1..Len(rows) : from + i \in 1..Len(content) /\ from < from + i
    BY <1>2, <1>3
  <2>3. Unrepeated(rows)
    BY <2>2, <1>2, <1>3 DEF ContentOK, Unrepeated
  <2>4. \A i \in 1..Len(rows) : ~In(rows[i], shown)
    BY <2>1, <2>2, <1>3
  <2>5. Unrepeated(shown')
    BY <2>1, <2>3, <2>4, <1>1, <1>2, <1>3, UnrepeatedJoined
  <2>6. ASSUME NEW i \in 1..Len(content), next < i, In(content[i], shown') PROVE FALSE
    <3>1. ~In(content[i], shown)
      BY <2>1, <2>6, <1>2, <1>4
    <3>2. PICK k \in (from + 1)..end : content[k] = content[i]
      BY <2>6, <3>1, <1>3, <1>5
    <3>3. k \in 1..Len(content) /\ k <= next
      BY <1>2, <1>4
    <3>4. k = i
      BY <3>2, <3>3 DEF ContentOK, Unrepeated
    <3> QED BY <3>3, <3>4, <2>6, <1>4
  <2> QED BY <2>5, <2>6, <1>1 DEF Unslid
<1>9. Unskipped' /\ Unslid'
  BY <1>7, <1>8, <1>1 DEF Unskipped, Unslid
<1> QED BY <1>6, <1>9

\* A page that shows all that stayed behind the cursor up to the next one, of a
\* stream in order and no more.
LEMMA PageKeeps ==
    ASSUME KeyInv, kind # "list", at # "done",
           NEW rows \in Seq(ever), NEW more \in BOOLEAN, NEW next \in Nat,
           Page(rows, more, next),
           \A e \in stayed : e <= from \/ In(e, rows) \/ (more /\ ~(e <= next)),
           kind = "stream" => /\ InOrder(rows) /\ (more => from <= next)
                              /\ \A i \in 1..Len(rows) : from < rows[i] /\ (more => rows[i] <= next)
    PROVE  KeyInv'
<1> USE DEF KeyInv
<1>1. /\ UNCHANGED <<kind, content, ever, stayed, slid, removed, total>>
      /\ shown' = shown \o rows
      /\ from' = next /\ at' = IF more THEN "between" ELSE "done"
  BY DEF Page, world
<1>2. shown \in Seq(ever) /\ from \in Nat /\ ever \subseteq Nat
  BY KeyAssumption DEF KeyTypeOK, Elements
<1>3. /\ shown' \in Seq(ever) /\ Len(shown') = Len(shown) + Len(rows)
      /\ \A i \in 1..Len(shown) : shown'[i] = shown[i]
      /\ \A i \in 1..Len(rows) : shown'[Len(shown) + i] = rows[i]
      /\ \A e : In(e, shown') <=> In(e, shown) \/ In(e, rows)
  BY <1>1, <1>2, Joined
<1>4. KeyTypeOK' /\ ContentOK' /\ Unskipped' /\ Unslid'
  BY <1>1, <1>3 DEF KeyTypeOK, ContentOK, Unskipped, Unslid, Unrepeated, InOrder, In
<1>5. ASSUME NEW e \in stayed, ~more \/ e <= next PROVE In(e, shown')
  BY <1>3, <1>5 DEF WalkOK
<1>6. ASSUME kind = "stream" PROVE InOrder(shown') /\ (more => \A i \in 1..Len(shown') : shown'[i] <= next)
  <2>1. /\ InOrder(rows) /\ (more => from <= next)
        /\ \A i \in 1..Len(rows) : from < rows[i] /\ (more => rows[i] <= next)
        /\ InOrder(shown) /\ \A i \in 1..Len(shown) : shown[i] <= from
    BY <1>6 DEF WalkOK
  <2>2. Len(shown) \in Nat /\ Len(rows) \in Nat
    BY <1>2
  <2>3. /\ \A i \in 1..Len(shown) : shown[i] \in Nat
        /\ \A i \in 1..Len(rows) : rows[i] \in Nat
    <3>1. /\ \A i \in 1..Len(shown) : shown[i] \in ever
          /\ \A i \in 1..Len(rows) : rows[i] \in ever
      BY <1>2
    <3> QED BY <3>1, <1>2
  <2>4. ASSUME NEW i \in 1..Len(shown'), Len(shown) < i
        PROVE  i - Len(shown) \in 1..Len(rows) /\ shown'[i] = rows[i - Len(shown)]
    <3>1. i - Len(shown) \in 1..Len(rows) /\ Len(shown) + (i - Len(shown)) = i
      BY <2>2, <2>4, <1>3
    <3> QED BY <3>1, <1>3
  <2>5. ASSUME NEW i \in 1..Len(shown'), NEW j \in 1..Len(shown'), i < j
        PROVE  shown'[i] < shown'[j]
    <3>1. CASE j <= Len(shown)
      <4>1. i \in 1..Len(shown) /\ j \in 1..Len(shown)
        BY <3>1, <2>2, <2>5, <1>3
      <4> QED BY <4>1, <2>1, <2>5, <1>3 DEF InOrder
    <3>2. CASE i <= Len(shown) /\ Len(shown) < j
      <4>1. i \in 1..Len(shown) /\ shown'[i] = shown[i] /\ shown[i] <= from
        BY <3>2, <2>1, <2>2, <1>3
      <4>2. from < shown'[j] /\ shown'[j] \in Nat
        BY <3>2, <2>1, <2>3, <2>4
      <4> QED BY <4>1, <4>2, <2>3, <1>2
    <3>3. CASE Len(shown) < i
      <4>1. Len(shown) < j /\ i - Len(shown) < j - Len(shown)
        BY <3>3, <2>2, <2>5, <1>3
      <4> QED BY <3>3, <4>1, <2>1, <2>4 DEF InOrder
    <3> QED BY <3>1, <3>2, <3>3, <2>2, <1>3
  <2>6. ASSUME more, NEW i \in 1..Len(shown') PROVE shown'[i] <= next
    <3>1. CASE i <= Len(shown)
      <4>1. i \in 1..Len(shown) /\ shown[i] <= from /\ from <= next
        BY <3>1, <2>1, <2>2, <2>6, <1>3
      <4> QED BY <4>1, <2>3, <1>2, <1>3
    <3>2. CASE Len(shown) < i
      BY <3>2, <2>1, <2>4, <2>6
    <3> QED BY <3>1, <3>2, <2>2, <1>3
  <2> QED BY <2>5, <2>6 DEF InOrder
<1>7. WalkOK'
  BY <1>1, <1>5, <1>6 DEF WalkOK
<1> QED BY <1>4, <1>7

LEMMA ReadStreamKeeps == KeyInv /\ ReadStream => KeyInv'
<1> SUFFICES ASSUME KeyInv, ReadStream PROVE KeyInv'
  OBVIOUS
<1> USE DEF KeyInv
<1>1. /\ Len(content) \in Nat /\ from \in Nat /\ kind = "stream" /\ at = "elements"
      /\ content \in Seq(ever) /\ ever \subseteq Nat /\ Limit \in Nat \ {0}
  BY KeyAssumption DEF KeyTypeOK, ReadStream, Elements
<1>2. PICK seen \in UpToElement(from) :
        LET end == IF seen + Limit < Len(content) THEN seen + Limit ELSE Len(content)
        IN Page(SubSeq(content, seen + 1, end), end - seen = Limit,
                IF end = seen THEN from ELSE content[end])
  BY DEF ReadStream
<1> DEFINE end == IF seen + Limit < Len(content) THEN seen + Limit ELSE Len(content)
           next == IF end = seen THEN from ELSE content[end]
           more == end - seen = Limit
           rows == SubSeq(content, seen + 1, end)
<1>3. seen \in 0..Len(content) /\ \A i \in 1..Len(content) : i <= seen <=> content[i] <= from
  BY <1>2 DEF UpToElement
<1>4. /\ end \in 0..Len(content) /\ seen \in 0..end /\ more \in BOOLEAN
      /\ more => end # seen
      /\ ~more => end = Len(content)
  BY <1>1, <1>3
<1>5. Page(rows, more, next)
  BY <1>2
<1> HIDE DEF end, more
<1>6. \A i \in 1..Len(content) : content[i] \in Nat /\ content[i] \in ever
  <2>1. \A i \in 1..Len(content) : content[i] \in ever
    BY <1>1
  <2> QED BY <2>1, <1>1
<1>7. \A i, j \in 1..Len(content) : i < j => content[i] < content[j]
  BY <1>1 DEF ContentOK, InOrder
<1>8. /\ rows \in Seq(ever) /\ Len(rows) = end - seen
      /\ \A i \in 1..(end - seen) : rows[i] = content[seen + i]
      /\ \A e : In(e, rows) <=> \E i \in (seen + 1)..end : content[i] = e
  BY <1>1, <1>4, Stretched
<1> HIDE DEF rows
<1>9. end # seen => end \in 1..Len(content)
  BY <1>4
<1>10. next \in Nat
  BY <1>1, <1>6, <1>9
<1>11. \A i \in 1..(end - seen) : seen + i \in 1..Len(content) /\ ~(seen + i <= seen) /\ seen + i <= end
  BY <1>3, <1>4
<1>12. more => from <= next
  BY <1>1, <1>3, <1>4, <1>6, <1>9
<1>13. InOrder(rows)
  BY <1>3, <1>4, <1>7, <1>8, <1>11 DEF InOrder
<1>14. ASSUME NEW i \in 1..Len(rows) PROVE from < rows[i] /\ (more => rows[i] <= next)
  <2>1. rows[i] = content[seen + i] /\ seen + i \in 1..Len(content) /\ ~(seen + i <= seen) /\ seen + i <= end
    BY <1>8, <1>11
  <2>2. from < rows[i]
    <3>1. ~(content[seen + i] <= from)
      BY <2>1, <1>3
    <3>2. content[seen + i] \in Nat
      BY <2>1, <1>6
    <3> QED BY <2>1, <3>1, <3>2, <1>1
  <2>3. end # seen
    BY <1>4, <1>8
  <2>4. seen + i = end \/ seen + i < end
    BY <2>1, <1>4
  <2>5. content[seen + i] <= content[end]
    BY <2>1, <2>3, <2>4, <1>6, <1>7, <1>9
  <2> QED BY <2>1, <2>2, <2>3, <2>5
<1>15. ASSUME NEW e \in stayed PROVE e <= from \/ In(e, rows) \/ (more /\ ~(e <= next))
  <2>1. PICK k \in 1..Len(content) : content[k] = e
    BY DEF ContentOK, In
  <2>2. CASE k <= seen
    BY <2>1, <2>2, <1>3
  <2>3. CASE k \in (seen + 1)..end
    BY <2>1, <2>3, <1>8
  <2>4. CASE end < k
    <3>1. more /\ end # seen
      BY <2>4, <1>1, <1>4
    <3>2. content[end] < content[k]
      BY <3>1, <2>4, <1>7, <1>9
    <3> QED BY <3>1, <3>2, <2>1, <1>6, <1>9
  <2> QED BY <2>2, <2>3, <2>4, <1>3, <1>4
<1> HIDE DEF next
<1> QED BY <1>1, <1>4, <1>5, <1>8, <1>10, <1>12, <1>13, <1>14, <1>15, PageKeeps

LEMMA ReadHashKeeps == KeyInv /\ ReadHash => KeyInv'
<1> SUFFICES ASSUME KeyInv, ReadHash PROVE KeyInv'
  OBVIOUS
<1> USE DEF KeyInv
<1>1. /\ Len(content) \in Nat /\ from \in Nat /\ kind = "hash" /\ at = "elements"
      /\ content \in Seq(ever) /\ ever \subseteq Elements /\ MaxElements \in Nat
  BY KeyAssumption DEF KeyTypeOK, ReadHash
<1>2. \A i \in 1..Len(content) : content[i] \in ever
  BY <1>1
<1>3. CASE from = 0 /\ total <= Limit
  <2>1. Page(content, FALSE, 0)
    BY <1>3 DEF ReadHash
  <2>2. \A e \in stayed : In(e, content)
    BY DEF ContentOK
  <2> QED BY <2>1, <2>2, <1>1, PageKeeps
<1>4. CASE ~(from = 0 /\ total <= Limit)
  <2>1. PICK bucket \in (from + 1)..MaxElements : \E seen \in UpToElement(from), end \in UpToElement(bucket) :
           \E again \in {<<>>} \cup {<<content[i]>> : i \in 1..seen} :
             Page(SubSeq(content, seen + 1, end) \o again, bucket < MaxElements,
                  IF bucket < MaxElements THEN bucket ELSE 0)
    BY <1>4 DEF ReadHash
  <2>2. PICK seen \in UpToElement(from), end \in UpToElement(bucket) :
           \E again \in {<<>>} \cup {<<content[i]>> : i \in 1..seen} :
             Page(SubSeq(content, seen + 1, end) \o again, bucket < MaxElements,
                  IF bucket < MaxElements THEN bucket ELSE 0)
    BY <2>1
  <2>3. PICK again \in {<<>>} \cup {<<content[i]>> : i \in 1..seen} :
             Page(SubSeq(content, seen + 1, end) \o again, bucket < MaxElements,
                  IF bucket < MaxElements THEN bucket ELSE 0)
    BY <2>2
  <2>4. /\ seen \in 0..Len(content) /\ \A i \in 1..Len(content) : i <= seen <=> content[i] <= from
        /\ end \in 0..Len(content) /\ \A i \in 1..Len(content) : i <= end <=> content[i] <= bucket
    BY <2>2 DEF UpToElement
  <2>5. seen \in 0..end
    <3>1. CASE seen = 0
      BY <3>1, <2>4, <1>1
    <3>2. CASE seen # 0
      <4>1. seen \in 1..Len(content) /\ content[seen] <= from
        BY <3>2, <2>4, <1>1
      <4>2. content[seen] \in Nat
        <5>1. content[seen] \in Elements
          BY <4>1, <1>1, <1>2
        <5> QED BY <5>1, <1>1 DEF Elements
      <4>3. content[seen] <= bucket
        BY <4>1, <4>2, <2>1, <1>1
      <4> QED BY <4>1, <4>3, <2>4, <1>1
    <3> QED BY <3>1, <3>2
  <2>6. again \in Seq(ever)
    <3>1. CASE again = <<>>
      BY <3>1
    <3>2. CASE again # <<>>
      <4>1. PICK i \in 1..seen : again = <<content[i]>>
        BY <3>2, <2>3
      <4>2. content[i] \in ever
        BY <2>4, <1>1, <1>2
      <4> QED BY <4>1, <4>2
    <3> QED BY <3>1, <3>2
  <2> DEFINE stretch == SubSeq(content, seen + 1, end)
             rows == stretch \o again
             more == bucket < MaxElements
             next == IF bucket < MaxElements THEN bucket ELSE 0
  <2>7. /\ stretch \in Seq(ever)
        /\ \A e : In(e, stretch) <=> \E i \in (seen + 1)..end : content[i] = e
    BY <2>4, <2>5, <1>1, Stretched
  <2>8. next \in Nat /\ more \in BOOLEAN
    BY <2>1, <1>1
  <2>9. Page(rows, more, next)
    BY <2>3
  <2> HIDE DEF stretch
  <2>10. rows \in Seq(ever) /\ \A e : In(e, stretch) => In(e, rows)
    BY <2>6, <2>7, Joined
  <2>11. ASSUME NEW e \in stayed PROVE e <= from \/ In(e, rows) \/ (more /\ ~(e <= next))
    <3>1. PICK k \in 1..Len(content) : content[k] = e
      BY DEF ContentOK, In
    <3>2. CASE k <= seen
      BY <3>1, <3>2, <2>4
    <3>3. CASE k \in (seen + 1)..end
      BY <3>1, <3>3, <2>7, <2>10
    <3>4. CASE end < k
      <4>1. ~(e <= bucket)
        BY <3>1, <3>4, <2>4, <1>1
      <4>2. e \in 1..MaxElements
        BY <3>1, <1>1, <1>2 DEF Elements
      <4> QED BY <4>1, <4>2, <2>1, <1>1
    <3> QED BY <3>2, <3>3, <3>4, <2>4
  <2> HIDE DEF rows, more, next
  <2> QED BY <2>8, <2>9, <2>10, <2>11, <1>1, PageKeeps
<1> QED BY <1>3, <1>4

\* What InsertAt and RemoveAt leave where.
LEMMA Inserted ==
    ASSUME NEW S, NEW c \in Seq(S), NEW e \in S, NEW i \in 1..(Len(c) + 1)
    PROVE  /\ InsertAt(c, i, e) \in Seq(S) /\ Len(InsertAt(c, i, e)) = Len(c) + 1
           /\ InsertAt(c, i, e)[i] = e
           /\ \A k \in 1..Len(c) : k < i => InsertAt(c, i, e)[k] = c[k]
           /\ \A k \in 1..Len(c) : ~(k < i) => InsertAt(c, i, e)[k + 1] = c[k]
<1> DEFINE lo == i - 1
           a == SubSeq(c, 0 + 1, lo)
           z == SubSeq(c, lo + 1, Len(c))
           m == a \o <<e>>
<1>1. /\ lo \in Nat /\ lo \in 0..Len(c) /\ Len(c) \in Nat /\ i = lo + 1 /\ 0 \in 0..lo
      /\ Len(c) \in 0..Len(c)
  OBVIOUS
<1>2. InsertAt(c, i, e) = m \o z
  <2>1. a = SubSeq(c, 1, i - 1) /\ z = SubSeq(c, i, Len(c))
    BY <1>1
  <2> HIDE DEF a, z
  <2> QED BY <2>1 DEF InsertAt
<1> HIDE DEF lo
<1>3. /\ a \in Seq(S) /\ Len(a) = lo - 0
      /\ \A k \in 1..(lo - 0) : a[k] = c[0 + k]
  BY <1>1, Stretched
<1>4. /\ z \in Seq(S) /\ Len(z) = Len(c) - lo
      /\ \A k \in 1..(Len(c) - lo) : z[k] = c[lo + k]
  BY <1>1, Stretched
<1> HIDE DEF a, z
<1>5. <<e>> \in Seq(S) /\ Len(<<e>>) = 1 /\ <<e>>[1] = e
  OBVIOUS
<1>6. /\ m \in Seq(S) /\ Len(m) = Len(a) + 1
      /\ \A k \in 1..Len(a) : m[k] = a[k]
      /\ \A k \in 1..1 : m[Len(a) + k] = <<e>>[k]
  BY <1>3, <1>5, Joined
<1> HIDE DEF m
<1>7. /\ m \o z \in Seq(S) /\ Len(m \o z) = Len(m) + Len(z)
      /\ \A k \in 1..Len(m) : (m \o z)[k] = m[k]
      /\ \A k \in 1..Len(z) : (m \o z)[Len(m) + k] = z[k]
  <2>1. m \in Seq(S) /\ z \in Seq(S)
    BY <1>4, <1>6
  <2> QED BY <2>1, Joined
<1>8. Len(m) = i /\ Len(a) = lo /\ Len(m) + Len(z) = Len(c) + 1
  BY <1>1, <1>3, <1>4, <1>6
<1>9. m[i] = e
  BY <1>1, <1>5, <1>6, <1>8
<1>10. (m \o z)[i] = e
  BY <1>1, <1>7, <1>8, <1>9
<1>11. ASSUME NEW k \in 1..Len(c), k < i PROVE (m \o z)[k] = c[k]
  <2>1. k \in 1..lo /\ k \in 1..Len(m) /\ 0 + k = k /\ lo - 0 = lo
    BY <1>1, <1>8, <1>11
  <2> QED BY <2>1, <1>3, <1>6, <1>7, <1>8
<1>12. ASSUME NEW k \in 1..Len(c), ~(k < i) PROVE (m \o z)[k + 1] = c[k]
  <2>1. k - lo \in 1..(Len(c) - lo) /\ Len(m) + (k - lo) = k + 1 /\ lo + (k - lo) = k
    BY <1>1, <1>8, <1>12
  <2>2. (m \o z)[Len(m) + (k - lo)] = z[k - lo]
    BY <2>1, <1>4, <1>7
  <2>3. z[k - lo] = c[lo + (k - lo)]
    BY <2>1, <1>4
  <2> QED BY <2>1, <2>2, <2>3
<1> QED BY <1>2, <1>7, <1>8, <1>10, <1>11, <1>12

LEMMA TakenOut ==
    ASSUME NEW S, NEW c \in Seq(S), NEW n \in 1..Len(c)
    PROVE  /\ RemoveAt(c, n) \in Seq(S) /\ Len(RemoveAt(c, n)) = Len(c) - 1
           /\ \A k \in 1..(Len(c) - 1) : RemoveAt(c, n)[k] = IF k < n THEN c[k] ELSE c[k + 1]
<1> DEFINE lo == n - 1
           a == SubSeq(c, 0 + 1, lo)
           z == SubSeq(c, n + 1, Len(c))
<1>1. /\ lo \in Nat /\ lo \in 0..Len(c) /\ Len(c) \in Nat /\ n = lo + 1 /\ 0 \in 0..lo
      /\ Len(c) \in 0..Len(c) /\ n \in 0..Len(c)
  OBVIOUS
<1>2. RemoveAt(c, n) = a \o z
  BY <1>1 DEF RemoveAt
<1> HIDE DEF lo
<1>3. /\ a \in Seq(S) /\ Len(a) = lo - 0
      /\ \A k \in 1..(lo - 0) : a[k] = c[0 + k]
  BY <1>1, Stretched
<1>4. /\ z \in Seq(S) /\ Len(z) = Len(c) - n
      /\ \A k \in 1..(Len(c) - n) : z[k] = c[n + k]
  BY <1>1, Stretched
<1> HIDE DEF a, z
<1>5. /\ a \o z \in Seq(S) /\ Len(a \o z) = Len(a) + Len(z)
      /\ \A k \in 1..Len(a) : (a \o z)[k] = a[k]
      /\ \A k \in 1..Len(z) : (a \o z)[Len(a) + k] = z[k]
  <2>1. a \in Seq(S) /\ z \in Seq(S)
    BY <1>3, <1>4
  <2> QED BY <2>1, Joined
<1>6. Len(a) = lo /\ Len(a) + Len(z) = Len(c) - 1
  BY <1>1, <1>3, <1>4
<1>7. ASSUME NEW k \in 1..(Len(c) - 1) PROVE (a \o z)[k] = IF k < n THEN c[k] ELSE c[k + 1]
  <2>1. CASE k < n
    <3>1. k \in 1..lo /\ 0 + k = k /\ lo - 0 = lo
      BY <2>1, <1>1
    <3> QED BY <2>1, <3>1, <1>3, <1>5, <1>6
  <2>2. CASE ~(k < n)
    <3>1. k - lo \in 1..(Len(c) - n) /\ Len(a) + (k - lo) = k /\ n + (k - lo) = k + 1
      BY <2>2, <1>1, <1>6
    <3>2. (a \o z)[Len(a) + (k - lo)] = z[k - lo]
      BY <3>1, <1>4, <1>5
    <3>3. z[k - lo] = c[n + (k - lo)]
      BY <3>1, <1>4
    <3> QED BY <2>2, <3>1, <3>2, <3>3
  <2> QED BY <2>1, <2>2
<1> QED BY <1>2, <1>5, <1>6, <1>7

LEMMA PutKeeps ==
    ASSUME KeyInv, NEW e \in Elements, NEW i \in 1..(Len(content) + 1), Put(e, i)
    PROVE  KeyInv'
<1> USE DEF KeyInv
<1>1. /\ UNCHANGED <<kind, at, total, from, shown, stayed, removed>>
      /\ e \notin ever /\ ever' = ever \cup {e} /\ content' = InsertAt(content, i, e)
      /\ slid \subseteq slid' /\ slid' \subseteq slid \cup {"repeats", "skips"}
      /\ kind = "list" /\ i <= from => "repeats" \in slid'
      /\ kind = "list" /\ at = "elements" /\ i <= Len(content) => "skips" \in slid'
      /\ kind # "list" => \A j \in 1..Len(content) : j < i <=> content[j] < e
  BY DEF Put
<1>2. /\ content \in Seq(ever') /\ shown \in Seq(ever') /\ content \in Seq(ever) /\ shown \in Seq(ever)
      /\ Len(content) \in Nat /\ ever \subseteq Elements /\ stayed \subseteq ever /\ from \in Nat
      /\ total \in Nat
  BY <1>1 DEF KeyTypeOK
<1>3. /\ content' \in Seq(ever') /\ Len(content') = Len(content) + 1
      /\ content'[i] = e
      /\ \A k \in 1..Len(content) : k < i => content'[k] = content[k]
      /\ \A k \in 1..Len(content) : ~(k < i) => content'[k + 1] = content[k]
  <2> DEFINE T == ever \cup {e}
  <2>1. T = ever' /\ e \in T /\ content \in Seq(T) /\ i \in 1..(Len(content) + 1)
    BY <1>1, <1>2
  <2> HIDE DEF T
  <2>2. InsertAt(content, i, e) \in Seq(T) /\ Len(InsertAt(content, i, e)) = Len(content) + 1
    BY <2>1, Inserted
  <2>3. InsertAt(content, i, e)[i] = e
    BY <2>1, Inserted
  <2>4. \A k \in 1..Len(content) : k < i => InsertAt(content, i, e)[k] = content[k]
    BY <2>1, Inserted
  <2>5. \A k \in 1..Len(content) : ~(k < i) => InsertAt(content, i, e)[k + 1] = content[k]
    BY <2>1, Inserted
  <2> QED BY <2>1, <2>2, <2>3, <2>4, <2>5, <1>1
<1>4. KeyTypeOK'
  BY <1>1, <1>2, <1>3 DEF KeyTypeOK
<1>5. /\ \A k \in 1..Len(content) : content[k] \in ever /\ content[k] # e
      /\ \A k \in 1..Len(shown) : shown[k] \in ever /\ shown[k] # e
  BY <1>1, <1>2
<1>6. ASSUME NEW k \in 1..Len(content')
      PROVE  \/ k = i /\ content'[k] = e
             \/ k < i /\ k \in 1..Len(content) /\ content'[k] = content[k]
             \/ /\ i < k /\ k - 1 \in 1..Len(content) /\ ~(k - 1 < i) /\ content'[k] = content[k - 1]
  <2>1. CASE k < i
    BY <2>1, <1>2, <1>3
  <2>2. CASE i < k
    <3>1. k - 1 \in 1..Len(content) /\ ~(k - 1 < i) /\ (k - 1) + 1 = k
      BY <2>2, <1>2, <1>3
    <3> QED BY <2>2, <3>1, <1>3
  <2> QED BY <2>1, <2>2, <1>2, <1>3
<1>7. ContentOK'
  <2>1. Unrepeated(content')
    <3> SUFFICES ASSUME NEW k \in 1..Len(content'), NEW j \in 1..Len(content'), content'[k] = content'[j], k < j
                 PROVE  FALSE
      <4>1. Len(content') \in Nat
        BY <1>2, <1>3
      <4> QED BY <4>1 DEF Unrepeated
    <3> DEFINE p == IF k < i THEN k ELSE k - 1
               q == IF j < i THEN j ELSE j - 1
    <3>1. CASE k # i /\ j # i
      <4>1. /\ p \in 1..Len(content) /\ q \in 1..Len(content)
            /\ content'[k] = content[p] /\ content'[j] = content[q]
        BY <3>1, <1>2, <1>6
      <4>2. p < q
        BY <3>1, <1>2, <1>3
      <4> HIDE DEF p, q
      <4>3. p = q
        BY <4>1 DEF ContentOK, Unrepeated
      <4> QED BY <4>1, <4>2, <4>3, <1>2
    <3>2. CASE k = i
      <4>1. content'[k] = e /\ i < j
        BY <3>2, <1>3
      <4>2. ~(j < i) /\ j # i
        BY <4>1, <1>3
      <4>3. j - 1 \in 1..Len(content) /\ content'[j] = content[j - 1]
        BY <4>2, <1>6
      <4> QED BY <4>1, <4>3, <1>5
    <3>3. CASE j = i
      <4>1. content'[j] = e /\ k \in 1..Len(content) /\ content'[k] = content[k]
        BY <3>3, <1>2, <1>3, <1>6
      <4> QED BY <4>1, <1>5
    <3> QED BY <3>1, <3>2, <3>3
  <2>2. ASSUME kind # "list", NEW k \in 1..Len(content'), NEW j \in 1..Len(content'), k < j
        PROVE  content'[k] < content'[j]
    <3> DEFINE p == IF k < i THEN k ELSE k - 1
               q == IF j < i THEN j ELSE j - 1
    <3>1. CASE k # i /\ j # i
      <4>1. /\ p \in 1..Len(content) /\ q \in 1..Len(content)
            /\ content'[k] = content[p] /\ content'[j] = content[q]
        BY <3>1, <1>2, <1>6
      <4>2. p < q
        BY <3>1, <2>2, <1>2, <1>3
      <4> QED BY <4>1, <4>2, <2>2, <1>2 DEF ContentOK, InOrder
    <3>2. CASE k = i
      <4>1. /\ content'[k] = e /\ j - 1 \in 1..Len(content) /\ content'[j] = content[j - 1]
            /\ ~(j - 1 < i)
        BY <3>2, <2>2, <1>2, <1>3, <1>6
      <4>2. ~(content[j - 1] < e) /\ content[j - 1] # e
        BY <4>1, <2>2, <1>1, <1>5
      <4>3. content[j - 1] \in Elements /\ e \in Elements
        BY <4>1, <1>2, <1>5
      <4>4. \A x, y \in Elements : ~(y < x) /\ y # x => x < y
        BY KeyAssumption DEF Elements
      <4> QED BY <4>1, <4>2, <4>3, <4>4
    <3>3. CASE j = i
      <4>1. content'[j] = e /\ k \in 1..Len(content) /\ content'[k] = content[k]
        BY <3>3, <2>2, <1>2, <1>3, <1>6
      <4> QED BY <4>1, <3>3, <2>2, <1>1
    <3> QED BY <3>1, <3>2, <3>3
  <2>3. ASSUME NEW d \in stayed PROVE In(d, content')
    <3>1. PICK k \in 1..Len(content) : content[k] = d
      BY DEF ContentOK, In
    <3>2. CASE k < i
      <4>1. k \in 1..Len(content')
        BY <1>2, <1>3
      <4> QED BY <4>1, <3>1, <3>2, <1>3 DEF In
    <3>3. CASE ~(k < i)
      <4>1. k + 1 \in 1..Len(content')
        BY <1>2, <1>3
      <4> QED BY <4>1, <3>1, <3>3, <1>3 DEF In
    <3> QED BY <3>2, <3>3
  <2>4. kind' # "list" => InOrder(content')
    BY <2>2, <1>1 DEF InOrder
  <2>5. \A d \in stayed' : In(d, content')
    BY <2>3, <1>1
  <2>6. Unrepeated(content')
    BY <2>1
  <2> QED BY <2>4, <2>5, <2>6 DEF ContentOK, Unrepeated, InOrder, In
<1>8. e \notin stayed
  BY <1>1, <1>2
<1>9. Unskipped'
  <2> SUFFICES ASSUME kind = "list", "skips" \notin slid'
               PROVE  /\ at # "done" => \A k \in 1..Len(content') :
                            k <= from /\ content'[k] \in stayed => In(content'[k], shown)
                      /\ at = "elements" => \A k \in 1..Len(content') : content'[k] \in stayed => k <= total
                      /\ at = "done" => \A d \in stayed : In(d, shown)
    BY <1>1 DEF Unskipped, In
  <2>1. "skips" \notin slid
    BY <1>1
  <2>2. ASSUME at # "done", NEW k \in 1..Len(content'), k <= from, content'[k] \in stayed
        PROVE  In(content'[k], shown)
    <3>1. CASE k < i
      <4>1. k \in 1..Len(content) /\ content'[k] = content[k]
        BY <3>1, <1>6
      <4> QED BY <4>1, <2>1, <2>2 DEF Unskipped
    <3>2. CASE i < k
      <4>1. k - 1 \in 1..Len(content) /\ content'[k] = content[k - 1] /\ k - 1 <= from
        BY <3>2, <2>2, <1>2, <1>6
      <4> QED BY <4>1, <2>1, <2>2 DEF Unskipped
    <3>3. k # i
      BY <2>2, <1>3, <1>8
    <3> QED BY <3>1, <3>2, <3>3
  <2>3. ASSUME at = "elements", NEW k \in 1..Len(content'), content'[k] \in stayed
        PROVE  k <= total
    <3>1. i = Len(content) + 1
      BY <2>3, <1>1, <1>2
    <3>2. k \in 1..Len(content) /\ content'[k] = content[k]
      BY <3>1, <2>3, <1>2, <1>3, <1>6, <1>8
    <3> QED BY <3>2, <2>1, <2>3 DEF Unskipped
  <2>4. at = "done" => \A d \in stayed : In(d, shown)
    BY <2>1 DEF Unskipped
  <2> QED BY <2>2, <2>3, <2>4
<1>10. Unslid'
  <2> SUFFICES ASSUME kind = "list", "repeats" \notin slid'
               PROVE  /\ Unrepeated(shown)
                      /\ at # "done" => \A k \in 1..Len(content') : from < k => ~In(content'[k], shown)
    BY <1>1 DEF Unslid, Unrepeated, In
  <2>1. "repeats" \notin slid /\ ~(i <= from)
    BY <1>1
  <2>2. ASSUME at # "done", NEW k \in 1..Len(content'), from < k PROVE ~In(content'[k], shown)
    <3>1. CASE k = i
      BY <3>1, <1>3, <1>5 DEF In
    <3>2. CASE k < i
      <4>1. k \in 1..Len(content) /\ content'[k] = content[k]
        BY <3>2, <1>6
      <4> QED BY <4>1, <2>1, <2>2 DEF Unslid
    <3>3. CASE i < k
      <4>1. k - 1 \in 1..Len(content) /\ content'[k] = content[k - 1] /\ from < k - 1
        BY <3>3, <2>1, <1>2, <1>3, <1>6
      <4> QED BY <4>1, <2>1, <2>2 DEF Unslid
    <3> QED BY <3>1, <3>2, <3>3, <1>2, <1>3
  <2> QED BY <2>1, <2>2 DEF Unslid
<1>11. WalkOK'
  BY <1>1 DEF WalkOK, InOrder, In
<1> QED BY <1>4, <1>7, <1>9, <1>10, <1>11

LEMMA WithdrawKeeps ==
    ASSUME KeyInv, NEW n \in 1..Len(content), Withdraw(n)
    PROVE  KeyInv'
<1> USE DEF KeyInv
<1>1. /\ UNCHANGED <<kind, ever, at, total, from, shown>>
      /\ removed' = removed + 1 /\ content' = RemoveAt(content, n) /\ stayed' = stayed \ {content[n]}
      /\ slid \subseteq slid' /\ slid' \subseteq slid \cup {"repeats", "skips"}
      /\ kind = "list" /\ n <= from => "skips" \in slid'
  BY DEF Withdraw
<1>2. /\ content \in Seq(ever) /\ Len(content) \in Nat /\ n \in 1..Len(content)
      /\ from \in Nat /\ total \in Nat
  BY DEF KeyTypeOK
<1>3. /\ content' \in Seq(ever) /\ Len(content') = Len(content) - 1
      /\ \A k \in 1..(Len(content) - 1) : content'[k] = IF k < n THEN content[k] ELSE content[k + 1]
  BY <1>1, <1>2, TakenOut
<1>4. KeyTypeOK'
  BY <1>1, <1>3 DEF KeyTypeOK
<1> DEFINE Was(k) == IF k < n THEN k ELSE k + 1
<1>5. \A k \in 1..Len(content') : /\ Was(k) \in 1..Len(content) /\ content'[k] = content[Was(k)]
                                 /\ k <= Was(k)
  <2> TAKE k \in 1..Len(content')
  <2>1. k \in 1..(Len(content) - 1)
    BY <1>3
  <2>2. Was(k) \in 1..Len(content) /\ k <= Was(k)
    BY <2>1, <1>2
  <2>3. content'[k] = content[Was(k)]
    BY <2>1, <1>3
  <2> QED BY <2>2, <2>3
<1>6. \A k, j \in 1..Len(content') : /\ k < j => Was(k) < Was(j)
                                    /\ Was(k) = Was(j) => k = j
  BY <1>2, <1>3
<1>7. \A k \in 1..Len(content') : n > from /\ k <= from => Was(k) <= from
  BY <1>2, <1>3
<1> HIDE DEF Was
<1>8. ContentOK'
  <2>1. ASSUME NEW k \in 1..Len(content'), NEW j \in 1..Len(content'), content'[k] = content'[j]
        PROVE  k = j
    <3>1. Was(k) = Was(j)
      BY <2>1, <1>5 DEF ContentOK, Unrepeated
    <3> QED BY <3>1, <1>6
  <2>2. ASSUME kind # "list", NEW k \in 1..Len(content'), NEW j \in 1..Len(content'), k < j
        PROVE  content'[k] < content'[j]
    <3>1. /\ Was(k) < Was(j)
          /\ Was(k) \in 1..Len(content) /\ Was(j) \in 1..Len(content)
      <4>1. k < j
        BY <2>2
      <4>2. Was(k) < Was(j)
        BY <4>1, <1>2, <1>3 DEF Was
      <4> QED BY <4>2, <1>5
    <3>2. content[Was(k)] < content[Was(j)]
      BY <3>1, <2>2 DEF ContentOK, InOrder
    <3> QED BY <3>2, <1>5
  <2>3. ASSUME NEW e \in stayed' PROVE In(e, content')
    <3>1. PICK k \in 1..Len(content) : content[k] = e
      BY <1>1 DEF ContentOK, In
    <3>2. k # n
      BY <3>1, <1>1
    <3>3. CASE k < n
      <4>1. k \in 1..Len(content') /\ content'[k] = e
        BY <3>1, <3>3, <1>2, <1>3
      <4> QED BY <4>1 DEF In
    <3>4. CASE ~(k < n)
      <4>1. k - 1 \in 1..Len(content') /\ ~(k - 1 < n) /\ (k - 1) + 1 = k
        BY <3>2, <3>4, <1>2, <1>3
      <4>2. content'[k - 1] = e
        BY <3>1, <4>1, <1>3
      <4> QED BY <4>1, <4>2 DEF In
    <3> QED BY <3>3, <3>4
  <2> QED BY <2>1, <2>2, <2>3, <1>1 DEF ContentOK, Unrepeated, InOrder, In
<1>9. Unskipped'
  <2> SUFFICES ASSUME kind = "list", "skips" \notin slid'
               PROVE  /\ at # "done" => \A k \in 1..Len(content') :
                            k <= from /\ content'[k] \in stayed' => In(content'[k], shown)
                      /\ at = "elements" => \A k \in 1..Len(content') : content'[k] \in stayed' => k <= total
                      /\ at = "done" => \A d \in stayed' : In(d, shown)
    BY <1>1 DEF Unskipped, In
  <2>1. "skips" \notin slid /\ n > from /\ stayed' \subseteq stayed
    BY <1>1, <1>2
  <2>2. ASSUME at # "done", NEW k \in 1..Len(content'), k <= from, content'[k] \in stayed'
        PROVE  In(content'[k], shown)
    BY <2>1, <2>2, <1>5, <1>7 DEF Unskipped
  <2>3. ASSUME at = "elements", NEW k \in 1..Len(content'), content'[k] \in stayed' PROVE k <= total
    <3>1. Was(k) <= total /\ Was(k) \in Nat
      BY <2>1, <2>3, <1>5, <1>2 DEF Unskipped
    <3> QED BY <3>1, <1>2, <1>3, <1>5
  <2>4. at = "done" => \A d \in stayed' : In(d, shown)
    BY <2>1 DEF Unskipped
  <2> QED BY <2>2, <2>3, <2>4
<1>10. Unslid'
  <2> SUFFICES ASSUME kind = "list", "repeats" \notin slid'
               PROVE  /\ Unrepeated(shown)
                      /\ at # "done" => \A k \in 1..Len(content') : from < k => ~In(content'[k], shown)
    BY <1>1 DEF Unslid, Unrepeated, In
  <2>1. "repeats" \notin slid
    BY <1>1
  <2>2. ASSUME at # "done", NEW k \in 1..Len(content'), from < k PROVE ~In(content'[k], shown)
    <3>1. Was(k) \in 1..Len(content) /\ content'[k] = content[Was(k)] /\ from < Was(k)
      BY <2>2, <1>2, <1>3, <1>5
    <3> QED BY <3>1, <2>1, <2>2 DEF Unslid
  <2> QED BY <2>1, <2>2 DEF Unslid
<1>11. WalkOK'
  BY <1>1 DEF WalkOK, InOrder, In
<1> QED BY <1>4, <1>8, <1>9, <1>10, <1>11

LEMMA KeyInvHolds == KeySpec => []KeyInv
<1>1. KeyInv /\ [KeyNext]_keyVars => KeyInv'
  <2> SUFFICES ASSUME KeyInv, [KeyNext]_keyVars PROVE KeyInv'
    OBVIOUS
  <2>1. CASE UNCHANGED keyVars
    BY <2>1 DEF keyVars, KeyInv, KeyTypeOK, ContentOK, Unskipped, Unslid, WalkOK, Unrepeated, InOrder, In
  <2>2. CASE KeyNext
    BY <2>2, ReadKeeps, AskLengthKeeps, ReadListKeeps, ReadStreamKeeps, ReadHashKeeps, PutKeeps,
       WithdrawKeeps DEF KeyNext
  <2> QED BY <2>1, <2>2
<1> QED BY <1>1, KeyInitially, PTL DEF KeySpec

\* The pages of a key are drawn as their cursors promise, whatever the page
\* size and however many elements others put in and take out, wherever: a
\* stream's entries in order, each once, and none that stayed missed; a hash's
\* or a set's with none that stayed missed; a list's too, and each once, for as
\* long as nothing that goes in or out slides the positions the cursor counts.
THEOREM KeysAreWhole == KeySpec => []KeyPages
<1>1. KeyInv => KeyPages
  <2> SUFFICES ASSUME KeyInv PROVE KeyPages
    OBVIOUS
  <2>1. DOMAIN shown = 1..Len(shown) /\ Len(shown) \in Nat /\ kind \in Kinds
    BY DEF KeyInv, KeyTypeOK
  <2>2. ASSUME at = "done", "skips" \notin slid, NEW e \in stayed PROVE e \in Drawn
    <3>1. In(e, shown)
      BY <2>2 DEF KeyInv, WalkOK, Unskipped
    <3> QED BY <3>1, <2>1 DEF Drawn, Range, In
  <2>3. kind = "stream" => \A i, j \in DOMAIN shown : i < j => shown[i] < shown[j]
    BY <2>1 DEF KeyInv, WalkOK, InOrder
  <2>4. kind = "list" /\ "repeats" \notin slid => IsInjective(shown)
    BY <2>1 DEF KeyInv, Unslid, Unrepeated, IsInjective
  <2> QED BY <2>2, <2>3, <2>4 DEF KeyPages, PagesMissNothing, PagesRepeatNothing
<1> QED BY <1>1, KeyInvHolds, PTL
=============================================================================
