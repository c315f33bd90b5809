--------------------------- MODULE Commit_proofs ---------------------------
(***************************************************************************)
(* A commit is all or nothing whatever happens to its connection, leaves   *)
(* no transaction behind, and implements the atomic commit of module       *)
(* AtomicCommit: for any rows, values and staged edits, and any            *)
(* disturbances.  The invariant under all three: a row whose statement has *)
(* run still holds what the statement found, because the server holds its  *)
(* lock.                                                                   *)
(***************************************************************************)
EXTENDS Commit, TLAPS

\* A row written in the open transaction still holds what it was written over.
Locked == \A k \in done : Touches(wanted[k], table[k])

\* A commit that is under way has no reason to fail until one sends it back.
Reasoned == phase \in {"begin", "writing", "rollback"} => reason \notin {"lost", "undone"}

Inv == CommitTypeOK /\ NoTxnLeftBehind /\ Locked /\ Reasoned

\* Staged edits, as statements, are changes of rows.
LEMMA StatementsType ==
  ASSUME NEW s \in Contents, shown \in [Keys -> Cell]
  PROVE  StatementsFor(s) \in Changed
<1> DEFINE K == s.deletes \cup DOMAIN s.edits \cup DOMAIN s.inserts
<1>1. /\ s.deletes \in SUBSET Keys
      /\ DOMAIN s.edits \subseteq Keys /\ \A k \in DOMAIN s.edits : s.edits[k] \in Values
      /\ DOMAIN s.inserts \subseteq Keys /\ \A k \in DOMAIN s.inserts : s.inserts[k] \in Values
  BY DEF Contents, Partial
<1>2. K \in SUBSET Keys
  BY <1>1
<1>3. StatementsFor(s) \in [K -> [from : Cell, to : Cell]]
  BY <1>1 DEF StatementsFor, Cell
<1> QED
  BY <1>2, <1>3 DEF Changed

\* The changes of a commit, one by one.
LEMMA ChangedParts ==
  ASSUME wanted \in Changed
  PROVE  /\ DOMAIN wanted \subseteq Keys
         /\ \A k \in DOMAIN wanted : wanted[k].from \in Cell /\ wanted[k].to \in Cell
BY DEF Changed

\* What the transaction sees is rows.
LEMMA SeenType ==
  ASSUME CommitTypeOK
  PROVE  /\ Seen \in [Keys -> Cell]
         /\ \A k \in Keys \ done : Seen[k] = table[k]
         /\ done = DOMAIN wanted => Seen = Atomic!Result
<1>1. \A k \in done : k \in DOMAIN wanted /\ wanted[k].to \in Cell
  BY ChangedParts DEF CommitTypeOK
<1> QED
  BY <1>1 DEF Seen, CommitTypeOK, Atomic!Result

\* The invariant holds at the start.
LEMMA InitInv == CommitInit => Inv
<1> SUFFICES ASSUME CommitInit PROVE Inv
  OBVIOUS
<1>1. NothingStaged \in Contents
  <2>1. [k \in {} |-> Nothing] \in [{} -> Values]
    OBVIOUS
  <2> QED
    BY <2>1 DEF NothingStaged, Contents, Partial
<1>2. NoStatements \in Changed
  <2>1. NoStatements \in [{} -> [from : Cell, to : Cell]]
    BY DEF NoStatements
  <2> QED
    BY <2>1 DEF Changed
<1> QED
  BY <1>1, <1>2, CommitAssumption DEF CommitInit, Inv, CommitTypeOK, NoTxnLeftBehind, Locked, Reasoned

\* Staging keeps the invariant.
LEMMA StageInv == Inv /\ (Stage \/ StageMore \/ Discard) => Inv'
<1> SUFFICES ASSUME Inv, Stage \/ StageMore \/ Discard PROVE Inv'
  OBVIOUS
<1>1. staged' \in Contents
  <2>1. CASE Stage
    <3>1. {k \in Keys : shown[k] # Nothing} \subseteq Keys
      OBVIOUS
    <3>2. \A S \in SUBSET Keys : Partial(S, Values) \subseteq Partial(Keys, Values)
      BY DEF Partial
    <3>3. PICK edits \in Partial(Keys, Values), deletes \in SUBSET Keys,
               inserts \in Partial(Keys, Values) :
            staged' = [edits |-> edits, inserts |-> inserts, deletes |-> deletes]
      BY <2>1, <3>1, <3>2, CommitAssumption DEF Stage
    <3> QED
      BY <3>3 DEF Contents
  <2>2. CASE StageMore
    <3>1. PICK k \in Keys, v \in Values :
            staged' = [staged EXCEPT !.edits =
                         [j \in DOMAIN @ \cup {k} |-> IF j = k THEN v ELSE @[j]]]
      BY <2>2 DEF StageMore
    <3> DEFINE E == [j \in DOMAIN staged.edits \cup {k} |-> IF j = k THEN v ELSE staged.edits[j]]
    <3>2. staged.edits \in Partial(Keys, Values) /\ staged \in Contents
      BY DEF Inv, CommitTypeOK, Contents
    <3>3. PICK D \in SUBSET Keys : staged.edits \in [D -> Values]
      BY <3>2 DEF Partial
    <3>4. E \in [D \cup {k} -> Values] /\ D \cup {k} \in SUBSET Keys
      BY <3>3
    <3>5. E \in Partial(Keys, Values)
      BY <3>4 DEF Partial
    <3>6. staged' = [staged EXCEPT !.edits = E]
      BY <3>1
    <3> HIDE DEF E
    <3> QED
      BY <3>2, <3>5, <3>6 DEF Contents
  <2>3. CASE Discard
    <3>1. [k \in {} |-> Nothing] \in [{} -> Values]
      OBVIOUS
    <3> QED
      BY <2>3, <3>1 DEF Discard, NothingStaged, Contents, Partial
  <2> QED
    BY <2>1, <2>2, <2>3
<1>2. /\ UNCHANGED <<table, shown, wanted, done, txn, phase, told, reason, alive, commits, others>>
  BY DEF Stage, StageMore, Discard
<1> QED
  BY <1>1, <1>2 DEF Inv, CommitTypeOK, NoTxnLeftBehind, Locked, Reasoned, Touches

\* Handing the statements to the session keeps the invariant.
LEMMA CommitChangesInv == Inv /\ CommitChanges => Inv'
<1> SUFFICES ASSUME Inv, CommitChanges PROVE Inv'
  OBVIOUS
<1>1. wanted' \in Changed
  BY StatementsType DEF CommitChanges, Inv, CommitTypeOK
<1> QED
  BY <1>1, CommitAssumption DEF Inv, CommitTypeOK, NoTxnLeftBehind, Locked, Reasoned, CommitChanges

\* The steps of `apply' up to its last statement keep the invariant.
LEMMA StatementInv ==
  ASSUME Inv, NEW k,
         \/ BeginTxn \/ BeginFails \/ Write(k) \/ WriteMissed(k) \/ WriteRefused(k)
         \/ WriteInAborted \/ Canceled \/ QueryFails
  PROVE  Inv'
<1>1. CASE BeginTxn
  BY <1>1 DEF Inv, CommitTypeOK, NoTxnLeftBehind, Locked, Reasoned, BeginTxn, Touches
<1>2. CASE BeginFails
  BY <1>2 DEF Inv, CommitTypeOK, NoTxnLeftBehind, Locked, Reasoned, BeginFails, Touches
<1>3. CASE Write(k)
  <2>1. k \in DOMAIN wanted \ done /\ Touches(wanted[k], table[k])
    BY <1>3, SeenType, ChangedParts DEF Write, IsNext, Inv, CommitTypeOK
  <2> QED
    BY <1>3, <2>1 DEF Inv, CommitTypeOK, NoTxnLeftBehind, Locked, Reasoned, Write, Touches
<1>4. CASE WriteMissed(k)
  BY <1>4 DEF Inv, CommitTypeOK, NoTxnLeftBehind, Locked, Reasoned, WriteMissed, Fail, Touches
<1>5. CASE WriteRefused(k)
  BY <1>5 DEF Inv, CommitTypeOK, NoTxnLeftBehind, Locked, Reasoned, WriteRefused, Fail, Touches
<1>6. CASE WriteInAborted
  BY <1>6 DEF Inv, CommitTypeOK, NoTxnLeftBehind, Locked, Reasoned, WriteInAborted, Fail, Touches
<1>7. CASE Canceled
  BY <1>7 DEF Inv, CommitTypeOK, NoTxnLeftBehind, Locked, Reasoned, Canceled, Fail, Touches
<1>8. CASE QueryFails
  BY <1>8 DEF Inv, CommitTypeOK, NoTxnLeftBehind, Locked, Reasoned, QueryFails, Touches
<1> QED
  BY <1>1, <1>2, <1>3, <1>4, <1>5, <1>6, <1>7, <1>8

\* The end of the transaction, however it comes, keeps the invariant.
LEMMA EndInv == Inv /\ (Rollback \/ CommitTxn \/ Lost) => Inv'
<1> SUFFICES ASSUME Inv, Rollback \/ CommitTxn \/ Lost PROVE Inv'
  OBVIOUS
<1>1. table' \in [Keys -> Cell]
  BY SeenType DEF Inv, CommitTypeOK, Rollback, CommitTxn, Lost
<1>2. done' = {} /\ txn' = "none" /\ phase' = "landing" /\ told' \in {"ok", "failed"}
  BY DEF Rollback, CommitTxn, Lost
<1>3. reason' \in {reason, "lost", "undone"} /\ alive' \in {alive, FALSE}
      /\ UNCHANGED <<shown, staged, wanted, commits, others>>
  BY DEF Rollback, CommitTxn, Lost
<1> QED
  BY <1>1, <1>2, <1>3 DEF Inv, CommitTypeOK, NoTxnLeftBehind, Locked, Reasoned

\* The window's side of the answer keeps the invariant.
LEMMA AbsorbInv == Inv /\ (Absorb \/ Refresh) => Inv'
<1> SUFFICES ASSUME Inv, Absorb \/ Refresh PROVE Inv'
  OBVIOUS
<1>1. NothingStaged \in Contents
  <2>1. [k \in {} |-> Nothing] \in [{} -> Values]
    OBVIOUS
  <2> QED
    BY <2>1 DEF NothingStaged, Contents, Partial
<1>2. staged' \in Contents /\ shown' \in [Keys -> Cell] /\ phase' \in {"reading", "idle"}
  BY <1>1 DEF Absorb, Refresh, Inv, CommitTypeOK
<1>3. UNCHANGED <<table, wanted, done, txn, told, reason, alive, commits, others>>
  BY DEF Absorb, Refresh
<1>4. phase \in {"landing", "reading"}
  BY DEF Absorb, Refresh
<1> QED
  BY <1>2, <1>3, <1>4 DEF Inv, CommitTypeOK, NoTxnLeftBehind, Locked, Reasoned, Touches

\* A write by someone else keeps it: the rows we wrote are locked.
LEMMA OtherInv == Inv /\ Other => Inv'
<1> SUFFICES ASSUME Inv, Other PROVE Inv'
  OBVIOUS
<1>1. PICK k \in Keys \ done, v \in Cell : table' = [table EXCEPT ![k] = v]
  BY DEF Other
<1>2. table' \in [Keys -> Cell] /\ \A j \in done : table'[j] = table[j]
  BY <1>1, ChangedParts DEF Inv, CommitTypeOK
<1>3. others' \in 0..MaxOthers
  BY CommitAssumption DEF Other, Inv, CommitTypeOK
<1>4. UNCHANGED <<shown, staged, wanted, done, txn, phase, told, reason, alive, commits>>
  BY DEF Other
<1> QED
  BY <1>2, <1>3, <1>4 DEF Inv, CommitTypeOK, NoTxnLeftBehind, Locked, Reasoned, Touches

\* Every step keeps the invariant.
LEMMA StepInv == Inv /\ [CommitNext]_commitVars => Inv'
<1>1. ASSUME Inv, UNCHANGED commitVars PROVE Inv'
  BY <1>1 DEF Inv, CommitTypeOK, NoTxnLeftBehind, Locked, Reasoned, Touches, commitVars
<1>2. ASSUME Inv, NEW k, \/ BeginTxn \/ BeginFails \/ Write(k) \/ WriteMissed(k) \/ WriteRefused(k)
                         \/ WriteInAborted \/ Canceled \/ QueryFails
      PROVE  Inv'
  BY <1>2, StatementInv
<1>3. ASSUME Inv, ApplyStep \/ Canceled \/ QueryFails PROVE Inv'
  BY <1>2, <1>3, EndInv DEF ApplyStep
<1> QED
  BY <1>1, <1>2, <1>3, StageInv, CommitChangesInv, EndInv, AbsorbInv, OtherInv DEF CommitNext

\* The invariant holds throughout.
THEOREM Invariance == CommitSpec => []Inv
<1>1. CommitInit => Inv
  BY InitInv
<1>2. Inv /\ [CommitNext]_commitVars => Inv'
  BY StepInv
<1> QED
  BY <1>1, <1>2, PTL DEF CommitSpec

\* The type invariant of a commit.
THEOREM TypeCorrect == CommitSpec => []CommitTypeOK
<1>1. Inv => CommitTypeOK
  BY DEF Inv
<1> QED
  BY <1>1, Invariance, PTL

\* No path out of `apply' leaves a transaction on the connection (client.rs).
THEOREM NothingLeftBehind == CommitSpec => []NoTxnLeftBehind
<1>1. Inv => NoTxnLeftBehind
  BY DEF Inv
<1> QED
  BY <1>1, Invariance, PTL

(***************************************************************************)
(* What a step may do to the table, and what it is told.                   *)
(***************************************************************************)
\* All or nothing, over the values shown, whatever disturbs the connection
\* (client.rs, `apply'): only COMMIT moves the table, and with every statement done.
THEOREM CommitsAreAtomic == CommitSpec => AllOrNone
<1>1. ASSUME Inv, [CommitNext]_commitVars, table' # table, others' = others
      PROVE  /\ table' = Atomic!Result
             /\ \A k \in DOMAIN wanted : Touches(wanted[k], table[k])
  <2>1. ~Other
    BY <1>1, CommitAssumption DEF Inv, CommitTypeOK, Other
  <2>2. CommitTxn \/ Lost
    BY <1>1, <2>1 DEF CommitNext, ApplyStep, commitVars, Stage, StageMore, Discard, CommitChanges, BeginTxn,
       BeginFails, Write, WriteMissed, WriteRefused, WriteInAborted, Canceled, QueryFails,
       Rollback, Absorb, Refresh
  <2>3. done = DOMAIN wanted /\ table' = Seen
    BY <1>1, <2>2 DEF CommitTxn, Lost
  <2> QED
    BY <1>1, <2>3, SeenType DEF Inv, Locked
<1>2. Inv /\ [CommitNext]_commitVars =>
        [table' # table /\ others' = others
           => /\ table' = Atomic!Result
              /\ \A k \in DOMAIN wanted : Touches(wanted[k], table[k])]_commitVars
  BY <1>1
<1> QED
  BY <1>2, Invariance, PTL DEF CommitSpec, AllOrNone

\* Whatever disturbs it, a commit implements the atomic one: it is also told
\* the truth, but for an answer that is lost and a COMMIT the server undoes
\* (client.rs, `apply').
THEOREM ImplementsAtomic == CommitSpec => Implements
<1>1. CommitInit => Atomic!Init
  <2> SUFFICES ASSUME CommitInit PROVE Atomic!Init
    OBVIOUS
  <2>1. wanted \in Changed
    BY InitInv DEF Inv, CommitTypeOK
  <2> QED
    BY <2>1 DEF CommitInit, Atomic!Init, Atomic!Changes, Atomic!Cell, Changed, Cell
<1>2. Inv /\ [CommitNext]_commitVars => [Atomic!Next]_(Atomic!vars)
  <2> SUFFICES ASSUME Inv, [CommitNext]_commitVars
               PROVE  Atomic!Next \/ UNCHANGED Atomic!vars
    OBVIOUS
  <2>1. CASE CommitChanges
    <3>1. wanted' \in Atomic!Changes
      BY <2>1, StatementsType DEF CommitChanges, Inv, CommitTypeOK, Atomic!Changes, Atomic!Cell,
         Changed, Cell
    <3>2. Atomic!Ask
      BY <2>1, <3>1 DEF CommitChanges, Atomic!Ask, Inv, CommitTypeOK
    <3> QED
      BY <3>2 DEF Atomic!Next
  <2>2. CASE CommitTxn
    <3>1. CASE txn = "open"
      <4>1. table' = Atomic!Result
        BY <2>2, <3>1, SeenType DEF CommitTxn, Inv
      <4>2. \A k \in DOMAIN wanted : Atomic!Fits(wanted[k], table[k])
        BY <2>2 DEF CommitTxn, Inv, Locked, Touches, Atomic!Fits
      <4>3. reason' \notin {"lost", "undone"}
        BY <2>2, <3>1 DEF CommitTxn, Inv, Reasoned
      <4>4. Atomic!Commit
        BY <2>2, <4>1, <4>2, <4>3 DEF CommitTxn, Atomic!Commit
      <4> QED
        BY <4>4 DEF Atomic!Next
    <3>2. CASE txn # "open"
      <4>1. Atomic!Doubt
        BY <2>2, <3>2 DEF CommitTxn, Atomic!Doubt
      <4> QED
        BY <4>1 DEF Atomic!Next
    <3> QED
      BY <3>1, <3>2
  <2>3. CASE Rollback
    <3>1. Atomic!Refuse
      BY <2>3 DEF Rollback, Inv, Reasoned, Atomic!Refuse
    <3> QED
      BY <3>1 DEF Atomic!Next
  <2>6. CASE BeginFails \/ Lost
    <3>1. UNCHANGED table \/ (done = DOMAIN wanted /\ table' = Seen)
      BY <2>6 DEF BeginFails, Lost
    <3>2. UNCHANGED table \/ (/\ \A k \in DOMAIN wanted : Atomic!Fits(wanted[k], table[k])
                             /\ table' = Atomic!Result)
      BY <3>1, SeenType DEF Inv, Locked, Touches, Atomic!Fits
    <3>3. Atomic!Doubt
      BY <2>6, <3>2 DEF BeginFails, Lost, Atomic!Doubt
    <3> QED
      BY <3>3 DEF Atomic!Next
  <2>4. CASE Other
    <3>1. Atomic!Other
      BY <2>4 DEF Other, Atomic!Other, Atomic!Cell, Cell
    <3> QED
      BY <3>1 DEF Atomic!Next
  <2>5. CASE \/ Stage \/ StageMore \/ Discard \/ BeginTxn \/ WriteInAborted \/ Canceled \/ QueryFails
             \/ Absorb \/ Refresh \/ UNCHANGED commitVars
             \/ \E k \in Keys : Write(k) \/ WriteMissed(k) \/ WriteRefused(k)
    BY <2>5 DEF Stage, StageMore, Discard, BeginTxn, WriteInAborted, Canceled, QueryFails, Absorb,
       Refresh, commitVars, Write, WriteMissed, WriteRefused, Fail, Atomic!vars
  <2> QED
    BY <2>1, <2>2, <2>3, <2>4, <2>5, <2>6 DEF CommitNext, ApplyStep
<1> QED
  BY <1>1, <1>2, InitInv, Invariance, PTL DEF CommitSpec, Implements, Atomic!Spec
=============================================================================
