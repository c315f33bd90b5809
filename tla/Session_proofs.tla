--------------------------- MODULE Session_proofs ---------------------------
(***************************************************************************)
(* Theorems about module Session, for every set of engines and every       *)
(* bound.                                                                  *)
(***************************************************************************)
EXTENDS Session, TLAPS

\* What a session holds back was handed over after the last cancel, is a
\* statement it may send, and is only held while there is a connection to send
\* it on; a session the window has let go of has nothing in flight.
HeldIsFresh ==
    /\ stopAt <= asked
    /\ superseding # NoStatement =>
         /\ stopAt < superseding.id
         /\ held => connection /\ ~Refused(superseding)
    /\ ~held => task.op = "none"

Inv == TypeOK /\ Coherent /\ ReadOnlySendsNoWrite /\ HeldIsFresh

LEMMA NoThings == /\ NoTask \in Tasks /\ NoTask.op = "none" /\ NoTask.answer = "none"
                   /\ NoRun \in [stmt : Statements \cup {NoStatement}, answer : Answers]
                   /\ <<>> \in Seq([catalog : Nat, page : Nat])
<1>1. NoTask \in Tasks /\ NoTask.op = "none" /\ NoTask.answer = "none"
  BY DEF NoTask, Tasks, Ops, Answers
<1>2. NoRun \in [stmt : Statements \cup {NoStatement}, answer : Answers]
  BY DEF NoRun, Answers
<1> QED
  BY <1>1, <1>2

\* Taking the slot, for an operation and a statement of the right kind.
LEMMA TakeFacts ==
  ASSUME turns \in Nat, NEW op \in Ops, NEW s \in Statements \cup {NoStatement}, Take(op, s)
  PROVE  /\ task' \in Tasks /\ turns' = turns + 1 /\ activity' = ActivityOf(op)
         /\ task'.op = op /\ task'.stmt = s /\ task'.answer = "none"
         /\ task'.turn = turns + 1
BY DEF Take, Tasks, Answers

LEMMA ActivityType ==
  ASSUME NEW op \in Ops
  PROVE  ActivityOf(op) \in {"Idle", "Connecting", "Introspecting", "Running"}
BY DEF Ops, ActivityOf

LEMMA InitInv == Init => Inv
<1> SUFFICES ASSUME Init PROVE Inv
  OBVIOUS
<1>1. TypeOK
  <2>1. state = "Offline" /\ activity = "Idle" /\ keys = <<>> /\ task = NoTask /\ last = NoRun
    BY DEF Init
  <2>2. /\ caps \in Drivers /\ readOnly \in BOOLEAN /\ marked \in BOOLEAN /\ connection \in BOOLEAN
        /\ snapshot \in BOOLEAN /\ keyspace \in BOOLEAN /\ keys_complete \in BOOLEAN
        /\ key_walking \in BOOLEAN /\ held \in BOOLEAN
    BY Zenon DEF Init
  <2>3. /\ key_cursor = 0 /\ superseding = NoStatement /\ emitted = {} /\ cancels = 0
        /\ asked = 0 /\ turns = 0 /\ stopAt = 0 /\ catalogs = 0
    BY DEF Init
  <2> QED
    BY <2>1, <2>2, <2>3, NoThings DEF TypeOK
<1>2. Coherent
  BY DEF Coherent, ActivityOf, Init, NoTask
<1>3. ReadOnlySendsNoWrite /\ HeldIsFresh
  BY DEF ReadOnlySendsNoWrite, HeldIsFresh, Init, NoTask
<1> QED
  BY <1>1, <1>2, <1>3 DEF Inv

\* An answer changes nothing of an operation but its answer.
LEMMA AnswerFacts ==
  ASSUME task \in Tasks, NEW a \in Answers, task' = [task EXCEPT !.answer = a]
  PROVE  task' \in Tasks /\ task'.op = task.op /\ task'.stmt = task.stmt
         /\ task'.turn = task.turn /\ task'.answer = a
BY DEF Tasks

\* An engine speaks SQL or it does not.
LEMMA CapsType == Inv => caps.sql \in BOOLEAN
BY SessionAssumption DEF Inv, TypeOK

LEMMA ConnectInv == Inv /\ Connect => Inv'
<1> SUFFICES ASSUME Inv, Connect PROVE Inv'
  OBVIOUS
<1> USE DEF Connect
<1>1. /\ task' \in Tasks /\ turns' = turns + 1 /\ activity' = ActivityOf(task'.op)
      /\ task'.op = "connect" /\ task'.stmt = NoStatement
      /\ activity' \in {"Idle", "Connecting", "Introspecting", "Running"}
  BY TakeFacts, ActivityType DEF Inv, TypeOK, Ops
<1>2. TypeOK'
  <2>1. /\ caps' \in Drivers /\ readOnly' \in BOOLEAN /\ marked' \in BOOLEAN /\ connection' \in BOOLEAN
        /\ snapshot' \in BOOLEAN /\ keyspace' \in BOOLEAN /\ keys_complete' \in BOOLEAN
        /\ key_walking' \in BOOLEAN /\ held' \in BOOLEAN
    BY Zenon, CapsType DEF Inv, TypeOK, SetCatalog, slot, tree, ghost, conf
  <2> QED
    BY <1>1, <2>1, NoThings DEF Inv, TypeOK, SetCatalog, Answers, slot, tree, ghost, conf
<1>3. Coherent'
  BY <1>1, CapsType DEF Inv, TypeOK, Coherent, SetCatalog, ActivityOf, IsBusy, Lands, InFlight, slot, tree, ghost, conf
<1>4. ReadOnlySendsNoWrite'
  BY <1>1 DEF Inv, TypeOK, Coherent, HeldIsFresh, ReadOnlySendsNoWrite, Refused, NoStatement, IsBusy, ActivityOf, slot, tree, ghost, conf
<1>5. HeldIsFresh'
  BY <1>1 DEF Inv, TypeOK, Coherent, HeldIsFresh, Refused, Lands, InFlight, slot, tree, ghost, conf
<1> QED
  BY <1>2, <1>3, <1>4, <1>5 DEF Inv

LEMMA DisconnectInv == Inv /\ Disconnect => Inv'
<1> SUFFICES ASSUME Inv, Disconnect PROVE Inv'
  OBVIOUS
<1> USE DEF Disconnect
<1>1. task' \in Tasks /\ task'.op = "none" /\ activity' = "Idle" /\ task'.stmt = NoStatement
  BY NoThings DEF Free, NoTask
<1>2. TypeOK'
  <2>1. /\ caps' \in Drivers /\ readOnly' \in BOOLEAN /\ marked' \in BOOLEAN /\ connection' \in BOOLEAN
        /\ snapshot' \in BOOLEAN /\ keyspace' \in BOOLEAN /\ keys_complete' \in BOOLEAN
        /\ key_walking' \in BOOLEAN /\ held' \in BOOLEAN
    BY Zenon, CapsType DEF Inv, TypeOK, SetCatalog, slot, tree, ghost, conf
  <2> QED
    BY <1>1, <2>1, NoThings DEF Inv, TypeOK, SetCatalog, Answers, slot, tree, ghost, conf
<1>3. Coherent'
  BY <1>1, CapsType DEF Inv, TypeOK, Coherent, SetCatalog, ActivityOf, IsBusy, Lands, InFlight, slot, tree, ghost, conf
<1>4. ReadOnlySendsNoWrite'
  BY <1>1 DEF Inv, TypeOK, Coherent, HeldIsFresh, ReadOnlySendsNoWrite, Refused, NoStatement, IsBusy, ActivityOf, slot, tree, ghost, conf
<1>5. HeldIsFresh'
  BY <1>1 DEF Inv, TypeOK, Coherent, HeldIsFresh, Refused, Lands, InFlight, slot, tree, ghost, conf
<1> QED
  BY <1>2, <1>3, <1>4, <1>5 DEF Inv

LEMMA SaveConnectionInv == Inv /\ SaveConnection => Inv'
<1> SUFFICES ASSUME Inv, SaveConnection PROVE Inv'
  OBVIOUS
<1> USE DEF SaveConnection
<1>1. task' = task /\ activity' = activity
  BY DEF slot
<1>2. TypeOK'
  <2>1. /\ caps' \in Drivers /\ readOnly' \in BOOLEAN /\ marked' \in BOOLEAN /\ connection' \in BOOLEAN
        /\ snapshot' \in BOOLEAN /\ keyspace' \in BOOLEAN /\ keys_complete' \in BOOLEAN
        /\ key_walking' \in BOOLEAN /\ held' \in BOOLEAN
    BY Zenon, CapsType DEF Inv, TypeOK, SetCatalog, slot, tree, ghost, conf
  <2> QED
    BY <1>1, <2>1, NoThings DEF Inv, TypeOK, SetCatalog, Answers, slot, tree, ghost, conf
<1>3. Coherent'
  BY <1>1, CapsType DEF Inv, TypeOK, Coherent, SetCatalog, ActivityOf, IsBusy, Lands, InFlight, slot, tree, ghost, conf
<1>4. ReadOnlySendsNoWrite'
  BY <1>1 DEF Inv, TypeOK, Coherent, HeldIsFresh, ReadOnlySendsNoWrite, Refused, NoStatement, IsBusy, ActivityOf, slot, tree, ghost, conf
<1>5. HeldIsFresh'
  BY <1>1 DEF Inv, TypeOK, Coherent, HeldIsFresh, Refused, Lands, InFlight, slot, tree, ghost, conf
<1> QED
  BY <1>2, <1>3, <1>4, <1>5 DEF Inv

LEMMA RefreshSchemaInv == Inv /\ RefreshSchema => Inv'
<1> SUFFICES ASSUME Inv, RefreshSchema PROVE Inv'
  OBVIOUS
<1> USE DEF RefreshSchema
<1>1. /\ task' \in Tasks /\ turns' = turns + 1 /\ activity' = ActivityOf(task'.op)
      /\ task'.op = "catalog" /\ task'.stmt = NoStatement
      /\ activity' \in {"Idle", "Connecting", "Introspecting", "Running"}
  BY TakeFacts, ActivityType DEF Inv, TypeOK, Ops
<1>2. TypeOK'
  <2>1. /\ caps' \in Drivers /\ readOnly' \in BOOLEAN /\ marked' \in BOOLEAN /\ connection' \in BOOLEAN
        /\ snapshot' \in BOOLEAN /\ keyspace' \in BOOLEAN /\ keys_complete' \in BOOLEAN
        /\ key_walking' \in BOOLEAN /\ held' \in BOOLEAN
    BY Zenon, CapsType DEF Inv, TypeOK, SetCatalog, slot, tree, ghost, conf
  <2> QED
    BY <1>1, <2>1, NoThings DEF Inv, TypeOK, SetCatalog, Answers, slot, tree, ghost, conf
<1>3. Coherent'
  BY <1>1, CapsType DEF Inv, TypeOK, Coherent, SetCatalog, ActivityOf, IsBusy, Lands, InFlight, slot, tree, ghost, conf
<1>4. ReadOnlySendsNoWrite'
  BY <1>1 DEF Inv, TypeOK, Coherent, HeldIsFresh, ReadOnlySendsNoWrite, Refused, NoStatement, IsBusy, ActivityOf, slot, tree, ghost, conf
<1>5. HeldIsFresh'
  BY <1>1 DEF Inv, TypeOK, Coherent, HeldIsFresh, Refused, Lands, InFlight, slot, tree, ghost, conf
<1> QED
  BY <1>2, <1>3, <1>4, <1>5 DEF Inv

LEMMA ScanKeysInv == Inv /\ ScanKeys => Inv'
<1> SUFFICES ASSUME Inv, ScanKeys PROVE Inv'
  OBVIOUS
<1> USE DEF ScanKeys
<1>1. /\ task' \in Tasks /\ turns' = turns + 1 /\ activity' = ActivityOf(task'.op)
      /\ task'.op = "scan" /\ task'.stmt = NoStatement
      /\ activity' \in {"Idle", "Connecting", "Introspecting", "Running"}
  BY TakeFacts, ActivityType DEF Inv, TypeOK, Ops
<1>2. TypeOK'
  <2>1. /\ caps' \in Drivers /\ readOnly' \in BOOLEAN /\ marked' \in BOOLEAN /\ connection' \in BOOLEAN
        /\ snapshot' \in BOOLEAN /\ keyspace' \in BOOLEAN /\ keys_complete' \in BOOLEAN
        /\ key_walking' \in BOOLEAN /\ held' \in BOOLEAN
    BY Zenon, CapsType DEF Inv, TypeOK, SetCatalog, slot, tree, ghost, conf
  <2>2. keys' \in Seq([catalog : Nat, page : Nat]) /\ key_cursor' \in Nat
    <3>1. CASE key_walking
      BY <3>1 DEF Inv, TypeOK
    <3>2. CASE ~key_walking
      BY <3>2, NoThings
    <3> QED
      BY <3>1, <3>2
  <2> QED
    BY <1>1, <2>1, <2>2 DEF Inv, TypeOK, slot, tree, ghost, conf
<1>3. Coherent'
  BY <1>1, CapsType DEF Inv, TypeOK, Coherent, SetCatalog, ActivityOf, IsBusy, Lands, InFlight, slot, tree, ghost, conf
<1>4. ReadOnlySendsNoWrite'
  BY <1>1 DEF Inv, TypeOK, Coherent, HeldIsFresh, ReadOnlySendsNoWrite, Refused, NoStatement, IsBusy, ActivityOf, slot, tree, ghost, conf
<1>5. HeldIsFresh'
  BY <1>1 DEF Inv, TypeOK, Coherent, HeldIsFresh, Refused, Lands, InFlight, slot, tree, ghost, conf
<1> QED
  BY <1>2, <1>3, <1>4, <1>5 DEF Inv

LEMMA OpenKeyInv == Inv /\ OpenKey => Inv'
<1> SUFFICES ASSUME Inv, OpenKey PROVE Inv'
  OBVIOUS
<1> USE DEF OpenKey
<1>1. /\ task' \in Tasks /\ turns' = turns + 1 /\ activity' = ActivityOf(task'.op)
      /\ task'.op = "key" /\ task'.stmt = NoStatement
      /\ activity' \in {"Idle", "Connecting", "Introspecting", "Running"}
  BY TakeFacts, ActivityType DEF Inv, TypeOK, Ops
<1>2. TypeOK'
  <2>1. /\ caps' \in Drivers /\ readOnly' \in BOOLEAN /\ marked' \in BOOLEAN /\ connection' \in BOOLEAN
        /\ snapshot' \in BOOLEAN /\ keyspace' \in BOOLEAN /\ keys_complete' \in BOOLEAN
        /\ key_walking' \in BOOLEAN /\ held' \in BOOLEAN
    BY Zenon, CapsType DEF Inv, TypeOK, SetCatalog, slot, tree, ghost, conf
  <2> QED
    BY <1>1, <2>1, NoThings DEF Inv, TypeOK, SetCatalog, Answers, slot, tree, ghost, conf
<1>3. Coherent'
  BY <1>1, CapsType DEF Inv, TypeOK, Coherent, SetCatalog, ActivityOf, IsBusy, Lands, InFlight, slot, tree, ghost, conf
<1>4. ReadOnlySendsNoWrite'
  BY <1>1 DEF Inv, TypeOK, Coherent, HeldIsFresh, ReadOnlySendsNoWrite, Refused, NoStatement, IsBusy, ActivityOf, slot, tree, ghost, conf
<1>5. HeldIsFresh'
  BY <1>1 DEF Inv, TypeOK, Coherent, HeldIsFresh, Refused, Lands, InFlight, slot, tree, ghost, conf
<1> QED
  BY <1>2, <1>3, <1>4, <1>5 DEF Inv

LEMMA ApplyRefusedInv == Inv /\ ApplyRefused => Inv'
<1> SUFFICES ASSUME Inv, ApplyRefused PROVE Inv'
  OBVIOUS
<1> USE DEF ApplyRefused
<1>1. task' = task /\ activity' = activity
  BY DEF slot
<1>2. TypeOK'
  <2>1. /\ caps' \in Drivers /\ readOnly' \in BOOLEAN /\ marked' \in BOOLEAN /\ connection' \in BOOLEAN
        /\ snapshot' \in BOOLEAN /\ keyspace' \in BOOLEAN /\ keys_complete' \in BOOLEAN
        /\ key_walking' \in BOOLEAN /\ held' \in BOOLEAN
    BY Zenon, CapsType DEF Inv, TypeOK, SetCatalog, slot, tree, ghost, conf
  <2> QED
    BY <1>1, <2>1, NoThings DEF Inv, TypeOK, SetCatalog, Answers, slot, tree, ghost, conf
<1>3. Coherent'
  BY <1>1, CapsType DEF Inv, TypeOK, Coherent, SetCatalog, ActivityOf, IsBusy, Lands, InFlight, slot, tree, ghost, conf
<1>4. ReadOnlySendsNoWrite'
  BY <1>1 DEF Inv, TypeOK, Coherent, HeldIsFresh, ReadOnlySendsNoWrite, Refused, NoStatement, IsBusy, ActivityOf, slot, tree, ghost, conf
<1>5. HeldIsFresh'
  BY <1>1 DEF Inv, TypeOK, Coherent, HeldIsFresh, Refused, Lands, InFlight, slot, tree, ghost, conf
<1> QED
  BY <1>2, <1>3, <1>4, <1>5 DEF Inv

LEMMA ApplyInv == Inv /\ Apply => Inv'
<1> SUFFICES ASSUME Inv, Apply PROVE Inv'
  OBVIOUS
<1> USE DEF Apply
<1>1. /\ task' \in Tasks /\ turns' = turns + 1 /\ activity' = ActivityOf(task'.op)
      /\ task'.op = "apply" /\ task'.stmt = NoStatement
      /\ activity' \in {"Idle", "Connecting", "Introspecting", "Running"}
  BY TakeFacts, ActivityType DEF Inv, TypeOK, Ops
<1>2. TypeOK'
  <2>1. /\ caps' \in Drivers /\ readOnly' \in BOOLEAN /\ marked' \in BOOLEAN /\ connection' \in BOOLEAN
        /\ snapshot' \in BOOLEAN /\ keyspace' \in BOOLEAN /\ keys_complete' \in BOOLEAN
        /\ key_walking' \in BOOLEAN /\ held' \in BOOLEAN
    BY Zenon, CapsType DEF Inv, TypeOK, SetCatalog, slot, tree, ghost, conf
  <2> QED
    BY <1>1, <2>1, NoThings DEF Inv, TypeOK, SetCatalog, Answers, slot, tree, ghost, conf
<1>3. Coherent'
  BY <1>1, CapsType DEF Inv, TypeOK, Coherent, SetCatalog, ActivityOf, IsBusy, Lands, InFlight, slot, tree, ghost, conf
<1>4. ReadOnlySendsNoWrite'
  BY <1>1 DEF Inv, TypeOK, Coherent, HeldIsFresh, ReadOnlySendsNoWrite, Refused, NoStatement, IsBusy, ActivityOf, slot, tree, ghost, conf
<1>5. HeldIsFresh'
  BY <1>1 DEF Inv, TypeOK, Coherent, HeldIsFresh, Refused, Lands, InFlight, slot, tree, ghost, conf
<1> QED
  BY <1>2, <1>3, <1>4, <1>5 DEF Inv

LEMMA CancelInv == Inv /\ Cancel => Inv'
<1> SUFFICES ASSUME Inv, Cancel PROVE Inv'
  OBVIOUS
<1> USE DEF Cancel
<1>1. task' = task /\ activity' = activity
  BY DEF slot
<1>2. TypeOK'
  <2>1. /\ caps' \in Drivers /\ readOnly' \in BOOLEAN /\ marked' \in BOOLEAN /\ connection' \in BOOLEAN
        /\ snapshot' \in BOOLEAN /\ keyspace' \in BOOLEAN /\ keys_complete' \in BOOLEAN
        /\ key_walking' \in BOOLEAN /\ held' \in BOOLEAN
    BY Zenon, CapsType DEF Inv, TypeOK, SetCatalog, slot, tree, ghost, conf
  <2>2. cancels' \in Nat
    BY DEF Inv, TypeOK
  <2> QED
    BY <1>1, <2>1, <2>2 DEF Inv, TypeOK, slot, tree, ghost, conf
<1>3. Coherent'
  BY <1>1, CapsType DEF Inv, TypeOK, Coherent, SetCatalog, ActivityOf, IsBusy, Lands, InFlight, slot, tree, ghost, conf
<1>4. ReadOnlySendsNoWrite'
  BY <1>1 DEF Inv, TypeOK, Coherent, HeldIsFresh, ReadOnlySendsNoWrite, Refused, NoStatement, IsBusy, ActivityOf, slot, tree, ghost, conf
<1>5. HeldIsFresh'
  BY <1>1 DEF Inv, TypeOK, Coherent, HeldIsFresh, Refused, Lands, InFlight, slot, tree, ghost, conf
<1> QED
  BY <1>2, <1>3, <1>4, <1>5 DEF Inv

LEMMA AnswerInv == Inv /\ Answer => Inv'
<1> SUFFICES ASSUME Inv, Answer PROVE Inv'
  OBVIOUS
<1> USE DEF Answer
<1>1. /\ task' \in Tasks /\ task'.op = task.op /\ task'.stmt = task.stmt
  BY AnswerFacts DEF Inv, TypeOK, Answers
<1>2. TypeOK'
  <2>1. /\ caps' \in Drivers /\ readOnly' \in BOOLEAN /\ marked' \in BOOLEAN /\ connection' \in BOOLEAN
        /\ snapshot' \in BOOLEAN /\ keyspace' \in BOOLEAN /\ keys_complete' \in BOOLEAN
        /\ key_walking' \in BOOLEAN /\ held' \in BOOLEAN
    BY Zenon, CapsType DEF Inv, TypeOK, SetCatalog, slot, tree, ghost, conf
  <2> QED
    BY <1>1, <2>1, NoThings DEF Inv, TypeOK, SetCatalog, Answers, slot, tree, ghost, conf
<1>3. Coherent'
  BY <1>1, CapsType DEF Inv, TypeOK, Coherent, SetCatalog, ActivityOf, IsBusy, Lands, InFlight, slot, tree, ghost, conf
<1>4. ReadOnlySendsNoWrite'
  BY <1>1 DEF Inv, TypeOK, Coherent, HeldIsFresh, ReadOnlySendsNoWrite, Refused, NoStatement, IsBusy, ActivityOf, slot, tree, ghost, conf
<1>5. HeldIsFresh'
  BY <1>1 DEF Inv, TypeOK, Coherent, HeldIsFresh, Refused, Lands, InFlight, slot, tree, ghost, conf
<1> QED
  BY <1>2, <1>3, <1>4, <1>5 DEF Inv

LEMMA CancelArrivesInv == Inv /\ CancelArrives => Inv'
<1> SUFFICES ASSUME Inv, CancelArrives PROVE Inv'
  OBVIOUS
<1> USE DEF CancelArrives
<1>1. /\ task' \in Tasks /\ task'.op = task.op /\ task'.stmt = task.stmt
  BY AnswerFacts DEF Inv, TypeOK, Answers
<1>2. TypeOK'
  <2>1. /\ caps' \in Drivers /\ readOnly' \in BOOLEAN /\ marked' \in BOOLEAN /\ connection' \in BOOLEAN
        /\ snapshot' \in BOOLEAN /\ keyspace' \in BOOLEAN /\ keys_complete' \in BOOLEAN
        /\ key_walking' \in BOOLEAN /\ held' \in BOOLEAN
    BY Zenon, CapsType DEF Inv, TypeOK, SetCatalog, slot, tree, ghost, conf
  <2> QED
    BY <1>1, <2>1, NoThings DEF Inv, TypeOK, SetCatalog, Answers, slot, tree, ghost, conf
<1>3. Coherent'
  BY <1>1, CapsType DEF Inv, TypeOK, Coherent, SetCatalog, ActivityOf, IsBusy, Lands, InFlight, slot, tree, ghost, conf
<1>4. ReadOnlySendsNoWrite'
  BY <1>1 DEF Inv, TypeOK, Coherent, HeldIsFresh, ReadOnlySendsNoWrite, Refused, NoStatement, IsBusy, ActivityOf, slot, tree, ghost, conf
<1>5. HeldIsFresh'
  BY <1>1 DEF Inv, TypeOK, Coherent, HeldIsFresh, Refused, Lands, InFlight, slot, tree, ghost, conf
<1> QED
  BY <1>2, <1>3, <1>4, <1>5 DEF Inv

LEMMA LandConnectInv == Inv /\ LandConnect => Inv'
<1> SUFFICES ASSUME Inv, LandConnect PROVE Inv'
  OBVIOUS
<1> USE DEF LandConnect
<1>1. task' \in Tasks /\ task'.op = "none" /\ activity' = "Idle" /\ task'.stmt = NoStatement
  BY NoThings DEF Free, NoTask
<1>2. TypeOK'
  <2>1. /\ caps' \in Drivers /\ readOnly' \in BOOLEAN /\ marked' \in BOOLEAN /\ connection' \in BOOLEAN
        /\ snapshot' \in BOOLEAN /\ keyspace' \in BOOLEAN /\ keys_complete' \in BOOLEAN
        /\ key_walking' \in BOOLEAN /\ held' \in BOOLEAN
    BY Zenon, CapsType DEF Inv, TypeOK, SetCatalog, slot, tree, ghost, conf
  <2>2. /\ keys' \in Seq([catalog : Nat, page : Nat]) /\ key_cursor' \in Nat
        /\ catalogs' \in Nat
    <3>1. CASE Succeeded
      BY <3>1, NoThings DEF Inv, TypeOK, SetCatalog
    <3>2. CASE ~Succeeded
      BY <3>2 DEF Inv, TypeOK, tree
    <3> QED
      BY <3>1, <3>2
  <2> QED
    BY <1>1, <2>1, <2>2 DEF Inv, TypeOK, slot, tree, ghost, conf
<1>3. Coherent'
  <2>1. CASE Succeeded
    <3>1. snapshot' = caps.sql /\ keyspace' = ~caps.sql
      BY <2>1 DEF SetCatalog
    <3> QED
      BY <1>1, <2>1, <3>1, CapsType DEF Inv, TypeOK, Coherent, ActivityOf, Lands
  <2>2. CASE ~Succeeded
    BY <1>1, <2>2 DEF Inv, TypeOK, Coherent, ActivityOf, Lands, tree
  <2> QED
    BY <2>1, <2>2
<1>4. ReadOnlySendsNoWrite'
  BY <1>1 DEF Inv, TypeOK, Coherent, HeldIsFresh, ReadOnlySendsNoWrite, Refused, NoStatement, IsBusy, ActivityOf, slot, tree, ghost, conf
<1>5. HeldIsFresh'
  BY <1>1 DEF Inv, TypeOK, Coherent, HeldIsFresh, Refused, Lands, InFlight, slot, tree, ghost, conf
<1> QED
  BY <1>2, <1>3, <1>4, <1>5 DEF Inv

LEMMA LandCatalogInv == Inv /\ LandCatalog => Inv'
<1> SUFFICES ASSUME Inv, LandCatalog PROVE Inv'
  OBVIOUS
<1> USE DEF LandCatalog
<1>1. task' \in Tasks /\ task'.op = "none" /\ activity' = "Idle" /\ task'.stmt = NoStatement
  BY NoThings DEF Free, NoTask
<1>2. TypeOK'
  <2>1. /\ caps' \in Drivers /\ readOnly' \in BOOLEAN /\ marked' \in BOOLEAN /\ connection' \in BOOLEAN
        /\ snapshot' \in BOOLEAN /\ keyspace' \in BOOLEAN /\ keys_complete' \in BOOLEAN
        /\ key_walking' \in BOOLEAN /\ held' \in BOOLEAN
    BY Zenon, CapsType DEF Inv, TypeOK, SetCatalog, slot, tree, ghost, conf
  <2>2. /\ keys' \in Seq([catalog : Nat, page : Nat]) /\ key_cursor' \in Nat
        /\ catalogs' \in Nat
    <3>1. CASE Succeeded
      BY <3>1, NoThings DEF Inv, TypeOK, SetCatalog
    <3>2. CASE ~Succeeded
      BY <3>2 DEF Inv, TypeOK, tree
    <3> QED
      BY <3>1, <3>2
  <2> QED
    BY <1>1, <2>1, <2>2 DEF Inv, TypeOK, slot, tree, ghost, conf
<1>3. Coherent'
  <2>1. CASE Succeeded
    <3>1. snapshot' = caps.sql /\ keyspace' = ~caps.sql
      BY <2>1 DEF SetCatalog
    <3> QED
      BY <1>1, <2>1, <3>1, CapsType DEF Inv, TypeOK, Coherent, ActivityOf, Lands
  <2>2. CASE ~Succeeded
    BY <1>1, <2>2 DEF Inv, TypeOK, Coherent, ActivityOf, Lands, tree
  <2> QED
    BY <2>1, <2>2
<1>4. ReadOnlySendsNoWrite'
  BY <1>1 DEF Inv, TypeOK, Coherent, HeldIsFresh, ReadOnlySendsNoWrite, Refused, NoStatement, IsBusy, ActivityOf, slot, tree, ghost, conf
<1>5. HeldIsFresh'
  BY <1>1 DEF Inv, TypeOK, Coherent, HeldIsFresh, Refused, Lands, InFlight, slot, tree, ghost, conf
<1> QED
  BY <1>2, <1>3, <1>4, <1>5 DEF Inv

LEMMA LandScanInv == Inv /\ LandScan => Inv'
<1> SUFFICES ASSUME Inv, LandScan PROVE Inv'
  OBVIOUS
<1> USE DEF LandScan
<1>1. task' \in Tasks /\ task'.op = "none" /\ activity' = "Idle" /\ task'.stmt = NoStatement
  BY NoThings DEF Free, NoTask
<1>2. TypeOK'
  <2>1. /\ caps' \in Drivers /\ readOnly' \in BOOLEAN /\ marked' \in BOOLEAN /\ connection' \in BOOLEAN
        /\ snapshot' \in BOOLEAN /\ keyspace' \in BOOLEAN /\ keys_complete' \in BOOLEAN
        /\ key_walking' \in BOOLEAN /\ held' \in BOOLEAN
    BY Zenon, CapsType DEF Inv, TypeOK, SetCatalog, slot, tree, ghost, conf
  <2>2. keys' \in Seq([catalog : Nat, page : Nat]) /\ key_cursor' \in Nat
    <3>1. CASE Succeeded
      <4> DEFINE page == IF key_cursor = 0 THEN 1 ELSE key_cursor
      <4>1. page \in Nat /\ catalogs \in Nat
        BY DEF Inv, TypeOK
      <4>2. [catalog |-> catalogs, page |-> page] \in [catalog : Nat, page : Nat]
        BY <4>1
      <4>3. keys' = Append(keys, [catalog |-> catalogs, page |-> page])
            /\ key_cursor' = (IF page = Pages THEN 0 ELSE page + 1)
        BY <3>1
      <4> HIDE DEF page
      <4> QED
        BY <4>1, <4>2, <4>3 DEF Inv, TypeOK
    <3>2. CASE ~Succeeded
      BY <3>2 DEF Inv, TypeOK
    <3> QED
      BY <3>1, <3>2
  <2> QED
    BY <1>1, <2>1, <2>2 DEF Inv, TypeOK, slot, tree, ghost, conf
<1>3. Coherent'
  BY <1>1, CapsType DEF Inv, TypeOK, Coherent, SetCatalog, ActivityOf, IsBusy, Lands, InFlight, slot, tree, ghost, conf
<1>4. ReadOnlySendsNoWrite'
  BY <1>1 DEF Inv, TypeOK, Coherent, HeldIsFresh, ReadOnlySendsNoWrite, Refused, NoStatement, IsBusy, ActivityOf, slot, tree, ghost, conf
<1>5. HeldIsFresh'
  BY <1>1 DEF Inv, TypeOK, Coherent, HeldIsFresh, Refused, Lands, InFlight, slot, tree, ghost, conf
<1> QED
  BY <1>2, <1>3, <1>4, <1>5 DEF Inv

LEMMA LandKeyInv == Inv /\ LandKey => Inv'
<1> SUFFICES ASSUME Inv, LandKey PROVE Inv'
  OBVIOUS
<1> USE DEF LandKey
<1>1. task' \in Tasks /\ task'.op = "none" /\ activity' = "Idle" /\ task'.stmt = NoStatement
  BY NoThings DEF Free, NoTask
<1>2. TypeOK'
  <2>1. /\ caps' \in Drivers /\ readOnly' \in BOOLEAN /\ marked' \in BOOLEAN /\ connection' \in BOOLEAN
        /\ snapshot' \in BOOLEAN /\ keyspace' \in BOOLEAN /\ keys_complete' \in BOOLEAN
        /\ key_walking' \in BOOLEAN /\ held' \in BOOLEAN
    BY Zenon, CapsType DEF Inv, TypeOK, SetCatalog, slot, tree, ghost, conf
  <2> QED
    BY <1>1, <2>1, NoThings DEF Inv, TypeOK, SetCatalog, Answers, slot, tree, ghost, conf
<1>3. Coherent'
  BY <1>1, CapsType DEF Inv, TypeOK, Coherent, SetCatalog, ActivityOf, IsBusy, Lands, InFlight, slot, tree, ghost, conf
<1>4. ReadOnlySendsNoWrite'
  BY <1>1 DEF Inv, TypeOK, Coherent, HeldIsFresh, ReadOnlySendsNoWrite, Refused, NoStatement, IsBusy, ActivityOf, slot, tree, ghost, conf
<1>5. HeldIsFresh'
  BY <1>1 DEF Inv, TypeOK, Coherent, HeldIsFresh, Refused, Lands, InFlight, slot, tree, ghost, conf
<1> QED
  BY <1>2, <1>3, <1>4, <1>5 DEF Inv

LEMMA LandRunInv == Inv /\ LandRun => Inv'
<1> SUFFICES ASSUME Inv, LandRun PROVE Inv'
  OBVIOUS
<1>1. /\ Lands("run") /\ superseding' = NoStatement /\ connection /\ held
      /\ UNCHANGED <<state, conf, connection, tree, key_walking, held, cancels, asked, stopAt>>
  BY DEF LandRun, Inv, Coherent, HeldIsFresh, Lands
<1>2. CASE superseding = NoStatement \/ Refused(superseding)
  <2>1. /\ task' \in Tasks /\ task'.op = "none" /\ activity' = "Idle" /\ turns' = turns
        /\ emitted' = {"Finished"}
        /\ last' \in [stmt : Statements \cup {NoStatement}, answer : Answers]
    <3>1. Free /\ turns' = turns
          /\ (Publish(task.stmt, task.answer) \/ Publish(superseding, "error"))
      BY <1>1, <1>2 DEF LandRun
    <3> QED
      BY <3>1, NoThings DEF Free, Publish, Inv, TypeOK, Tasks, Answers
  <2>2. TypeOK'
    BY <1>1, <2>1 DEF Inv, TypeOK, conf, tree
  <2>3. Coherent'
    BY <1>1, <2>1 DEF Inv, Coherent, Lands, ActivityOf, conf, tree
  <2>4. ReadOnlySendsNoWrite' /\ HeldIsFresh'
    BY <1>1, <2>1 DEF Inv, TypeOK, ReadOnlySendsNoWrite, HeldIsFresh
  <2> QED
    BY <2>2, <2>3, <2>4 DEF Inv
<1>3. CASE superseding # NoStatement /\ ~Refused(superseding)
  <2>1. Take("run", superseding) /\ emitted' = {} /\ last' = last
    BY <1>1, <1>3 DEF LandRun
  <2>2. /\ task' \in Tasks /\ turns' = turns + 1 /\ activity' = "Running"
        /\ task'.op = "run" /\ task'.stmt = superseding
    BY <2>1, TakeFacts DEF Inv, TypeOK, Ops, ActivityOf
  <2>3. TypeOK'
    BY <1>1, <2>1, <2>2 DEF Inv, TypeOK, conf, tree
  <2>4. Coherent'
    BY <1>1, <2>2 DEF Inv, Coherent, Lands, ActivityOf, conf, tree
  <2>5. ReadOnlySendsNoWrite' /\ HeldIsFresh'
    BY <1>1, <1>3, <2>2 DEF Inv, TypeOK, ReadOnlySendsNoWrite, HeldIsFresh, Refused, conf
  <2> QED
    BY <2>3, <2>4, <2>5 DEF Inv
<1> QED
  BY <1>2, <1>3

LEMMA LandApplyInv == Inv /\ LandApply => Inv'
<1> SUFFICES ASSUME Inv, LandApply PROVE Inv'
  OBVIOUS
<1> USE DEF LandApply
<1>1. task' \in Tasks /\ task'.op = "none" /\ activity' = "Idle" /\ task'.stmt = NoStatement
  BY NoThings DEF Free, NoTask
<1>2. TypeOK'
  <2>1. /\ caps' \in Drivers /\ readOnly' \in BOOLEAN /\ marked' \in BOOLEAN /\ connection' \in BOOLEAN
        /\ snapshot' \in BOOLEAN /\ keyspace' \in BOOLEAN /\ keys_complete' \in BOOLEAN
        /\ key_walking' \in BOOLEAN /\ held' \in BOOLEAN
    BY Zenon, CapsType DEF Inv, TypeOK, SetCatalog, slot, tree, ghost, conf
  <2> QED
    BY <1>1, <2>1, NoThings DEF Inv, TypeOK, SetCatalog, Answers, slot, tree, ghost, conf
<1>3. Coherent'
  BY <1>1, CapsType DEF Inv, TypeOK, Coherent, SetCatalog, ActivityOf, IsBusy, Lands, InFlight, slot, tree, ghost, conf
<1>4. ReadOnlySendsNoWrite'
  BY <1>1 DEF Inv, TypeOK, Coherent, HeldIsFresh, ReadOnlySendsNoWrite, Refused, NoStatement, IsBusy, ActivityOf, slot, tree, ghost, conf
<1>5. HeldIsFresh'
  BY <1>1 DEF Inv, TypeOK, Coherent, HeldIsFresh, Refused, Lands, InFlight, slot, tree, ghost, conf
<1> QED
  BY <1>2, <1>3, <1>4, <1>5 DEF Inv

LEMMA RunRefusedInv == ASSUME Inv, NEW s \in Statements, RunRefused(s) PROVE Inv'
<1>1. /\ task' = task /\ activity' = activity /\ superseding' = superseding /\ turns' = turns
      /\ asked' = asked + 1 /\ emitted' = {"Finished"}
      /\ last' = [stmt |-> s, answer |-> "error"]
      /\ UNCHANGED <<state, conf, connection, tree, key_walking, held, cancels, stopAt>>
  BY DEF RunRefused, Asked, Publish, slot
<1>2. TypeOK'
  BY <1>1 DEF Inv, TypeOK, Answers, conf, tree
<1>3. Coherent'
  BY <1>1 DEF Inv, Coherent, conf, tree
<1>4. ReadOnlySendsNoWrite' /\ HeldIsFresh'
  BY <1>1 DEF Inv, TypeOK, ReadOnlySendsNoWrite, HeldIsFresh, Refused, conf
<1> QED
  BY <1>2, <1>3, <1>4 DEF Inv

LEMMA RunHeldInv == ASSUME Inv, NEW s \in Statements, RunHeld(s) PROVE Inv'
<1>1. /\ task' = task /\ activity' = activity /\ superseding' = s /\ turns' = turns
      /\ asked' = asked + 1 /\ emitted' = {} /\ last' = last
      /\ connection /\ ~Refused(s) /\ s.id = asked + 1
      /\ UNCHANGED <<state, conf, connection, tree, key_walking, held, cancels, stopAt>>
  BY DEF RunHeld, Asked, slot
<1>2. TypeOK'
  BY <1>1 DEF Inv, TypeOK, conf, tree
<1>3. Coherent'
  BY <1>1 DEF Inv, Coherent, conf, tree
<1>4. ReadOnlySendsNoWrite' /\ HeldIsFresh'
  BY <1>1 DEF Inv, TypeOK, ReadOnlySendsNoWrite, HeldIsFresh, Refused, conf
<1> QED
  BY <1>2, <1>3, <1>4 DEF Inv

LEMMA RunSentInv == ASSUME Inv, NEW s \in Statements, RunSent(s) PROVE Inv'
<1>1. /\ Take("run", s) /\ superseding' = superseding
      /\ asked' = asked + 1 /\ emitted' = {} /\ last' = last
      /\ held /\ connection /\ ~Refused(s) /\ task.op = "none"
      /\ UNCHANGED <<state, conf, connection, tree, key_walking, held, cancels, stopAt>>
  BY DEF RunSent, Asked, IsBusy, Inv, Coherent, TypeOK, Tasks, Ops, ActivityOf
<1>2. /\ task' \in Tasks /\ turns' = turns + 1 /\ activity' = "Running"
      /\ task'.op = "run" /\ task'.stmt = s
  BY <1>1, TakeFacts DEF Inv, TypeOK, Ops, ActivityOf
<1>3. TypeOK'
  BY <1>1, <1>2 DEF Inv, TypeOK, conf, tree
<1>4. Coherent'
  BY <1>1, <1>2 DEF Inv, Coherent, ActivityOf, conf, tree
<1>5. ReadOnlySendsNoWrite' /\ HeldIsFresh'
  BY <1>1, <1>2 DEF Inv, TypeOK, ReadOnlySendsNoWrite, HeldIsFresh, Refused, conf
<1> QED
  BY <1>3, <1>4, <1>5 DEF Inv

LEMMA StepInv == Inv /\ [Next]_vars => Inv'
<1> SUFFICES ASSUME Inv, [Next]_vars PROVE Inv'
  OBVIOUS
<1>1. CASE UNCHANGED vars
  BY <1>1 DEF vars, slot, tree, ghost, conf, Inv, TypeOK, Coherent, ReadOnlySendsNoWrite,
              HeldIsFresh, Refused
<1>2. CASE Answer \/ CancelArrives
  BY <1>2, AnswerInv, CancelArrivesInv
<1>3. CASE Land
  BY <1>3, LandConnectInv, LandCatalogInv, LandScanInv, LandKeyInv, LandRunInv, LandApplyInv
     DEF Land
<1>4. CASE Call
  BY <1>4, ConnectInv, DisconnectInv, SaveConnectionInv, RefreshSchemaInv, ScanKeysInv,
     OpenKeyInv, RunRefusedInv, RunHeldInv, RunSentInv, ApplyRefusedInv, ApplyInv, CancelInv
     DEF Call
<1> QED
  BY <1>1, <1>2, <1>3, <1>4 DEF Next

LEMMA Invariance == Spec => []Inv
BY InitInv, StepInv, PTL DEF Spec

\* Every variable of a session keeps its type (session.rs, struct Session).
THEOREM TypeCorrect == Spec => []TypeOK
<1>1. Inv => TypeOK
  BY DEF Inv
<1> QED
  BY <1>1, Invariance, PTL

\* The slot, the state, the driver and the two catalogs always agree.
THEOREM AlwaysCoherent == Spec => []Coherent
<1>1. Inv => Coherent
  BY DEF Inv
<1> QED
  BY <1>1, Invariance, PTL

\* Both together: what is read of a session is well formed and agrees.
THEOREM SessionInOrder == Spec => []SessionHolds
<1>1. Inv => SessionHolds
  BY DEF Inv, SessionHolds
<1> QED
  BY <1>1, Invariance, PTL

\* A session whose config is read-only never has a write or a commit in
\* flight (the guards of `run' and `apply', through the held statement too).
THEOREM ReadOnlyIsKept == Spec => []ReadOnlySendsNoWrite
<1>1. Inv => ReadOnlySendsNoWrite
  BY DEF Inv
<1> QED
  BY <1>1, Invariance, PTL

\* A run starts in two ways only: handed over while the slot is free, or taken
\* from what was held; both are newer than the last cancel.
THEOREM CancelWithdraws == Spec => WithdrawnNeverSent
<1> DEFINE Sent == task'.op = "run" /\ task'.turn # task.turn => task'.stmt.id > stopAt
<1>1. Inv /\ [Next]_vars => Sent
  <2> SUFFICES ASSUME Inv, Next, task'.op = "run", task'.turn # task.turn
               PROVE  task'.stmt.id > stopAt
    BY DEF vars, slot
  <2>1. CASE \E s \in Statements : RunSent(s)
    BY <2>1 DEF RunSent, Asked, Take, Inv, TypeOK, HeldIsFresh
  <2>2. CASE LandRun
    BY <2>2 DEF LandRun, Take, Free, NoTask, Inv, HeldIsFresh, TypeOK
  <2>3. CASE \/ Connect \/ RefreshSchema \/ ScanKeys \/ OpenKey \/ Apply
    BY <2>3 DEF Connect, RefreshSchema, ScanKeys, OpenKey, Apply, Take
  <2>4. CASE \/ Disconnect \/ LandConnect \/ LandCatalog \/ LandScan \/ LandKey \/ LandApply
    BY <2>4 DEF Disconnect, LandConnect, LandCatalog, LandScan, LandKey, LandApply, Free, NoTask
  <2>5. CASE \/ SaveConnection \/ ApplyRefused \/ Cancel
             \/ \E s \in Statements : RunRefused(s) \/ RunHeld(s)
    BY <2>5 DEF SaveConnection, ApplyRefused, Cancel, RunRefused, RunHeld, slot
  <2>6. CASE Answer \/ CancelArrives
    BY <2>6, AnswerFacts DEF Answer, CancelArrives, Inv, TypeOK, Answers
  <2> QED
    BY <2>1, <2>2, <2>3, <2>4, <2>5, <2>6 DEF Next, Call, Land
<1>2. Spec => [][Inv /\ [Next]_vars]_vars
  BY Invariance, PTL DEF Spec
<1> QED
  BY <1>1, <1>2, PTL DEF WithdrawnNeverSent

(***************************************************************************)
(* Nothing is sent twice.                                                  *)
(***************************************************************************)
\* Statements are numbered as they come, and what is held is neither in the
\* slot nor published.
Fresh ==
    /\ task.stmt.id <= asked /\ last.stmt.id <= asked /\ superseding.id <= asked
    /\ superseding # NoStatement => superseding.id \notin {task.stmt.id, last.stmt.id}

\* The statement in each place is numbered from 1, or is none and numbered 0.
LEMMA StatementIds ==
  ASSUME TypeOK
  PROVE  /\ \A s \in Statements : s.id \in Nat /\ s.id > 0
         /\ NoStatement.id = 0
         /\ task.stmt.id \in Nat /\ last.stmt.id \in Nat /\ superseding.id \in Nat
         /\ superseding # NoStatement => superseding \in Statements /\ superseding.id > 0
<1>1. \A s \in Statements : s.id \in Nat /\ s.id > 0
  BY SessionAssumption DEF Statements
<1>2. NoStatement.id = 0
  BY DEF NoStatement
<1> QED
  BY <1>1, <1>2 DEF TypeOK, Tasks

\* At the start nothing has been handed over.
LEMMA InitFresh == Init => Fresh
BY DEF Init, Fresh, NoTask, NoRun, NoStatement

\* Every step keeps what is held fresh.
LEMMA StepFresh == Inv /\ Fresh /\ [Next]_vars => Fresh'
<1> SUFFICES ASSUME Inv, Fresh, [Next]_vars PROVE Fresh'
  OBVIOUS
<1> USE DEF Fresh
<1>0. /\ TypeOK /\ asked \in Nat /\ turns \in Nat
      /\ NoTask.stmt = NoStatement /\ NoStatement.id = 0
  BY DEF Inv, TypeOK, NoTask, NoStatement
<1>1. CASE UNCHANGED vars
  BY <1>1 DEF vars, slot, ghost
<1>2. CASE Answer \/ CancelArrives
  <2>1. task'.stmt = task.stmt
    BY <1>2, <1>0, AnswerFacts DEF Answer, CancelArrives, TypeOK, Answers
  <2> QED
    BY <1>2, <2>1 DEF Answer, CancelArrives, ghost
<1>3. CASE \/ Connect \/ RefreshSchema \/ ScanKeys \/ OpenKey \/ Apply
  <2>1. task'.stmt = NoStatement /\ UNCHANGED <<asked, last, superseding>>
    BY <1>3 DEF Connect, RefreshSchema, ScanKeys, OpenKey, Apply, Take
  <2> QED
    BY <1>0, <2>1, StatementIds
<1>4. CASE \/ Disconnect \/ LandConnect \/ LandCatalog \/ LandScan \/ LandKey \/ LandApply
  <2>1. task' = NoTask /\ UNCHANGED <<asked, last, superseding>>
    BY <1>4 DEF Disconnect, LandConnect, LandCatalog, LandScan, LandKey, LandApply, Free, ghost
  <2> QED
    BY <1>0, <2>1, StatementIds
<1>5. CASE SaveConnection \/ ApplyRefused
  BY <1>5 DEF SaveConnection, ApplyRefused, slot, ghost
<1>6. CASE Cancel
  <2>1. superseding' = NoStatement /\ UNCHANGED <<asked, last, task>>
    BY <1>6 DEF Cancel, slot
  <2> QED
    BY <1>0, <2>1
<1>7. ASSUME NEW s \in Statements, RunRefused(s) \/ RunHeld(s) \/ RunSent(s) PROVE Fresh'
  <2>1. s.id = asked + 1 /\ asked' = asked + 1
    BY <1>7 DEF RunRefused, RunHeld, RunSent, Asked
  <2>2. CASE RunRefused(s)
    <3>1. last'.stmt = s /\ UNCHANGED <<task, superseding>>
      BY <2>2 DEF RunRefused, Publish, slot
    <3> QED
      BY <1>0, <2>1, <3>1, StatementIds
  <2>3. CASE RunHeld(s)
    <3>1. superseding' = s /\ UNCHANGED <<task, last>>
      BY <2>3 DEF RunHeld, slot
    <3> QED
      BY <1>0, <2>1, <3>1, StatementIds
  <2>4. CASE RunSent(s)
    <3>1. task'.stmt = s /\ UNCHANGED <<superseding, last>>
      BY <2>4 DEF RunSent, Take
    <3> QED
      BY <1>0, <2>1, <3>1, StatementIds
  <2> QED
    BY <1>7, <2>2, <2>3, <2>4
<1>8. CASE LandRun
  <2>1. superseding' = NoStatement /\ asked' = asked
    BY <1>8 DEF LandRun
  <2>2. /\ task'.stmt \in {NoStatement, superseding}
        /\ last'.stmt \in {last.stmt, task.stmt, superseding}
    BY <1>0, <1>8 DEF LandRun, Free, Publish, Take
  <2> QED
    BY <1>0, <2>1, <2>2, StatementIds
<1> QED
  BY <1>1, <1>2, <1>3, <1>4, <1>5, <1>6, <1>7, <1>8 DEF Next, Call, Land

\* Nothing is sent twice: what takes the slot as a run is neither the statement
\* that was there nor the one published last (session.rs, `run' and its
\* completion).
THEOREM SentOnce == Spec => NeverResent
<1> DEFINE Once == task'.op = "run" /\ task'.turn # task.turn
                     => task'.stmt \notin {task.stmt, last.stmt}
<1>1. Inv /\ Fresh /\ [Next]_vars => Once
  <2> SUFFICES ASSUME Inv, Fresh, Next, task'.op = "run", task'.turn # task.turn
               PROVE  task'.stmt \notin {task.stmt, last.stmt}
    BY DEF vars, slot
  <2> USE DEF Fresh
  <2>0. TypeOK /\ asked \in Nat
    BY DEF Inv, TypeOK
  <2>1. CASE \E s \in Statements : RunSent(s)
    <3>1. task'.stmt.id = asked + 1
      BY <2>1 DEF RunSent, Asked, Take
    <3> QED
      BY <2>0, <3>1, StatementIds
  <2>2. CASE LandRun
    <3>1. task'.stmt = superseding /\ superseding # NoStatement
      BY <2>2 DEF LandRun, Take, Free, NoTask
    <3> QED
      BY <2>0, <3>1
  <2>3. CASE \/ Connect \/ RefreshSchema \/ ScanKeys \/ OpenKey \/ Apply
    BY <2>3 DEF Connect, RefreshSchema, ScanKeys, OpenKey, Apply, Take
  <2>4. CASE \/ Disconnect \/ LandConnect \/ LandCatalog \/ LandScan \/ LandKey \/ LandApply
    BY <2>4 DEF Disconnect, LandConnect, LandCatalog, LandScan, LandKey, LandApply, Free, NoTask
  <2>5. CASE \/ SaveConnection \/ ApplyRefused \/ Cancel
             \/ \E s \in Statements : RunRefused(s) \/ RunHeld(s)
    BY <2>5 DEF SaveConnection, ApplyRefused, Cancel, RunRefused, RunHeld, slot
  <2>6. CASE Answer \/ CancelArrives
    BY <2>6, AnswerFacts DEF Answer, CancelArrives, Inv, TypeOK, Answers
  <2> QED
    BY <2>1, <2>2, <2>3, <2>4, <2>5, <2>6 DEF Next, Call, Land
<1>2. Spec => []Fresh
  BY InitFresh, StepFresh, Invariance, PTL DEF Spec
<1>3. Spec => [][Inv /\ Fresh /\ [Next]_vars]_vars
  BY <1>2, Invariance, PTL DEF Spec
<1> QED
  BY <1>1, <1>3, PTL DEF NeverResent

(***************************************************************************)
(* The keys on show.                                                       *)
(***************************************************************************)
\* They are one walk, and a walk under way has a page to come.
Walk == KeysAreOneWalk /\ (task.op = "scan" => ~keys_complete)

\* No keys are the first pages of a walk, and never all of them.
LEMMA NoKeys == Len(<<>>) = 0 /\ Pages \in Nat /\ Pages # 0
BY SessionAssumption

\* Before any catalog there are no keys.
LEMMA InitWalk == Init => Walk
<1> SUFFICES ASSUME Init PROVE Walk
  OBVIOUS
<1>1. Len(keys) = 0 /\ ~keys_complete /\ key_cursor = 0 /\ task.op # "scan"
  BY NoKeys DEF Init, NoTask
<1> QED
  BY <1>1, NoKeys DEF Walk, KeysAreOneWalk

\* The next page of a walk that is not complete belongs at its end.
LEMMA PageWalk ==
  ASSUME Inv, Walk, LandScan
  PROVE  KeysAreOneWalk'
<1> USE DEF Walk
<1>0. /\ Pages \in Nat \ {0} /\ Len(keys) \in Nat /\ catalogs \in Nat /\ key_cursor \in Nat
      /\ keys \in Seq([catalog : Nat, page : Nat])
  BY SessionAssumption DEF Inv, TypeOK
<1>1. Len(keys) < Pages /\ ~keys_complete
  <2>1. ~keys_complete
    BY DEF LandScan, Lands
  <2> QED
    BY <1>0, <2>1 DEF KeysAreOneWalk
<1>2. CASE ~Succeeded
  BY <1>2 DEF LandScan, KeysAreOneWalk
<1>3. CASE Succeeded
  <2> DEFINE page == IF key_cursor = 0 THEN 1 ELSE key_cursor
             more == IF page = Pages THEN 0 ELSE page + 1
  <2>1. page = Len(keys) + 1
    BY <1>0, <1>1 DEF KeysAreOneWalk
  <2>2. /\ keys' = Append(keys, [catalog |-> catalogs, page |-> page])
        /\ keys_complete' = (more = 0) /\ key_cursor' = more /\ catalogs' = catalogs
    BY <1>3 DEF LandScan
  <2> HIDE DEF page
  <2>3. /\ Len(keys') = Len(keys) + 1
        /\ \A i \in 1..Len(keys) : keys'[i] = keys[i]
        /\ keys'[Len(keys) + 1] = [catalog |-> catalogs, page |-> page]
    BY <1>0, <2>2
  <2>4. \A i \in 1..Len(keys') : keys'[i] = [catalog |-> catalogs', page |-> i]
    BY <1>0, <2>1, <2>2, <2>3 DEF KeysAreOneWalk
  <2>5. more = IF Len(keys') = Pages THEN 0 ELSE Len(keys') + 1
    BY <1>0, <2>1, <2>3
  <2>6. keys_complete' <=> Len(keys') = Pages
    <3>1. (more = 0) <=> Len(keys') = Pages
      BY <1>0, <2>3, <2>5
    <3> HIDE DEF more
    <3> QED
      BY Zenon, <2>2, <3>1
  <2>7. key_cursor' = IF Len(keys') \in {0, Pages} THEN 0 ELSE Len(keys') + 1
    BY <1>0, <2>2, <2>3, <2>5
  <2>8. Len(keys') <= Pages
    BY <1>0, <1>1, <2>3
  <2> HIDE DEF more
  <2> QED
    BY <2>4, <2>6, <2>7, <2>8 DEF KeysAreOneWalk
<1> QED
  BY <1>2, <1>3

\* Every step keeps the keys one walk.
LEMMA StepWalk == Inv /\ Walk /\ [Next]_vars => Walk'
<1> SUFFICES ASSUME Inv, Walk, [Next]_vars PROVE Walk'
  OBVIOUS
<1> USE DEF Walk
<1>1. CASE UNCHANGED vars
  BY <1>1 DEF vars, tree, slot, KeysAreOneWalk
<1>2. CASE Answer \/ CancelArrives
  <2>1. task'.op = task.op /\ UNCHANGED tree
    BY <1>2, AnswerFacts DEF Answer, CancelArrives, Inv, TypeOK, Answers
  <2> QED
    BY <2>1 DEF tree, KeysAreOneWalk
<1>3. CASE Connect \/ RefreshSchema \/ OpenKey \/ Apply \/ \E s \in Statements : RunSent(s)
  <2>1. task'.op # "scan" /\ UNCHANGED tree
    BY <1>3 DEF Connect, RefreshSchema, OpenKey, Apply, RunSent, Asked, Take
  <2> QED
    BY <2>1 DEF tree, KeysAreOneWalk
<1>4. CASE LandKey \/ LandRun \/ LandApply
  <2>1. task'.op # "scan" /\ UNCHANGED tree
    BY <1>4 DEF LandKey, LandRun, LandApply, Free, NoTask, Take
  <2> QED
    BY <2>1 DEF tree, KeysAreOneWalk
<1>5. CASE \/ SaveConnection \/ ApplyRefused \/ Cancel
           \/ \E s \in Statements : RunRefused(s) \/ RunHeld(s)
  BY <1>5 DEF SaveConnection, ApplyRefused, Cancel, RunRefused, RunHeld, Asked, slot, tree,
              KeysAreOneWalk
<1>6. CASE Disconnect
  <2>1. Len(keys') = 0 /\ ~keys_complete' /\ key_cursor' = 0 /\ task'.op = "none"
    BY <1>6, NoKeys DEF Disconnect, Free, NoTask
  <2> QED
    BY <2>1, NoKeys DEF KeysAreOneWalk
<1>7. CASE LandConnect \/ LandCatalog
  <2>1. task'.op = "none"
    BY <1>7 DEF LandConnect, LandCatalog, Free, NoTask
  <2>2. \/ UNCHANGED <<keys, keys_complete, key_cursor, catalogs>>
        \/ Len(keys') = 0 /\ ~keys_complete' /\ key_cursor' = 0
    BY <1>7, NoKeys DEF LandConnect, LandCatalog, SetCatalog, tree
  <2> QED
    BY <2>1, <2>2, NoKeys DEF KeysAreOneWalk
<1>8. CASE ScanKeys
  <2>1. \/ ~keys_complete /\ UNCHANGED <<keys, keys_complete, key_cursor>>
        \/ Len(keys') = 0 /\ ~keys_complete' /\ key_cursor' = 0
    BY <1>8, NoKeys DEF ScanKeys
  <2>2. catalogs' = catalogs
    BY <1>8 DEF ScanKeys
  <2> QED
    BY <2>1, <2>2, NoKeys DEF KeysAreOneWalk
<1>9. CASE LandScan
  <2>1. task'.op # "scan"
    BY <1>9 DEF LandScan, Free, NoTask
  <2> QED
    BY <1>9, <2>1, PageWalk
<1> QED
  BY <1>1, <1>2, <1>3, <1>4, <1>5, <1>6, <1>7, <1>8, <1>9 DEF Next, Call, Land

\* Whatever lands between two pages, a catalog read or a disconnect among it,
\* the keys on show are the first pages of one walk of the catalog in place
\* (session.rs, `scan_keys' and `set_catalog').
THEOREM OneWalk == Spec => []KeysAreOneWalk
<1>1. Spec => []Walk
  BY InitWalk, StepWalk, Invariance, PTL DEF Spec
<1>2. Walk => KeysAreOneWalk
  BY DEF Walk
<1> QED
  BY <1>1, <1>2, PTL
=============================================================================
