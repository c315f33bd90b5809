SPECIFICATION SessionsSpec
CONSTANTS
  Drivers <- SqlAndRedis
  Pages = 2
  MaxAsks = 3
  MaxTurns = 5
  MaxCancels = 1
  Keys = {1, 2, 3}
  NewKeys = {3}
  a = a
  b = b
  Values = {a, b}
  Nothing = Nothing
  Unique = TRUE
  Disturbances = {"cancel", "query", "lost"}
  MaxCommits = 2
  MaxOthers = 1
INVARIANTS SessionHolds ReadOnlySendsNoWrite KeysAreOneWalk NoTxnLeftBehind
PROPERTIES
  WithdrawnNeverSent NeverResent SlotComesFree
  Implements AllOrNone FreedValueIsReused CommitEnds
CHECK_DEADLOCK FALSE
