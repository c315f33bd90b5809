SPECIFICATION Spec
CONSTANTS
  app = app
  logs = logs
  Sessions = {app, logs}
  InitTabs <- TwoQueries
  Gestures = {"show", "split"}
  MaxScript = 2
  MaxSent = 2
  MaxPanes = 2
  MaxTabs = 3
INVARIANT ScriptKeepsItsSession
CHECK_DEADLOCK FALSE
