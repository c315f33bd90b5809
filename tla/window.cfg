SPECIFICATION WindowsSpec
CONSTANTS
  app = app
  logs = logs
  Sessions = {app, logs}
  InitTabs <- QueryAndTable
  Gestures = {"show", "open_table", "close_tabs", "split", "close_pane", "cancel"}
  MaxScript = 2
  MaxSent = 3
  MaxPanes = 2
  MaxTabs = 3
INVARIANT WindowHolds
PROPERTY SplitHolds
PROPERTY SplitScriptEnds
CHECK_DEADLOCK FALSE
