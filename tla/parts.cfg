SPECIFICATION PartsSpec
CONSTANTS
  Rows = {0, 1}
  Columns = {0}
  Values = {a, b}
  NoValue = NoValue
  MaxSlots = 2
  MaxSteps = 3
  MaxStaged = 3
  MaxKeys = 3
  MaxScript = 4
  MaxPanes = 3
  MaxTabs = 4
  MaxGestures = 5
  MaxTyped = 3
  MaxImported = 2
INVARIANTS
  StagedIsSound TextHolds ScriptSplits
  FilesReadBack ImportHolds
PROPERTIES
  UndoRestores RedoRestores GridHolds LayoutHolds
CHECK_DEADLOCK FALSE
