SPECIFICATION PartsSpec
CONSTANTS
  Rows = {0, 1}
  Columns = {0}
  Values = {a}
  NoValue = NoValue
  MaxSlots = 1
  MaxSteps = 1
  MaxStaged = 1
  MaxKeys = 0
  MaxScript = 1
  MaxPanes = 1
  MaxTabs = 1
  MaxGestures = 0
  MaxTyped = 0
  MaxImported = 0
INVARIANT BlankLineDoesNoHarm
CHECK_DEADLOCK FALSE
