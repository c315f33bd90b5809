SPECIFICATION Spec
CONSTANTS
  Servers = {"a", "b"}
  Databases = {"x", "y"}
  Written <- MCWritten
  MaxTabs = 3
  MaxGestures = 3
PROPERTY OpensTheOneClicked
CHECK_DEADLOCK FALSE
