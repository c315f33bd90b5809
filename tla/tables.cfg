SPECIFICATION TablesSpec
CONSTANTS
  s1 = s1
  s2 = s2
  t = t
  u = u
  None = None
  Sessions = {s1, s2}
  Relations = {t, u}
  Strips <- Tabs
  Designing = s1
  MaxGestures = 4
  MaxForeign = 1
  Initially <- Told1
  Contested = {u}
  MaxTyped = 5
  MaxBrowsed = 4
  Nothing = Nothing
  TableRows <- MCRows
  Rank <- MCRank
  Values = {"x", "y"}
  Pointers = {"pointer"}
  Meaning <- MCMeaning
  Keyed = {t}
  PointsAt <- MCPointsAt
  KeptTabs <- MCStrips
  PageSize = 2
  Gestures = {"filter", "refresh", "page", "sort", "tab", "follow"}
  MaxChips = 4

INVARIANT EditsInOrder
INVARIANT EditabilityIsCurrent
INVARIANT DesignHolds
INVARIANT BrowseHolds
PROPERTY UnsavedDesignIsKept
PROPERTY SavedDesignIsShown
PROPERTY PagesRepeatNothing
PROPERTY GrantsSettle

CHECK_DEADLOCK FALSE
