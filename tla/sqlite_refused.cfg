SPECIFICATION SpecNoFairness
CONSTANTS
    Servers = {"a", "b"}
    Databases = {"x", "y"}
    Written <- MCWritten
    MaxTabs = 3
    MaxGestures = 3
    Writes = 2
    MaxOpens = 2
    MaxCalls = 2
    MaxPresses = 1
    Texts <- MCTexts
    Results <- MCResults
    MaxRows = 1
    MaxAsks = 2
    MaxCancels = 1
    MaxKey = 3
    Types = {"list", "hash"}
    AnyType = "any"
    Budget = 2
    MaxChanges = 1
    MaxFailures = 1
    MaxLines = 1
    Limit = 1
    MaxElements = 3
    MaxRemovals = 2
    Origins = {"c1", "c2"}
    Panes = {1, 2}
    Scripts = {"", "a", "b"}
    Names = {"n", "a"}
    Suggested <- MCSuggested
    MaxSaved = 3
    MaxQueryTabs = 2
    MaxSteps = 9
    Kept = {"c1", "c2"}
    Passwords = {"p", "q"}
    Begun = {0, 1, 2, 3}
    MaxReads = 2
    MaxKept = 4
INVARIANT
    RefusedNeverLands
CHECK_DEADLOCK FALSE
