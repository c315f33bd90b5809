SPECIFICATION CommitSpec
CONSTANTS
  Keys = {1, 2}
  NewKeys = {2}
  Values = {a, b}
  Nothing = Nothing
  Unique = FALSE
  Disturbances = {"query"}
  MaxCommits = 1
  MaxOthers = 0
PROPERTY ToldIsTrue
