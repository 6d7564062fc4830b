SPECIFICATION MCSpec
CONSTANTS
  NULL = NULL
  Names <- MCNames
  MaxCalls = 2
  Composers = {c1, c2}
  Classes = {"iterate", "clone", "find"}
  FromConfig <- MCFromConfig
  Values <- MCValues
  Paths <- MCPaths
  MaxAlts = 3
INVARIANTS TypeOK VisitsAll FindComplete
PROPERTIES NeverTwice TestsOnce Enumerates FindReturns
