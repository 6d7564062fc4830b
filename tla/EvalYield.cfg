SPECIFICATION Spec
CONSTANTS
  NULL = NULL
  Names = {"root", "compose", "ext", "no such attribute"}
  SetNames = {"root", "compose", "ext"}
  MaxCalls = 2
  MaxAtts = 3
  Composers = {c1, c2}
  Classes = {"img"}
  FromConfig <- MCFromConfig
  Values <- MCValues
  Readable <- ReadsAny
INVARIANT YieldJoins
