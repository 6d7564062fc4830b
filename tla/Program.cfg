SPECIFICATION AllSpec
CONSTANTS
  NULL = NULL
  NoPath = NoPath
  Names <- MCNames
  MaxCalls = 2
  Args <- MCArgs
  FromConfig <- MCFromConfig
  Systems <- MCSystems
  Procs = {p1, p2}
  Paths <- MCPaths
  Disks <- MCDisks
  EvalNames = {"root", "compose", "ext", "no such attribute"}
  SetNames = {"root", "compose", "ext"}
  MaxAtts = 3
  Composers = {c1, c2}
  Classes = {"img"}
  EvalFromConfig <- EvalMCFromConfig
  Values <- EvalValues
  Readable <- EvalReadable
INVARIANTS AllTypeOK PrintsRequested MakesDirectories MakesAll FailsForCause NothingLeft EvalAgrees
PROPERTIES ExistingNeedNoMkdir OnlyLeading AllReturn
