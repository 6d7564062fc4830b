SPECIFICATION DirSpec
CONSTANTS
  NoPath = NoPath
  Procs = {p1, p2}
  Paths <- MCPaths
  Disks <- MCDisks
CHECK_DEADLOCK FALSE
INVARIANT AlwaysReturns
