SPECIFICATION Spec
CONSTANTS
  NULL = NULL
  Names <- MCNames
  MaxCalls = 2
  Classes = {"A", "B", "C"}
  Configs <- AcyclicConfigs
  MaxDepth = 4
INVARIANT ClassOverridesParents
CHECK_DEADLOCK FALSE
