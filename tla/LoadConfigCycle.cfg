SPECIFICATION Spec
CONSTANTS
  NULL = NULL
  Names <- MCNames
  MaxCalls = 2
  Classes = {"A", "B", "C"}
  Configs <- AllConfigs
  MaxDepth = 4
PROPERTY NewReturns
CHECK_DEADLOCK FALSE
