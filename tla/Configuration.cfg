SPECIFICATION AllSpec
CONSTANTS
  NULL = NULL
  NOTHING = NOTHING
  Names <- MCNames
  MaxCalls = 2
  Classes = {"A", "B", "C"}
  Configs <- AllConfigs
  MaxDepth = 4
  Inputs <- ShortTexts
  MaxAdds = 2
  Documents <- MCDocuments
  SLACK = 0
  ADDF = 1
  CHUNK = 1
  NUL = NUL
  JUNK = JUNK
  NONE = NONE
  Bufs = {b1, b2}
  Bytes = {"a", " "}
  MaxLen = 2
  MaxCells = 6
INVARIANTS AllTypeOK HoldsText OneOwner ReadsDocuments UsableEntries NeverMixed LoadsExpected
PROPERTIES OwnValuesStay CallsReturn
