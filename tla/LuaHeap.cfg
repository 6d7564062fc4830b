SPECIFICATION AllSpec
CONSTANTS
  NIL = NIL
  NULL = NULL
  MAXBITS = 3
  MAX_INT = 2
  NumHash <- MCHash
  Keys <- MCKeys
  Events <- MCEvents
  NEWINDEX <- newindex
  MaxSize = 3
  FREED = FREED
  INT = INT
  DEADKEY = DEADKEY
  SWEEPMAX = 2
  MINSTRTABSIZE = 1
  Hash <- StringHash
  Scenes <- HeapScenes
  Texts = {"a", "b"}
  MaxObjects = 7
  MaxStack = 2
  MaxOps = 4
INVARIANTS AllTypeOK AnswersRight TraversalComplete FreesInTime Interned
PROPERTIES FinalizesInOrder CollectsGarbage Reclaims
