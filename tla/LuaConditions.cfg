CONSTANTS
  MAXINDEXRK = 3
  MAXSTACK = 16
  MAXARG_sBx = 1000
  MAXARG_C = 2
  LFIELDS_PER_FLUSH = 2
  LUAI_MAXVARS = 8
  LUAI_MAXUPVALUES = 2
  LUAI_MAXCCALLS = 14
  BASIC_STACK_SIZE = 8
  EXTRA_STACK = 5
  LUA_MINSTACK = 4
  BASIC_CI_SIZE = 8
  LUAI_MAXCALLS = 20
  LUAI_MAXCSTACK = 12
  MAXTAGLOOP = 3
  Alphabet <- MCAlphabet
  Programs <- ConstantPrograms
SPECIFICATION Spec
INVARIANT RunsAsWritten
