SPECIFICATION Spec
CONSTANTS
  W = 8
  Globals <- MCGlobals
  Programs <- MCPrograms
  Code <- MCCode
  Inputs <- MCInputs
  NUM_WINS = 4
  SZ_BUF = 2
  RAS_STKSZ = 2
  ALLOC_SIZE = 16
  Heap = 16
  Stack = 208
  lowshared = 224
  Shared <- MCShared
  MAXSTACKSIZE = 160
  Fresh = 2
INVARIANTS
  Computed
  Memory
  Windows
CHECK_DEADLOCK FALSE
