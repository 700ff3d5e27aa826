SPECIFICATION MCBounded
CONSTANTS
  Nodes = {n1, n2, n3}
  Lines = {l1}
  BufMax = 2
  MaxMisses = 4
  InCap = 1
  OutCap = 8
  MSI = FALSE
  DataPipeFull = FALSE
  NULL = NULL
INVARIANTS SingleWriter DirectoryKnows
VIEW View
SYMMETRY NodeSymmetry
CHECK_DEADLOCK FALSE
