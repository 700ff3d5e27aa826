SPECIFICATION MCSpec
CONSTANTS
  Nodes = {n1, n2, n3}
  Writer = n1
  Lines = {l1}
  BufMax = 2
  InCap = 1
  OutCap = 1
  MSI = FALSE
  NULL = NULL
  MaxWait = 1
  MaxOutbound = 1
CONSTRAINT Small
INVARIANTS PickedThere NoStranded VectorOK CohesCounted Accounts
CHECK_DEADLOCK FALSE
VIEW View
SYMMETRY ReaderSymmetry
