SPECIFICATION MCLive
CONSTANTS
  Nodes = {n1, n2}
  Lines = {l1}
  BufMax = 1
  MaxMisses = 3
  InCap = 4
  OutCap = 8
  MSI = FALSE
  DataPipeFull = FALSE
  NULL = NULL
INVARIANTS NoFatal OneRequestInFlight L2Consistent
PROPERTIES SharingSpec EveryRequestServed BuffersDrain
VIEW View
CHECK_DEADLOCK FALSE
