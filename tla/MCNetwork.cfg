CONSTANTS
  MeshSize <- Mesh22
  BufSize = 2
  BufThresh = 1
  PortSize = 2
  MaxPackets = 3
  Cases <- MCCases
  None = None
SPECIFICATION FairSpec
CHECK_DEADLOCK FALSE
INVARIANTS BuffersAgree NoRing
PROPERTIES Refines AllReceived
