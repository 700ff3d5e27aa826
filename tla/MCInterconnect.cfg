CONSTANTS
  Nodes <- MCNodes
  BusPort = 1
  NetPort = 2
  Cases <- MCCases
  None = None
SPECIFICATION FairSpec
CHECK_DEADLOCK FALSE
INVARIANTS Awake Delivery
PROPERTY AllArrive
