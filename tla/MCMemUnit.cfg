SPECIFICATION FairSpec
CONSTANTS
  x = x
  y = y
  Addrs = {x, y}
  Cases <- MCCases
  MaxMemOps = 2
  MaxLength = 5
  GraduateRate = 4
  MaxExternal = 1
  MaxMispredict = 1
INVARIANTS
  QueuesConsistent OwnStoresSeen BarrierKept
PROPERTIES
  NoSpeculativeStore EverythingGraduates
CHECK_DEADLOCK FALSE
