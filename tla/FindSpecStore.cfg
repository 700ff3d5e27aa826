SPECIFICATION FairSpec
CONSTANTS
  x = x
  y = y
  Addrs = {x, y}
  Cases <- SpecStoreCases
  MaxMemOps = 2
  MaxLength = 5
  GraduateRate = 4
  MaxExternal = 1
  MaxMispredict = 0
PROPERTY NoSpeculativeStore
CHECK_DEADLOCK FALSE
