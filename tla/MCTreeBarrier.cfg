SPECIFICATION FairSpec
CONSTANTS
  N = 4
  MaxRounds = 4
PROPERTIES IsBarrier AllLeave
CHECK_DEADLOCK FALSE
