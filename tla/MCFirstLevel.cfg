SPECIFICATION FairSpec
CONSTANTS
  a = a
  b = b
  NULL = NULL
  Lines <- MCLines
  MaxAccess = 3
  FirstLines = {a}
  MaxExternal = 1
  MaxMshrs = 1
  MaxCoals = 1
  WbufSz = 1
  L1Ports = 2
  WbPort = 1
  L2Port = 1
  Recalls = {"COPYBACK"}
INVARIANTS EachOnce NoneAround Inclusion
PROPERTY EveryAccessDone
CHECK_DEADLOCK FALSE
