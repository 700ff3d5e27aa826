SPECIFICATION Spec
CONSTANTS
  r0 = r0
  r1 = r1
  cc = cc
  f1 = f1
  IntRegs <- MCIntRegs
  FpRegs <- MCFpRegs
  ZEROREG = r0
  IntSpare <- MCIntSpare
  FpSpare <- MCFpSpare
  Codes <- MCCodes
  MAX_ACTIVE_NUMBER = 6
  MAX_SPEC = 1
  NUM_WINS = 3
  MaxTag = 5
INVARIANTS
  RegistersConserved MappersConsistent NobodyForgotten WindowConsistent
