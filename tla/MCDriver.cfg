SPECIFICATION DriverSpec
CONSTANTS
  Activities = {a1, a2, a3, a4, a5}
  NULL = NULL
  CALQSZ = 4
  Times = {0, 1, 3, 4}
  Widths = {1, 2}
  InitBins = {2, 8}
  Delays = {0, 3}
  Durations = {0, 1}
  MaxSerial = 5
SYMMETRY ActivitySymmetry
INVARIANT NothingOverdue
PROPERTY ListSpec
