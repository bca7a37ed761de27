SPECIFICATION Spec
CONSTANTS
  Slots <- MCSlots
  Cards <- MCCards
  CardOf <- MCCardOf
  Passes = {p1, p2}
  NoPath = NoPath
  Limit = 2
  MaxStarts = 2
  MaxRetries = 1
SYMMETRY PassSymmetry
INVARIANT ReportIsFinal
PROPERTY ReadersSeeOneFile
CHECK_DEADLOCK FALSE
