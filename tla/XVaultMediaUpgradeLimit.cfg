SPECIFICATION Spec
CONSTANTS
  Slots <- MCSlots
  Cards <- MCCards
  CardOf <- MCCardOf
  Passes = {p1}
  NoPath = NoPath
  Limit = 1
  MaxStarts = 2
  MaxRetries = 1
INVARIANT ReportIsFinal
CHECK_DEADLOCK FALSE
