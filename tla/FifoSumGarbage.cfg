SPECIFICATION SumSpec
CONSTANTS
  Array <- Drawn
  Faults = {}
  Garbage = Garbage
INVARIANT SumIsReadBeforePrint
CHECK_DEADLOCK FALSE
