SPECIFICATION SumSpec
CONSTANTS
  Array <- Drawn
  Faults = {"fork", "malloc"}
  Garbage = Garbage
INVARIANTS
  NothingElseIsTheSum
  FifosRemoved
PROPERTY ParentEnds
CHECK_DEADLOCK FALSE
