SPECIFICATION FairLockSpec
CONSTANTS
  Procs = {p1, p2}
  Slots = {f1}
CHECK_DEADLOCK FALSE
PROPERTY WriterProceeds
