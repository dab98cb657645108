SPECIFICATION BarrierFair
CONSTANTS
  Threads = {m, 1, 2, 3}
  Items = {"a", "b", "c"}
  NoItem = NoItem
  Capacity = 1
  Free = Free
  Spurious = FALSE
  WorkerCount = 3
  Manager = m
  Dirs = {"top", "sub"}
  Root = "top"
  Parent <- Tree
  Earlier = {}
  OpenFails = TRUE
  Signals = TRUE
INVARIANTS
  BarrierInv
  PhaseComplete
PROPERTY Terminates
