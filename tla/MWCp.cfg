SPECIFICATION MWCpFair
CONSTANTS
  Threads = {m, 1, 2}
  Items = {"a", "b", "c", "d", "e", "g"}
  NoItem = NoItem
  Capacity = 2
  Free = Free
  Spurious = TRUE
  WorkerCount = 2
  Manager = m
  Dirs = {"top", "sub"}
  Root = "top"
  Parent <- Tree
  Earlier <- NamesOrder
  OpenFails = TRUE
  Signals = TRUE
INVARIANTS
  CopyInv
  WorkersLeaveLast
  CompleteAtEnd
  NoUseAfterDestroy
  DescriptorsBounded
PROPERTIES
  ImplementsJob
  Terminates
