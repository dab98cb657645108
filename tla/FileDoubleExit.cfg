SPECIFICATION FileSpec
CONSTANTS
  Procs = {p1, p2}
  Slots = {0}
  Names = {"f"}
  NoFile = NoFile
  Capacity = 1
  Registered <- TableF
  Cwd0 <- Directory
  Srv0 <- ServerDirectory
  Ops = {"readF_line", "writeT", "readF"}
  LineNumbers = {1}
  Failures = {}
  MaxOps = 2
CHECK_DEADLOCK FALSE
INVARIANT FileExclusion
