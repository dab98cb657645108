SPECIFICATION FileSpec
CONSTANTS
  Procs = {p1, p2}
  Slots = {0, 1}
  Names = {"f", "g"}
  NoFile = NoFile
  Capacity = 2
  Registered <- TableFG
  Cwd0 <- Directory
  Srv0 <- ServerDirectory
  Ops = {"readF", "writeT", "writeT_line", "upload", "download"}
  LineNumbers = {1}
  Failures = {"open", "read", "write", "fputs", "client"}
  MaxOps = 2
SYMMETRY ProcSymmetry
CHECK_DEADLOCK FALSE
INVARIANTS
  LockInv
  CommandInv
  FileExclusion
  ReadersSeeStableFile
  FreeBetweenCommands
PROPERTY LockSpec
