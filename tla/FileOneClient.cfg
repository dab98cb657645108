SPECIFICATION FileSpec
CONSTANTS
  Procs = {p1}
  Slots = {0, 1}
  Names = {"f", "g"}
  NoFile = NoFile
  Capacity = 1
  Registered <- TableEmpty
  Cwd0 <- Directory
  Srv0 <- ServerDirectory
  Ops = {"readF", "readF_invalid", "writeT", "writeT_line", "upload", "download", "readF_line"}
  LineNumbers = {1, 2, 3}
  Failures = {"open", "read", "tmpfile", "write", "string", "client"}
  MaxOps = 3
CHECK_DEADLOCK FALSE
INVARIANTS
  TableWithinCapacity
  AckedAppendsKept
