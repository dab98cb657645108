SPECIFICATION GradesSpec
CONSTANTS
  Files = {"f", "default"}
  NoFile = NoFile
  NL = NL
  NUL = NUL
  DefaultFile = "default"
  Names = {19, 20}
  LongNames = {20}
  Grades = {9}
  Numbers = {1, 3}
  MaxEntries = 2
  MaxFaults = 1
  Demo <- DemoEntries
PROPERTY ImplementsBook
CHECK_DEADLOCK FALSE
