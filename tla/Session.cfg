SPECIFICATION SessionSpec
CONSTANTS
  Kinds <- AllKinds
  MaxCommands = 3
  MaxPieces = 2
INVARIANT RightReader
PROPERTIES
  KeepsTurns
  CommandAnswered
  
CHECK_DEADLOCK FALSE
