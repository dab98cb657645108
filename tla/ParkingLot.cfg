SPECIFICATION FairSpec
CONSTANTS
  Max <- SmallLot
  MaxSignals = 2
INVARIANTS
  LotInv
  AllParkedWhenFull
PROPERTY Ends
