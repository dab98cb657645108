SPECIFICATION ServerFair
CONSTANTS
  Null = Null
  Unset = Unset
  Clients <- FourClients
  MaxClients = 2
INVARIANTS
  PlacesInv
  RoomInv
PROPERTIES
  ImplementsRoom
  WaitersServed
  NoneLeftInLoop
CHECK_DEADLOCK FALSE
