SPECIFICATION Spec
CONSTANTS
  Peers = {p1, p2}
  SameName = {p2}
  RoomSize = 3
  MeshCapacity = 2
  GhostsLinger = TRUE
  MaxConnections = 2
  MaxToggles = 2
INVARIANTS
  TypeOK
  
  ViewIsRoom
CHECK_DEADLOCK FALSE
