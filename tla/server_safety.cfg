SPECIFICATION Spec
CONSTANTS
  c1 = c1
  c2 = c2
  c3 = c3
  r1 = r1
  r2 = r2
  m0 = m0
  m1 = m1
  NoRoom = NoRoom
  NoPeer = NoPeer
  Conns = {c1, c2, c3}
  RoomIds = {r1, r2}
  MaxRoomSize = 2
  ChannelCapacity = 3
  MediaStates = {m0, m1}
  DefaultMedia = m0
  Claims <- OwnOnly
  MaxMessages = 1
SYMMETRY ServerSymmetry
INVARIANTS
  TypeOK
  RegistryIsConsistent
  ClientsSeeTheRoom
PROPERTY
  KeepsPromise
CHECK_DEADLOCK FALSE
