SPECIFICATION FairSpec
CONSTANTS
  c1 = c1
  c2 = c2
  c3 = c3
  r1 = r1
  m0 = m0
  NoRoom = NoRoom
  NoPeer = NoPeer
  Conns = {c1, c2, c3}
  RoomIds = {r1}
  MaxRoomSize = 2
  ChannelCapacity = 2
  MediaStates = {m0}
  DefaultMedia = m0
  Claims <- OwnOnly
  MaxMessages = 1
PROPERTIES
  ViewsCatchUp
CHECK_DEADLOCK FALSE
