\* One member with a microphone, four frames over three wire numbers.
SPECIFICATION Spec
CONSTANTS
  p1 = p1
  d1 = d1
  d2 = d2
  DefaultDevice = d1
  NoDevice = NoDevice
  Peers = {p1}
  Sources <- MCSources
  Devices = {d1, d2}
  Wrap = 3
  MaxPlc = 1
  QueueSize = 1
  ControlSize = 1
  EventSize = 1
  MaxFrames = 4
  MaxCommands = 2
CHECK_DEADLOCK FALSE
INVARIANTS
  TypeOK
  RingFollowsVoice
  CommandsArrive
PROPERTIES
  NeverReplays
