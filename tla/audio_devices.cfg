SPECIFICATION DevicesSpec
CONSTANTS
  Channels = 2
  RingSize = 2
  ScratchSize = 3
  FrameSize = 2
  MinYield = 1
  MaxYield = 3
  TransportSize = 1
  Open = 3
  AttackStep = 2
  EmitEvery = 3
  MaxSamples = 6
  MaxMixed = 2
  MaxCommands = 1
INVARIANTS
  DevicesTypeOK
  ChannelsStayTogether
  SoundIsWhole
  GateFades
