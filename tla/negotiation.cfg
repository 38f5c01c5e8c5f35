SPECIFICATION FairSpec
CONSTANTS
  camera = camera
  screen = screen
  Mic = Mic
  Tracks = {camera, screen}
  MaxToggles = 2
INVARIANTS
  TypeOK
  CycleIsSound
  QuietMeansAgreed
PROPERTIES
  TracksArrive
CHECK_DEADLOCK FALSE
