\* Two browsers, two connections each, one of which breaks: whatever the users
\* do, a browser may be back before the server has noticed that it was gone.
SPECIFICATION Spec
CONSTANTS
  Browsers = {b1, b2}
  b1 = b1
  b2 = b2
  RoomSize = 3
  MaxSessions = 2
  MaxBreaks = 1
  MaxClicks = 1
  MaxQueue = 2
SYMMETRY BrowserSymmetry
CHECK_DEADLOCK FALSE
INVARIANTS
  TypeOK
  PeersMatchTheRoom
  CardsShowWhatWasTold
