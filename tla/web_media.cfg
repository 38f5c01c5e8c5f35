\* Two shares that may overlap, a microphone switched twice, a member that comes and goes.
SPECIFICATION Spec
CONSTANTS
  Peers = {q1}
  MaxShares = 2
  MaxSwitches = 2
CHECK_DEADLOCK FALSE
INVARIANTS
  TypeOK
  SharesOnlyWhatItSays
  HearsWhoItWants
