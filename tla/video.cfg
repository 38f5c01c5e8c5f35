\* One video switched on, off or to another device, two RTCP packets.
SPECIFICATION FairSpec
CONSTANTS
  QueueSize = 1
  FeedbackSize = 1
  MaxSkip = 3
  MaxFeedback = 2
  MaxToggles = 2
CHECK_DEADLOCK FALSE
INVARIANTS
  TypeOK
  HeadsDoNotMix
  FeedbackIsHeard
  SkipIsSteady
PROPERTIES
  StopReturns
  KeyframesKeepComing
