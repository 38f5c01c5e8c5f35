\* Two members; one clears the chat and hears of its own clear.
SPECIFICATION Spec
CONSTANTS
  Browsers = {b1, b2}
  b1 = b1
  b2 = b2
  MaxMessages = 1
  MaxClicks = 2
  MaxQueue = 2
CHECK_DEADLOCK FALSE
INVARIANT
  NoEcho
