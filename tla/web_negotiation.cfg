\* Both pages offer at once, change their tracks and restart ICE at any moment
\* of the other's exchange.
SPECIFICATION NegotiationSpec
CONSTANTS
  Polite = polite
  Impolite = impolite
  MaxTracks = 2
  MaxRestarts = 1
  MaxOffers = 3
CHECK_DEADLOCK FALSE
INVARIANTS
  NegotiationTypeOK
  NegotiationSettles
