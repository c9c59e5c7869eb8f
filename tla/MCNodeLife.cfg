CONSTANTS
  Contact = {c1, c2}
  Smaller = {c1}
  Stored = {c1}
  None = None
  MaxOffers = 2
SPECIFICATION FairSpec
CHECK_DEADLOCK FALSE
INVARIANTS
  RelayLeft
  OnlyLateOffersStay
PROPERTIES
  IteratesUnchanged
  StopEnds
