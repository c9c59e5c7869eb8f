CONSTANTS
  Attempt = {a1, a2, a3}
  None = None
  MaxFaults = 1
SPECIFICATION FairSpec
INVARIANTS
  NoLeakedPc
  ConnectedIsBacked
  SendsOnOpenChannel
  Agreement
  AnswerMatchesOffer
PROPERTIES
  InitiatorReconnects
  LinkRestored
