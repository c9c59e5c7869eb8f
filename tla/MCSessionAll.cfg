CONSTANTS
  Attempt = {a1, a2, a3}
  None = None
  MaxFaults = 2
SPECIFICATION Spec
SYMMETRY AttemptSymmetry
INVARIANTS
  TypeOK
  NoLeakedPc
  ConnectedIsBacked
  SendsOnOpenChannel
  Agreement
  AnswerMatchesOffer
