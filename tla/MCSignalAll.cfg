CONSTANTS
  Peer = {p1, p2}
  Me = me
  Nonce = {n1, n2}
  None = None
  MaxSeen = 1
  MaxSkew = 1
  MaxTime = 3
  MaxAccepts = 2
  MaxUpdates = 1
SPECIFICATION Spec
SYMMETRY NonceSymmetry
INVARIANTS
  TypeOK
  OnlyGenuine
  AtMostOnce
PROPERTIES
  FirstIsAccepted
