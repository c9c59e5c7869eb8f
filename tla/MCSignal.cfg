CONSTANTS
  Peer = {p1}
  Me = me
  Nonce = {n1, n2, n3}
  None = None
  MaxSeen = 2
  MaxSkew = 1
  MaxTime = 5
  MaxAccepts = 4
  MaxUpdates = 1
SPECIFICATION Spec
SYMMETRY NonceSymmetry
INVARIANTS
  OnlyGenuine
  AtMostOnce
PROPERTIES
  FirstIsAccepted
