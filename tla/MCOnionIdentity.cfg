CONSTANTS
  Runner = {r1}
  Inviter = {i1, i2}
  Key = {k1, k2, k3}
  None = None
  MaxCrashes = 2
SPECIFICATION Spec
SYMMETRY OnionSymmetry
INVARIANTS
  OneAddress
  PublishedPersists
  InvitesAgree
