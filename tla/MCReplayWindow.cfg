CONSTANTS
  Peer = {p1, p2}
  Nonce = {n1, n2, n3, n4}
  MaxSeen = 2
  MaxAccepts = 4
SPECIFICATION WindowSpec
PROPERTIES
  PyImplements
  RustImplements
