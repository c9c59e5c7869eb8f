CONSTANTS
  n1 = n1
  n2 = n2
  other = other
  Client = {n1, n2, other}
  Detaching = {n1, n2}
  Polling = {n1}
  KeyOf <- MCKeyOf
  MaxPolls = 1
  MaxDrops = 1
SPECIFICATION FairSpec
CHECK_DEADLOCK FALSE
INVARIANTS
  InStep
  UpIsServed
PROPERTIES
  StartEnds
