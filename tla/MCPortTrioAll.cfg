CONSTANTS
  n1 = n1
  n2 = n2
  n3 = n3
  Node <- MCNode
  Dir <- MCDir
  Seed <- MCSeed
  None = None
  Other = Other
  Bases = 7
  Win32 = FALSE
  Elsewhere = {2}
SPECIFICATION PortSpec
CHECK_DEADLOCK FALSE
SYMMETRY NodeSymmetry
INVARIANTS
  PortTypeOK
  NotShared
  PickedIsFree
  PickedIsFirst
  OwnRelay
