CONSTANTS
  Other <- MCOther
  Dir <- MCDir
  Loading = 8
  Enough = 15
  Done = 20
  Threshold = 3
SPECIFICATION BootSpec
INVARIANTS
  BootTypeOK
  MessageIsPercent
  DirReported
  PhaseKnown
  NeverAborts
PROPERTIES
  NeverBack
