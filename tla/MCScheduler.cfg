SPECIFICATION FairSpec
CONSTANTS
    Channels = {c1, c2}
    NoChannel = NoChannel
    Modes = {"kist", "lite", "vanilla"}
    Low = 1
    High = 2
    Batch = 1
    Window = 2
    SizeMax = 8
    MaxData = 3
INVARIANTS
  NotForgotten
  ListedHasConnection
  SocketsKnown
PROPERTIES
  CellsServed
