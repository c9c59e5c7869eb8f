SPECIFICATION FairSpec
CONSTANTS
    Channels = {c1}
    NoChannel = NoChannel
    Modes = {"lite"}
    Low = 1
    High = 2
    Batch = 1
    Window = 2
    SizeMax = 8
    MaxData = 3
PROPERTY DestroysScheduled
