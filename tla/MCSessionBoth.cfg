CONSTANTS
  Attempt = {a1, a2, a3}
  None = None
  MaxFaults = 1
SPECIFICATION FairSpec
PROPERTY BothReconnect
