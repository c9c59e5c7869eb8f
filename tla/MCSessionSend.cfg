CONSTANTS
  Attempt = {a1, a2, a3}
  None = None
  MaxFaults = 1
SPECIFICATION Spec
SYMMETRY AttemptSymmetry
INVARIANT ConnectedCanSend
