\* FillBuffer called on a full buffer.
SPECIFICATION Spec
CONSTANTS
  Size = 3
  Text <- MCText
  Counts = {1, 2}
  MaxFailures = 1
INVARIANTS ZeroMeansEnd
