SPECIFICATION Spec
CONSTANTS
  Addresses = {a, b}
  Requests = {r1, r2}
  FrameBytes = 2
  Chunks = 1
  MaxBytes = 3
  MaxCaptures = 1
  MaxCaptured = 1
SYMMETRY Symmetry
INVARIANTS OwnBytesOnly InOrder AnsweredInFull
CHECK_DEADLOCK FALSE
