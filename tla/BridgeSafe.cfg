\* A whole pair and a client: requests in pieces, more than one recv takes, numbers used again.
CONSTANTS
  Fds = {f1, f2, f3}
  Sessions = {s1, s2, s3, s4}
  Listener = Listener
  Chunks = {"part", "hello", "nokey", "data"}
  Cap = 2
  MaxInput = 3
  NULL = NULL
  SizeMod = 1048576
SPECIFICATION Spec
SYMMETRY Symmetry
CHECK_DEADLOCK FALSE
INVARIANTS Consistent NoEdgeLost FramesIntact
PROPERTY ClosedForCause
