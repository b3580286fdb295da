\* One worker, no symmetry: liveness.
CONSTANTS
  Recs = {r1, r2}
  Fds = {f1, f2}
  Workers = {w1}
  Chunks = {"end"}
  Cap = 2
  MaxInput = 1
  NULL = NULL
  BUFFER_SIZE = 2
  MAX_ROUTES = 2
  Characters = {"i", "c", "r"}
SPECIFICATION FairSpec
CHECK_DEADLOCK FALSE
PROPERTIES HangupsEnd
