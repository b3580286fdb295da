\* Two workers and two connections: two clients, or a client and its upstream.
CONSTANTS
  Recs = {r1, r2}
  Fds = {f1, f2}
  Workers = {w1, w2}
  Chunks = {"more", "end"}
  Cap = 2
  MaxInput = 1
  NULL = NULL
  BUFFER_SIZE = 2
  MAX_ROUTES = 2
  Characters = {"i", "c", "r"}
SPECIFICATION Spec
CHECK_DEADLOCK FALSE
SYMMETRY Symmetry
INVARIANTS Consistent NoEdgeLost RecordsLive OneOwner RoutesAsConfigured RangesHonoured
PROPERTIES UsesFifo
