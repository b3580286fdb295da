\* Two clients, of which one may be proxied.
CONSTANTS
  Recs = {r1, r2, r3}
  Fds = {f1, f2, f3}
  Workers = {w1}
  Chunks = {"part", "more", "end"}
  Cap = 2
  MaxInput = 1
  MaxClients = 2
  NULL = NULL
SPECIFICATION Spec
CHECK_DEADLOCK FALSE
SYMMETRY Symmetry
INVARIANTS Consistent OneOwner ProxiedOneWay EveryoneHeard
PROPERTIES UsesFifo
