\* Three connections for two workers and two nodes; no symmetry: liveness.
CONSTANTS
  Clients = {c1, c2, c3}
  Workers = {w1, w2}
  Tasks = {t1, t2}
  Main = Main
  NULL = NULL
SPECIFICATION FairSpec
INVARIANTS Consistent OneOwner NoLostWakeup
PROPERTIES ImplementsFifo EveryPushIsServed
