CONSTANTS
  Calls = {q1, q2}
  Bodies <- MCBodies
  MaxOut = 2
  PipeCap = 1
SPECIFICATION FairPipes
INVARIANTS ShortOnlyIfLate
PROPERTIES RequestsEnd
CHECK_DEADLOCK FALSE
