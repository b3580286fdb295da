\* The user acts three times, the connection breaks once, two others connect.
CONSTANTS
  Rooms = {"jazz", "rock"}
  Moves = 3
  Drops = 1
  Others = 2
SPECIFICATION FairLogin
CHECK_DEADLOCK FALSE
INVARIANTS LoginInStep
PROPERTIES LoginCompletes
