\* One room, one join, no broken connection.
CONSTANTS
  Rooms = {"jazz"}
  Moves = 1
  Drops = 0
  Others = 0
SPECIFICATION LoginSpec
CHECK_DEADLOCK FALSE
INVARIANTS JoinedWhenReady
