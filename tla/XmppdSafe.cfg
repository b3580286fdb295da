\* Three connections, each with a slot of its own.  The two rooms and "", which
\* a presence without a room joins, are one more than known_rooms has place for.
CONSTANTS
  Fds = {4, 5, 6}
  MaxEvents = 4
  Rooms = {r1, r2}
  Lobby = Lobby
  MaxRooms = 2
  Backlog = 2
  Coalesced = 2
  NULL = NULL
SPECIFICATION Spec
SYMMETRY Symmetry
INVARIANTS Consistent NobodySkipsAuth RoomListsFresh RosterComplete RoomsListed
