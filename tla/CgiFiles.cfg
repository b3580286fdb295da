\* Two processes race for the accounts, and a save may fail; three jobs fetch albums.
CONSTANTS
  Names = {"ann", "bob"}
  Passwords = {"long", "split", "cut", "made"}
  Cut <- CutAt32
  Generated = "made"
  Lists = {"mix"}
  Tracks = {"t1"}
  MaxTracks = 1
  NULL = NULL
  Procs = {p1, p2}
  Asked <- Races
  OnFile <- Files
  MaxFaults = 1
  Jobs = {j1, j2, j3}
  Albums = {a1, a2}
  Seconds = {1, 2}
  Old = Old
SPECIFICATION FilesSpec
CONSTRAINT OneKind
SYMMETRY Alike
INVARIANTS Consistent AlbumsWhole
PROPERTY NothingLost
CHECK_DEADLOCK FALSE
