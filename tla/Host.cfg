SPECIFICATION HostSpec
CONSTANTS
  None = None
  Release = {"1", "2"}
  Root = {"root"}
  DepthOf <- MCDepthOf
  UserDepth <- MCUserDepth
  Foreign = Foreign
  MaxCommands = 4
  ClaudeMishaps = 2
  Runtimes = {"v1", "v2"}
  Package = {"p1", "p2"}
  HostOwn = HostOwn
  Occupied = {{"v1"}}
  FirstPackage = "p1"
  Bounds <- MCBounds
  Pair = {"astra high", "terra high"}
  Profiled = {"astra high"}
  Visible = {"astra high", "terra high"}
  Pinned = {}
  Neither = Neither
  MaxChanges = 3
  Words = {"mine", "theirs"}
  MaxSessions = 2
  MaxOthers = 2
INVARIANTS
  UndoneIsUndone
  RemovalRestoresOriginal
  FailureLeavesHome
  RemovalRestoresHost
  MigrationKeepsEdits
  SpawnIsOfTheBoundWriter
  EditsAreNotLost
CHECK_DEADLOCK FALSE
