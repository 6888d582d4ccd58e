SPECIFICATION Spec
CHECK_DEADLOCK FALSE
CONSTANTS
  Dirs <- MCDirs
  Order <- MCOrder
  Storage = "storage"
  Snapshot = "snapshot"
  Outside = "outside"
  Elsewhere = "elsewhere"
  Trees <- MCTrees
  Roots <- MCRoots
  SessionFiles = {"a", "b", "c"}
  LiveSessions = {"a"}
  DeletedSessions = {"b"}
  LiveProjects = {"a"}
  PrunedProjects = {"b"}
  Commands <- MCCommands
  MaxFaults = 1
INVARIANTS
  TypeOK
  LeftoversReported
  CountsExact
PROPERTIES
  OnlyDeadRemoved
  CleanupEnds
