SPECIFICATION Spec
CHECK_DEADLOCK FALSE
CONSTANTS
  Ids = {1, 2, 3}
  Projects = {"p", "q"}
  NoParent = 0
  Commands <- MCCommands
  Databases <- MCDatabases
  Layouts <- MCLayouts
  Plausible = {20, 40}
  Schemas <- MCSchemas
  Bytes <- MCBytes
  Top = 2
  Boundaries <- MCBoundaries
  MaxWrites = 3
INVARIANTS
  FiguresTrue
  CensusBracketed
