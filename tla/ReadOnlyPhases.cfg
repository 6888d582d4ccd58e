SPECIFICATION Spec
CHECK_DEADLOCK FALSE
CONSTANTS
  Jobs = 4
  MaxCores = 2
  Outcomes = {"ok", "failed"}
  Success = "ok"
  Self = "self"
  Places = {"A", "B"}
  Procs = {"self", "p"}
  Commands <- MCCommands
  MaxFiles = 3
INVARIANTS
  TypeOK
  NoLostWakeup
  OneFile
  HolderNeverMissed
PROPERTIES
  GroupReturns
