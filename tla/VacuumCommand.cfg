SPECIFICATION Spec
CHECK_DEADLOCK FALSE
CONSTANTS
  MaxWord = 20
  Self = "self"
  Peers = {"p"}
  Commands <- MCCommands
  MaxPages = 3
  MaxSpace = 6
  MaxWal = 2
  MaxUsed = 1
  BatchPages = 1
  Attempts = 2
INVARIANTS
  TypeOK
  GateCoversRebuild
  NothingUnasked
  ReclaimedExact
PROPERTIES
  SwapKeepsEverything
  ReclaimEnds
