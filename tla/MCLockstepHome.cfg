SPECIFICATION LockstepSpec
CONSTANTS
  CellMod = 4
  MemSize = 4
  WordMod = 16
  Sources <- HomeSources
  Inputs <- MCInputs
INVARIANTS
  AlwaysAgree
CHECK_DEADLOCK FALSE
