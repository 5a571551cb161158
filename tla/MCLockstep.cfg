SPECIFICATION LockstepSpec
CONSTANTS
  CellMod = 4
  MemSize = 4
  WordMod = 16
  Sources <- MCSources
  Inputs <- MCInputs
INVARIANTS
  AgreeUnlessHomeTouched
  EndTogether
PROPERTIES
  InterpreterFollows
CHECK_DEADLOCK FALSE
