SPECIFICATION Spec
CONSTANTS
  CellMod = 4
  MemSize = 4
  WordMod = 16
  Sources <- MCSources
  Inputs <- MCInputs
INVARIANTS
  NothingUndefined
  StackIsOpenBrackets
PROPERTIES
  ObeysLanguage
CHECK_DEADLOCK FALSE
