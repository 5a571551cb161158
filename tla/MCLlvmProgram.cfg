SPECIFICATION LlvmSpec
CONSTANTS
  CellMod = 4
  MemSize = 3
  WrapperTape = 3
  Programs <- MCPrograms
  Inputs <- MCInputs
INVARIANTS
  OnlyEmptyIsRefused
  LabelsExist
PROPERTIES
  LlvmObeysMachine
CHECK_DEADLOCK FALSE
