SPECIFICATION Spec
CONSTANTS
  CellMod = 4
  MemSize = 4
  WordMod = 16
  StackSize = 3
  CR = 1
  LF = 2
  Codes <- MCCodes
  Inputs <- MCInputs
INVARIANTS
  NothingUndefined
  StackIsOpenLoops
PROPERTIES
  SuitedObeysLanguage
CHECK_DEADLOCK FALSE
