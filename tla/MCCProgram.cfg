SPECIFICATION CSpec
CONSTANTS
  CellMod = 4
  MemSize = 3
  Programs <- MCPrograms
  Inputs <- MCInputs
PROPERTIES
  CObeysMachine
CHECK_DEADLOCK FALSE
