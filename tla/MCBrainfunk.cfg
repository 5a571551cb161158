SPECIFICATION BrainfunkSpec
CONSTANTS
  CellMod = 4
  MemSize = 2
  Sources <- MCSources
  Inputs <- MCInputs
INVARIANTS
  MachineTypeOK
  NoHalfPrograms
  RunStaysInProgram
