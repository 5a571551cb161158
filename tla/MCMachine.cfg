SPECIFICATION Spec
CONSTANTS
  CellMod = 4
  MemSize = 3
  Programs <- MCPrograms
  Inputs <- MCInputs
  Screens <- MCScreens
INVARIANTS
  TypeOK
  StaysInProgram
  CurrentIsShown
  TapeIsShown
PROPERTIES
  LoopsAreStructured
