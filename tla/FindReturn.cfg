SPECIFICATION Spec
CONSTANTS
  Names <- MCNames
  Programs <- ReturnProgram
  InitialResults <- MCInitialResults
INVARIANTS
  ReturnsInt32
