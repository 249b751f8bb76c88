SPECIFICATION Spec
CONSTANTS
  Names <- MCNames
  Programs <- MixedProgram
  InitialResults <- MCInitialResults
INVARIANTS
  IntLiteralsAreInts
