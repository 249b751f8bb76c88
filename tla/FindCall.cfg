SPECIFICATION Spec
CONSTANTS
  Names <- MCNames
  Programs <- CallProgram
  InitialResults <- MCInitialResults
INVARIANTS
  NoMisuse
