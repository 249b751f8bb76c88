SPECIFICATION Spec
CONSTANTS
  Names <- MCNames
  Programs <- SetProgram
  InitialResults <- MCInitialResults
INVARIANTS
  LiteralsInferredFromContext
