SPECIFICATION TCSpec
CONSTANTS
  Names <- MCNames
  Programs <- AllPrograms
  InitialResults <- MCInitialResults
INVARIANTS
  TCTypeOK
  CheckedTreeHasNoLiteral
  UsesFollowDeclarations
  CheckerFollowsRules
PROPERTIES
  AnnotationsOnlyRefine
