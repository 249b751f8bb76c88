SPECIFICATION Spec
CONSTANTS
  Names <- MCNames
  Inputs <- MCInputs
INVARIANTS
  TypeOK
  ParsesToProgram
  ParserFollowsGrammar
PROPERTIES
  EveryStepProgresses
