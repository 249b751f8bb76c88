SPECIFICATION Spec
CONSTANTS
  Letters <- MCLetters
  Digits <- MCDigits
  Spaces <- MCSpaces
  Strangers <- MCStrangers
  KEYWORDS <- MCKEYWORDS
  Inputs <- MCInputs
INVARIANTS
  TypeOK
  LocationsExact
PROPERTIES
  LexerTerminates
  ImplementsTokenStream
