SPECIFICATION Spec
CONSTANTS
  Letters <- MCLetters
  Digits <- MCDigits
  Spaces <- MCSpaces
  Strangers <- MCStrangers
  KEYWORDS <- MCKEYWORDS
  Inputs <- MCTextInputs
INVARIANTS
  SkipsInvalid
