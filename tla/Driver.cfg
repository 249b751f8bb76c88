SPECIFICATION Spec
CONSTANTS
  Compilers = {c1, c2}
  Texts <- MCTexts
  Calls <- MCCalls
  Disk <- MCDisk
  Refusal <- MCRefusal
  Blocks <- MCBlocks
  HasMain <- MCHasMain
INVARIANTS
  TypeOK
  RefusedLeaveNoTrace
PROPERTIES
  SilenceMeansSuccess
