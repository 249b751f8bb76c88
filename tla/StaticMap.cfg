SPECIFICATION Spec
CONSTANTS
  Initializers <- MCInitializers
  Sought <- MCSought
INVARIANTS
  TypeOK
  DuplicatesRefused
PROPERTIES
  FindsWhatWasGiven
  EveryTypeIsNamed
