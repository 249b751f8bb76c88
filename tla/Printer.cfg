SPECIFICATION Spec
CONSTANTS
  Names <- MCNames
  Programs <- AllPrograms
  InitialResults <- MCInitialResults
INVARIANTS
  TypeOK
  LayoutShowsNesting
  PrintedTreeReadsBack
