SPECIFICATION Spec
CONSTANTS
  Names <- MCNames
  Programs <- AllPrograms
  InitialResults <- MCInitialResults
INVARIANTS
  CGTypeOK
  NoInternalError
  LoadsMatchAllocas
  RequestsWellTyped
  GenerationFollowsSource
  RunsAsWritten
  BlocksFollowReturns
PROPERTIES
  CompilationTerminates
