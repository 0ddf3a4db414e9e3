SPECIFICATION Spec
CONSTANTS
  Functions <- MCFunctions
  Types <- MCTypes
  Programs <- CallPrograms
  RootCalls = 2
INVARIANTS NoNullCall TypesHonest ResumesAtSplit NothingLeftInProgress
PROPERTIES ImplementsCalls Ends
