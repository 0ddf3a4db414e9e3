SPECIFICATION Spec
CONSTANTS
  Functions <- MCFunctions
  Types <- MCTypes
  Programs <- CodelessPrograms
  RootCalls = 2
INVARIANTS NoNullCall
