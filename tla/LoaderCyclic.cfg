SPECIFICATION Spec
CONSTANTS
  Modules = {main, a, b}
  Main = main
  Builtins = {}
  Programs <- MCPrograms
  Eager = TRUE
  MaxRetries = 1
  MaxEdges = 2
INVARIANTS CyclicMeansCycle
