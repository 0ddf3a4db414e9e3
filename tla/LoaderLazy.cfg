SPECIFICATION Spec
CONSTANTS
  Modules = {main, a, c}
  Main = main
  Builtins = {c}
  Programs <- MCPrograms
  Eager = FALSE
  MaxRetries = 1
  MaxEdges = 3
INVARIANTS LoaderInv CyclicIsExplained CrashHasACause
PROPERTIES Termination SoundProgramsRun
