CONSTANTS
  Programs <- MCPrograms
  LayoutsOf <- MCLayouts
  Valid <- MCValid
  Builtins <- MCBuiltins
  BuiltinFunctions <- MCBuiltinFunctions
  BuiltinClasses <- MCBuiltinClasses
  Modules <- MCModules
  ModuleTexts <- MCModuleTexts
  TypeClasses <- MCTypeClasses
  Answers <- MCAnswers
  Chances = {0, 1, 2}
  MaxSteps = 12
SPECIFICATION Spec
INVARIANTS ParsesAsWritten ScopesAsInPython SplitsDistinct IdsUnique AnalysisSound TestsCompile
CHECK_DEADLOCK FALSE
