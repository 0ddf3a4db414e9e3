CONSTANTS
  Programs <- StalePrograms
  LayoutsOf <- StaleLayouts
  Valid = {}
  Builtins <- MCBuiltins
  BuiltinFunctions <- MCBuiltinFunctions
  BuiltinClasses <- MCBuiltinClasses
  Modules <- MCModules
  ModuleTexts <- MCModuleTexts
  TypeClasses <- MCTypeClasses
  Answers <- MCAnswers
  Chances = {0}
  MaxSteps = 12
SPECIFICATION Spec
INVARIANT BranchesDecided
CHECK_DEADLOCK FALSE
