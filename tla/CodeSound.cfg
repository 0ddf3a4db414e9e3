CONSTANT Programs <- Sound
SPECIFICATION Spec
INVARIANTS StackAsPlanned HandlersLinked NothingFreedIsUsed ReferencesExact MeansWhatPythonMeans CompilerAccepts
