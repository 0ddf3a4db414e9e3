CONSTANT Programs <- RaiseInLoop
SPECIFICATION Spec
INVARIANT MeansWhatPythonMeans
