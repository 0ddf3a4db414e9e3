CONSTANT Programs <- NotTaken
SPECIFICATION Spec
INVARIANT MeansWhatPythonMeans
