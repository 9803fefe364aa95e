SPECIFICATION Spec
CONSTANTS
  Nodes <- MCNodes
  SourceNodes = {"source"}
  SinkNodes = {"sink"}
  Files <- MCFiles
  Content <- MCContent
  SimpleFiles <- MCSimpleFiles
  FileArcs <- MCFileArcs
  FilePaths <- MCFilePaths
  Weights <- MCWeights
  MaxWeight = 1
INVARIANTS
  TypeOK
  EndsAreUnique
PROPERTIES
  ImplementsWeightedPaths
