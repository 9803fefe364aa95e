SPECIFICATION PFairSpec
CONSTANTS
  Workers = {t1, t2}
  K = 2
  Groups <- MCGroups
  Arcs <- MCArcs
  Paths <- MCPaths
  Constraints <- MCConstraints
  GroupOf <- MCGroupOf
  PathGroup <- MCPathGroup
  ArcsOf <- MCArcsOf
  Entries <- PrivateEntries
  DualVectors <- MCFewDualVectors
  Epsilon = 0
  MaxColumns = 6
  MaxScipErrors = 0
INVARIANTS
  KTypeOK
  StrategyFollowed
  WeightsComplete
  NoDuplicateColumn
PROPERTIES
  ImplementsColumnGeneration
  Termination
