SPECIFICATION Spec
CONSTANTS
  Workers = {t1, t2}
  Groups <- MCGroups
  Arcs <- MCArcs
  Paths <- MCPaths
  Constraints <- MCConstraints
  GroupOf <- MCGroupOf
  PathGroup <- MCPathGroup
  ArcsOf <- MCArcsOf
  Entries <- SharedEntries
  DualVectors <- MCDualVectors
  Epsilon = 0
  MaxColumns = 4
  MaxScipErrors = 1
SYMMETRY ThreadSymmetry
INVARIANTS
  CacheCoherent
  ColumnsComplete
  NamesFreshAcrossRounds
  StoredPathFits
  HangsOnlyAfterError
  GuardsAreExact
PROPERTIES
  SolveProgresses
CHECK_DEADLOCK FALSE
