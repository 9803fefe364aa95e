SPECIFICATION FairSpec
CONSTANTS
  Workers = {t1}
  Groups <- MCGroups
  Arcs <- MCArcs
  Paths <- MCPaths
  Constraints <- MCConstraints
  GroupOf <- MCGroupOf
  PathGroup <- MCPathGroup
  ArcsOf <- MCArcsOf
  Entries <- SharedEntries
  DualVectors <- MCWideDualVectors
  Epsilon = 1
  MaxColumns = 6
  MaxScipErrors = 0
INVARIANTS
  TypeOK
  ColumnsPriceOut
  OptimalityGuarantee
  PathOfVariable
PROPERTIES
  ImplementsColumnGeneration
