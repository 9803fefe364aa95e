SPECIFICATION Spec
CONSTANTS
  Workers = {t1}
  Groups <- MCGroups
  Arcs <- MCArcs
  Paths <- MCPaths
  Constraints <- MCConstraints
  GroupOf <- MCGroupOf
  PathGroup <- MCPathGroup
  ArcsOf <- MCArcsOf
  Entries <- SharedEntries
  DualVectors <- MCDualVectors
  Epsilon = 0
  MaxColumns = 6
  MaxScipErrors = 1
PROPERTIES
  ScipErrorsAreFatal
CHECK_DEADLOCK FALSE
