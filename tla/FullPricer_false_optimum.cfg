SPECIFICATION Spec
CONSTANTS
  Workers = {t1, t2}
  Groups <- MCGroups
  Arcs <- MCArcs
  Paths <- MCPaths
  Constraints <- MCConstraints
  GroupOf <- MCGroupOf
  PathGroup <- MCPathGroup
  ArcsOf <- MCArcsOf
  Entries <- SharedEntries
  DualVectors <- MCDualVectors
  Epsilon = 0
  MaxColumns = 6
  MaxScipErrors = 0
SYMMETRY ThreadSymmetry
INVARIANTS
  OptimalityGuarantee
