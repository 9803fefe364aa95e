SPECIFICATION FairSpec
CONSTANTS
  Workers = {t1, t2}
  Files <- MCFiles
  FileGroup <- MCFileGroup
  FileArcs <- MCFileArcs
  Outcomes <- AnyOutcome
  Netzwerk <- MCNetzwerk
  Conss <- MCConss
  ConsVars <- MCConsVars
INVARIANTS
  TypeOK
  LoopReadsAlive
  AllConstraintsChecked
  MapsInverse
  ReadyForPricing
  ArcInItsNetwork
PROPERTIES
  Starts
