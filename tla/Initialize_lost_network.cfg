SPECIFICATION Spec
CONSTANTS
  Workers = {t1, t2}
  Files <- MCFiles
  FileGroup <- MCFileGroup
  FileArcs <- MCFileArcs
  Outcomes <- AnyOutcome
  Netzwerk <- MCNetzwerk
  Conss <- FewConss
  ConsVars <- FewConsVars
INVARIANTS
  AllNetworksLoaded
