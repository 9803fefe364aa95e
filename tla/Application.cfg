SPECIFICATION Spec
CONSTANTS
  Runs <- MCRuns
  Solutions <- MCSolutions
  Verbosities = {"9", "INFO"}
INVARIANTS
  TypeOK
  ParsedArc
  FlowReported
  ExitCodeTruthful
PROPERTIES
  Ends
CHECK_DEADLOCK FALSE
