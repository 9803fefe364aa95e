SPECIFICATION Spec
CONSTANTS
  Runs <- TestedRuns
  Solutions <- MCSolutions
  Verbosities = {"9", "INFO"}
INVARIANTS
  TestedNamesParse
CHECK_DEADLOCK FALSE
