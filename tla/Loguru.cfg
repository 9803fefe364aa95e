SPECIFICATION Spec
CONSTANTS
  Main = main
  Workers = {worker}
  Loglevel = 0
  LogFiles <- MCLogFiles
  Messages = {0}
  Scopes = {2}
  ArenaOf <- MCArenaOf
  MaxCalls = 3
  MaxSignals = 1
INVARIANTS
  TypeOK
  NothingLost
  IndentedByNesting
  LastWords
PROPERTIES
  CallsReturn
  CallsProgress
CHECK_DEADLOCK FALSE
