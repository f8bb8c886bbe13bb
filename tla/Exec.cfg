SPECIFICATION FairSpec
CONSTANTS
  PipeCap = 1
  ReadMax = 1
  ForceKillAfter = 1
  MaxClock = 4
  MaxOut = 4
  Endless = FALSE
  MaxStdin = 4
  ExitCodes = {0, 3}
  OptionSet <- StdoutOnly
  Sigpipe = {"default"}
  Calls <- SomeCalls
INVARIANTS
  NothingLeft
  OutputComplete
  ResultCode
  WaitedFor
PROPERTIES
  TimeoutTerminates
  CatEchoes
  KeepsContract
CHECK_DEADLOCK FALSE
