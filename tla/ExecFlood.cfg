SPECIFICATION FairSpec
CONSTANTS
  PipeCap = 1
  ReadMax = 1
  ForceKillAfter = 1
  MaxClock = 4
  MaxOut = 1
  Endless = TRUE
  MaxStdin = 0
  ExitCodes = {0, 3}
  OptionSet <- StdoutOnly
  Sigpipe = {"ignored"}
  Calls <- OneCall
PROPERTY TimeoutTerminates
CHECK_DEADLOCK FALSE
