SPECIFICATION Spec
CONSTANTS
  PipeCap = 1
  ReadMax = 1
  ForceKillAfter = 1
  MaxClock = 0
  MaxOut = 0
  Endless = FALSE
  MaxStdin = 0
  ExitCodes = {0, 3}
  OptionSet <- SignalOptions
  Sigpipe = {"ignored"}
  Timeouts = {0}
INVARIANT SignalledIsNotSuccess
CHECK_DEADLOCK FALSE
