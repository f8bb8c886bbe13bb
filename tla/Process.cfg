SPECIFICATION Spec
CONSTANTS
  PipeCap = 1
  ReadMax = 1
  ForceKillAfter = 1
  MaxClock = 4
  MaxOut = 1
  Endless = FALSE
  MaxStdin = 2
  ExitCodes = {0, 3}
  OptionSet <- ProcessOptions
  Sigpipe = {"ignored", "default"}
  Timeouts = {0, 2}
INVARIANTS
  NoOutputLost
  NoPrematureClose
  StdinConserved
  StaleSignalOnlyInKill
  PidIsOwnChild
  ExitCodeReported
  Escalation
  NothingLeftBehind
PROPERTIES
  FinishedIsFinal
  KeepsContract
CHECK_DEADLOCK FALSE
