SPECIFICATION Spec
CONSTANTS
  MaxFrames = 3
  MaxOwn = 1
  MaxThrown = 2
INVARIANTS
  Unwound
  CallerKept
  ErrorForwarded
PROPERTY ExitReaches
CHECK_DEADLOCK FALSE
