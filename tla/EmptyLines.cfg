SPECIFICATION Spec
CONSTANTS
  MaxLen = 4
  Replies = {"true"}
INVARIANT EmptyLinesKept
CHECK_DEADLOCK FALSE
