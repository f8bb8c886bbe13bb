SPECIFICATION FairSpec
CONSTANTS
  MaxLen = 5
  Replies = {"text", "true", "false", "other"}
INVARIANTS
  TypeOK
  LinesDelivered
  NoLineHeldBack
PROPERTY AllFlushed
CHECK_DEADLOCK FALSE
