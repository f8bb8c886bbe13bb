SPECIFICATION Spec
CONSTANTS
  Objs = {o1, o2}
  Fds = {3, 4}
  Users = {o1}
  Newlines <- SomeNewlines
  Texts <- SomeTexts
  MaxTx = 2
INVARIANTS
  OwnsDescriptor
  Tracked
  Exclusive
  LinesComplete
  WriteAccounted
CHECK_DEADLOCK FALSE
