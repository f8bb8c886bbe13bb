SPECIFICATION Spec
CONSTANTS
  Objs = {o1, o2}
  Fds = {3}
  Modes <- SomeModes
  Bytes = {"CR", "LF"}
  Texts <- SomeTexts
  Newlines <- SomeNewlines
  Sizes = {2}
  ReadMax = 2
  MaxSize = 3
INVARIANTS
  DescriptorsOwned
  NothingSwallowed
  LineReturned
  WriteAccounted
PROPERTIES
  AppendOnly
  OpenPreserves
