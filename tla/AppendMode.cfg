SPECIFICATION Spec
CONSTANTS
  Objs = {o1}
  Fds = {3}
  Modes <- AppendModes
  Bytes = {"a"}
  Texts <- SomeTexts
  Newlines <- SomeNewlines
  Sizes = {1}
  ReadMax = 1
  MaxSize = 2
INVARIANT AppendModeWrites
