SPECIFICATION Spec
CONSTANTS
  Fds = {3, 4}
  MaxIn = 2
  MaxTx = 3
INVARIANT ConnectEstablished
CHECK_DEADLOCK FALSE
