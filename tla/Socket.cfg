SPECIFICATION Spec
CONSTANTS
  Fds = {3, 4}
  MaxIn = 3
  MaxTx = 4
INVARIANTS
  SocketOwned
  StreamComplete
  SendReported
  ErrorIsClosed
CHECK_DEADLOCK FALSE
