\* One operation and the heartbeat over two sockets, two generations. A path ends when
\* both sockets are used up.
CONSTANTS
  Calls = {"flow", "beat"}
  Sockets = {1, 2}
  NoSocket = 0
  MaxGen = 2
SPECIFICATION FairController
INVARIANTS UpHasItsSocket FailedIsFinal
PROPERTIES Corrected FailureIsReal
CHECK_DEADLOCK FALSE
