\* Three calls over two sockets.
CONSTANTS
  Calls = {r1, r2, r3}
  Sockets = {s1, s2}
  NoSocket = NoSocket
  NoCall = NoCall
SPECIFICATION FairConnection
INVARIANTS OwnReply NobodyStranded
PROPERTIES Settles ImplementsChannel
