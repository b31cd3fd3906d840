CONSTANTS
  MaxFrames = 2
  Pieces = 2
  First = 2
  Idle = 2
  Narrow = 1
  Overall = 3
  None = None
SPECIFICATION Spec
INVARIANTS SocketAccounted HandshakeIsExact OkIsWhole LateOnlyByTrickle
PROPERTIES CommandEnds
