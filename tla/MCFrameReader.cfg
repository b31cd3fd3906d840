CONSTANTS
  Base = 2
  MaxFrameSize = 5
  ChunkMax = 5
  StreamLen = 9
  Streams <- MCStreams
  Written <- MCWritten
SPECIFICATION Spec
INVARIANTS Framed EndIsHonest RoundTrip PrefixOfStream
PROPERTIES AbsSpec TimedCallReturns
