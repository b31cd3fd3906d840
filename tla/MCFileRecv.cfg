CONSTANTS
  a = a
  b = b
  h = h
  o = o
  Chunk <- MCChunk
  Hole <- h
  Old <- o
  MaxFile = 3
  Unparsed = {2}
  UpMax = 1
SPECIFICATION Spec
INVARIANTS AcknowledgedIsComplete PrefixOnly
PROPERTIES AbsSpec RecvReturns
