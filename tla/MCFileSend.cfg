CONSTANTS
  a = a
  b = b
  NoFile = NoFile
  Chunk <- MCChunk
  Absent <- NoFile
  MaxFile = 3
  UpMax = 2
SPECIFICATION Spec
INVARIANTS StoredIsLocal DaemonNeverConfused
PROPERTIES AbsSpec SendReturns
