CONSTANTS
  MaxFile = 3
  UpMax = 2
  MaxEchoes = 4
SPECIFICATION Spec
INVARIANTS InstalledIsWhole VerdictHeeded
PROPERTIES AbsSpec AppTaskReturns
