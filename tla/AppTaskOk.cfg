CONSTANTS
  MaxFile = 1
  UpMax = 2
  MaxEchoes = 4
SPECIFICATION Spec
INVARIANTS OkMeansInstalled
