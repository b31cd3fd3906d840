CONSTANTS
  MaxOut = 3
  MaxIn = 2
SPECIFICATION ShellSpec
INVARIANTS OutputInOrder
PROPERTIES ReadsReturn
