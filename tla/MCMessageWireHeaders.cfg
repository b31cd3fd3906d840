CONSTANTS
  Messages <- Headers
  Prefix = 64
SPECIFICATION MessageSpec
INVARIANTS HeadersParse
