CONSTANTS
  Messages <- MCMessages
  Prefix = 64
SPECIFICATION MessageSpec
INVARIANTS ParsedAsWritten RaisesOnOddPadding
PROPERTIES ParseEnds
