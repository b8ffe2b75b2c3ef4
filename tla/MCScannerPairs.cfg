SPECIFICATION Spec
CONSTANTS
  Texts <- MCPairs
  KeyLimit = 8
PROPERTIES
  PairsNest
CHECK_DEADLOCK FALSE
