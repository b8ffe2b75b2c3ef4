SPECIFICATION Spec
CONSTANTS
  None = None
  Settings <- MCKeys
INVARIANTS
  AliasesFollowAnchors
CHECK_DEADLOCK FALSE
