SPECIFICATION Spec
CONSTANTS
  None = None
  Settings <- MCSettings
INVARIANTS
  TypeOK
  LoweredWhole
  WrittenOnceInOrder
  FlowHoldsNoBlock
  CommentsInPlace
  AliasesFollowAnchors
  EntriesAligned
CHECK_DEADLOCK FALSE
