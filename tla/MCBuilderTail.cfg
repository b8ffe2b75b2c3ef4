SPECIFICATION Spec
CONSTANTS
  Texts <- MCTail
  None = None
  BlankLimit = 2
  anchor = anchor
  k1 = k1
  k2 = k2
INVARIANT NoCommentLeftOver
CHECK_DEADLOCK FALSE
