SPECIFICATION Spec
CONSTANTS
  Texts <- MCTexts
  None = None
  BlankLimit = 2
  anchor = anchor
  k1 = k1
  k2 = k2
INVARIANTS
  TypeOK
  StackFollowsEvents
  DocsAligned
  AliasesResolve
  CommentsOnceInOrder
  BlankLinesAreReal
PROPERTIES
  InlineOnOwnLines
  ItemsKeepBlankLines
CHECK_DEADLOCK FALSE
