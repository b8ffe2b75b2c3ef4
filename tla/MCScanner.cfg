SPECIFICATION Spec
CONSTANTS
  Texts <- MCTexts
  KeyLimit = 8
INVARIANTS
  TypeOK
  StacksConsistent
  KeysAreQueued
  CommentsInOrder
PROPERTIES
  RequiredKeysAreKept
  TokensNest
CHECK_DEADLOCK FALSE
