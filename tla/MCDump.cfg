SPECIFICATION Spec
CONSTANTS
  Apis = {"dump", "dump_all"}
  MaxDocs = 3
  MaxSize = 3
  Capacity = 2
INVARIANTS
  TypeOK
  NoFragmentLost
  EarlierDocumentsRemain
  SuccessIsComplete
CHECK_DEADLOCK FALSE
