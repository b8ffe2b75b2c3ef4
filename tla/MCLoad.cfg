SPECIFICATION FairSpec
CONSTANTS
  Chars = {"x", "-", "q", "e2"}
  Bytes = {"x", "-", "q", "l2", "l3", "c"}
  ChunkSize = 2
  MaxInput = 5
  Apis = {"iter", "all", "first"}
  Sources = {"stream", "string"}
  MayConvertFail = TRUE
INVARIANTS
  TypeOK
  EveryByteDecodedOnce
  DocumentsAreWhole
  OneDocumentAtATime
PROPERTIES
  StreamErrorIsFinal
  CallsReturn
CHECK_DEADLOCK FALSE
