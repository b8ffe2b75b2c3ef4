SPECIFICATION FairSpec
CONSTANTS
  Names = {a}
  Handles = {h}
  None = None
  MaxDepth = 2
  MaxErrors = 1
INVARIANTS
  TypeOK
  StackDiscipline
PROPERTIES
  EventsWellNested
  StreamEndIsReached
  DocumentsAreSeparated
