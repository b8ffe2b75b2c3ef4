SPECIFICATION Spec
CONSTANTS
  None = None
  Settings <- MCWide
INVARIANTS
  EntriesAligned
CHECK_DEADLOCK FALSE
