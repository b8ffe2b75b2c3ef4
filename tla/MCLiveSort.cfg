SPECIFICATION FairSpec
CONSTANTS
  Threads = {t1}
  Keys = {k1, k2}
  Handles = {h1, h2, h3}
  Values = {"new"}
  None = None
  Settings <- MCSort
  Calls = {"sort"}
  MaxCalls = 1
PROPERTIES
  FailureChangesNothing
CHECK_DEADLOCK FALSE
