SPECIFICATION Spec
CONSTANTS
  Threads = {t1, t2}
  Keys = {k1, k2}
  Handles = {h1, h2, h3, h4}
  Values = {"new"}
  None = None
  Settings <- MCSettings
  Calls = {"node", "set", "set_alias", "del", "sort", "annotate"}
  MaxCalls = 2
INVARIANTS
  TypeOK
  HandlesAreLive
PROPERTIES
  PromiseKept
  NodeIsStable
CHECK_DEADLOCK FALSE
