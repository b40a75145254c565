\* Every fault, handlers that hang, a full error channel, a listener that reconnects.
CONSTANTS
  w1 = w1
  w2 = w2
  Workers = {w1, w2}
  Jobs = {j1, j2}
  ErrorCap = 1
  NudgeCap = 1
  MaxNotices = 1
  MaxReconnects = 1
  Faults = {"panic", "fetch", "finish", "parent"}
SPECIFICATION FairSpec
INVARIANTS
  TypeOK
  QuietWhenComplete
  LeaksHaveCauses
PROPERTIES
  ShutdownCompletes
  JobsFetched
CHECK_DEADLOCK FALSE
