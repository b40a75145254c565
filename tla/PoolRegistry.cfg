\* Two owners, two signals, a second registration after the first cleanup.
CONSTANTS
  Owners = {o1, o2}
  Nobody = Nobody
  Handlers = 2
  MaxSignals = 2
SPECIFICATION FairSpec
INVARIANTS
  TypeOK
  ExitLeavesLatePools
  StuckHoldsLocks
PROPERTY EndsUnlessStuck
CHECK_DEADLOCK FALSE
