\* Two calls of Run, Release at any moment, failing statements and handlers.
CONSTANTS
  Jobs = {j1, j2}
  Callers = {c1}
  Timers = {t1, t2}
  MaxErrors = 2
  MaxAttempts = 2
  MaxRuns = 2
  Faults = {"get", "finish"}
SPECIFICATION FairSpec
INVARIANTS
  TypeOK
  ReleaseDropsOne
  SweepChain
PROPERTY ReleaseEnds
CHECK_DEADLOCK FALSE
