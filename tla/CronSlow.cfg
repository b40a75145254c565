\* Statements take time, backfills overlap with tickers, ticks are dropped, backfills do not
\* reach back to the start.  The clock of s1 and of its sessions is one; that of s2 is
\* put forward at minute 3, and its sessions are two minutes ahead of it.
CONSTANTS
  s1 = s1
  s2 = s2
  Null = Null
  Schedulers = {s1, s2}
  PerMinute = 2
  Local <- ProcessClock
  Session <- SessionClock
  Pattern = {1, 3}
  Backfill = TRUE
  Period = 3
  MayFail = TRUE
  MaxTime = 8
  MaxStarts = 3
SPECIFICATION Spec
INVARIANTS
  TypeOK
  DuplicatesHaveCauses
  MissedWereGivenUp
CHECK_DEADLOCK FALSE
