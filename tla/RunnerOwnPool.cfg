\* Run with a pool of its own: a connection string in place of a pool.
CONSTANTS
  Crontabs <- MCCrontabs
  Digests <- MCDigests
  Once = {g1}
  Stoppers = {s1}
  Adders = {a1}
  Readers = {r1}
SPECIFICATION Spec
INVARIANT RunsUntilStopped
CHECK_DEADLOCK FALSE
