\* Every entry, two goroutines, two callers of Stop, of AddJob and receivers.
CONSTANTS
  Crontabs <- MCCrontabs
  Digests <- MCDigests
  Once = {g1, g2}
  Stoppers = {s1, s2}
  Adders = {a1, a2}
  Readers = {r1, r2}
SPECIFICATION FairSpec
INVARIANTS
  TypeOK
  StopTellsTheTruth
  ReleasesWhatItHolds
  PatternsFireAsWritten
PROPERTY StopReleases
CHECK_DEADLOCK FALSE
