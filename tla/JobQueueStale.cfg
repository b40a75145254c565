\* Executions may outlive their lock (MaxRun > Expiry + 1), every client call.
CONSTANTS
  w1 = w1
  w2 = w2
  None = None
  Workers = {w1, w2}
  Mortal = {w1, w2}
  Queues = {q1}
  Keys = {k1}
  MaxAdds = 2
  MaxAttempts = 2
  MaxDelay = 1
  Expiry = 1
  MaxRun = 3
  ClientCalls <- AllCalls
SPECIFICATION Spec
SYMMETRY WorkerSymmetry
INVARIANTS
  TypeOK
  QueueRowsMatch
  KeysUnique
  QueueLocks
  LeaseExclusive
  DroppedNeverStarts
PROPERTY OwnLocksOnly
