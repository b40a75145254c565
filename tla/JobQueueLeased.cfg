\* Every execution ends within its lock (MaxRun = Expiry); w1 may die, the
\* sweep keeps running.
CONSTANTS
  w1 = w1
  w2 = w2
  None = None
  Workers = {w1, w2}
  Mortal = {w1}
  Queues = {q1}
  Keys = {k1}
  MaxAdds = 2
  MaxAttempts = 2
  MaxDelay = 1
  Expiry = 1
  MaxRun = 1
  ClientCalls <- AllCalls
SPECIFICATION SweptSpec
INVARIANTS
  QueueSerial
  NothingLost
PROPERTIES
  LedgerSpec
  LeaseSpec
  EventuallySettled
