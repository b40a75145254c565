\* Executions may outlive their lock: is newer information kept?
CONSTANTS
  w1 = w1
  w2 = w2
  None = None
  Workers = {w1, w2}
  Mortal = {}
  Queues = {q1}
  Keys = {k1}
  MaxAdds = 2
  MaxAttempts = 2
  MaxDelay = 0
  Expiry = 1
  MaxRun = 3
  ClientCalls = {}
SPECIFICATION Spec
INVARIANT NothingLost
