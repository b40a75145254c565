\* Emitters, subscribers and Close at any time.
CONSTANTS
  h1 = h1
  h2 = h2
  Handlers = {h1, h2}
  Capacity = 1
  MaxEmits = 3
  Closes = TRUE
SPECIFICATION FairSpec
INVARIANTS
  TypeOK
  OnceInOrder
  ReturnsDrained
PROPERTY OwedIsCalled
CHECK_DEADLOCK FALSE
