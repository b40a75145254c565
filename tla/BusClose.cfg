\* Does Close return?
CONSTANTS
  h1 = h1
  h2 = h2
  Handlers = {h1}
  Capacity = 1
  MaxEmits = 1
  Closes = TRUE
SPECIFICATION FairSpec
PROPERTY CloseReturns
CHECK_DEADLOCK FALSE
