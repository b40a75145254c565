\* Two versions, two failures or crashes at any statement.
CONSTANTS
  old = old
  new1 = new1
  new2 = new2
  Programs = {old, new1, new2}
  Version <- Versions
  MaxFailures = 2
SPECIFICATION FairSpec
INVARIANTS
  TypeOK
  AppliedInFull
PROPERTY MigratesUnlessEmpty
CHECK_DEADLOCK FALSE
