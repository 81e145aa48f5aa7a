SPECIFICATION FairSpec
CONSTANTS
  i1 = i1
  i2 = i2
  None = None
  Items = {i1, i2}
  MaxTime = 2
  MaxFailures = 2
  MaxBreaks = 2
CHECK_DEADLOCK FALSE
INVARIANTS
  TypeOK
  IdleIsTimely
  ClosedIsQuiet
PROPERTIES
  EveryItemIsProcessed
