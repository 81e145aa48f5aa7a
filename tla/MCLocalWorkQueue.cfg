SPECIFICATION FairSpec
CONSTANTS
  j1 = j1
  j2 = j2
  w1 = w1
  w2 = w2
  None = None
  Jobs = {j1, j2}
  Runtimes = {w1, w2}
  MaxAttempts = 2
  MaxEnqueues = 2
  MaxStops = 1
  MaxSplits = 1
CHECK_DEADLOCK FALSE
INVARIANTS
  TypeOK
  OneHandlerPerJob
PROPERTIES
  CompletedByNewestClaim
  KeepsLedger
  EveryJobSettles
