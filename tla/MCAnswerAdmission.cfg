SPECIFICATION FairSpec
CONSTANTS
  r1 = r1
  r2 = r2
  r3 = r3
  r4 = r4
  Requests = {r1, r2, r3, r4}
  MaxActive = 2
  MaxWaiting = 2
CHECK_DEADLOCK FALSE
INVARIANTS
  TypeOK
  SlotsHeld
  NobodyWaitsInVain
PROPERTIES
  FirstComeFirstServed
  EveryWaiterSettles
