SPECIFICATION Spec
CONSTANTS
  d1 = d1
  d2 = d2
  d3 = d3
  Devices = {d1, d2, d3}
  Home = d1
  None = None
  MaxHandoffs = 2
  Route <- MCRoute
  MaxAsks = 2
  MaxFaults = 1
INVARIANTS
  TypeOK
  NothingLeftBehind
  TurnsAreTakenOnce
PROPERTIES
  ExecutionIsExclusive
  FailsOnlyItsOwn
CHECK_DEADLOCK FALSE
