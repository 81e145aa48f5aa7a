SPECIFICATION Spec
CONSTANTS
  d1 = d1
  d2 = d2
  d3 = d3
  Devices = {d1, d2, d3}
  Home = d1
  None = None
  MaxHandoffs = 1
  Route <- MCRoute
  MaxAsks = 0
  MaxFaults = 2
INVARIANTS
  SourceStaysAuthoritative
CHECK_DEADLOCK FALSE
