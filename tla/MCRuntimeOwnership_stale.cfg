SPECIFICATION Spec
CONSTANTS
  p1 = p1
  p2 = p2
  p3 = p3
  None = None
  Processes = {p1, p2, p3}
  PID <- MCPID
  Kinds = {"packaged", "source", "stop", "install"}
  MaxFaults = 1
CHECK_DEADLOCK FALSE
PROPERTIES
  LeftToTheLiving
