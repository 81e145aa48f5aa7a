SPECIFICATION Spec
CONSTANTS
  p1 = p1
  p2 = p2
  p3 = p3
  None = None
  Processes = {p1, p2, p3}
  PID <- MCPID
  Kinds = {"packaged", "source", "stop", "install", "activate"}
  MaxFaults = 3
CHECK_DEADLOCK FALSE
INVARIANTS
  TypeOK
  OneSupervisor
  OwnersRecordStays
  HeldByTheLiving
  SelectionInUse
  NativeIsQuiet
