SPECIFICATION Spec
CONSTANTS
  Cmd = {c1, c2}
  NoCmd = NoCmd
  NPaths = 2
  NoPath = NoPath
  Cpu = {k1, k2}
  Kind = {"rw", "reserve", "sensitive"}
  MaxIssue = 2
  MaxFault = 2
CHECK_DEADLOCK FALSE
INVARIANTS
  ResetFindsNoSensitive
