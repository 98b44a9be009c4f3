SPECIFICATION FairSpec
CONSTANTS
  Cmd = {c1, c2}
  NoCmd = NoCmd
  NPaths = 2
  NoPath = NoPath
  Cpu = {k1}
  Kind = {"rw", "reserve", "release", "sensitive"}
  MaxIssue = 2
  MaxFault = 2
ACTION_CONSTRAINT Mixed
CHECK_DEADLOCK FALSE
PROPERTIES
  Completed
