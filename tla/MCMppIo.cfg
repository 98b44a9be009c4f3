SPECIFICATION Spec
CONSTANTS
  Cmd = {c1, c2, c3}
  NoCmd = NoCmd
  NPaths = 2
  NoPath = NoPath
  Cpu = {k1}
  Kind = {"reserve", "sensitive"}
  MaxIssue = 3
  MaxFault = 2
CHECK_DEADLOCK FALSE
INVARIANTS
  BlockedByRetries
  CountsHeld
  NobodyForgotten
  SensitiveTracked
  ReservesCounted
SYMMETRY Perms
