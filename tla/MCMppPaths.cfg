SPECIFICATION Spec
CONSTANTS
  Path = {p1, p2}
  NoPath = NoPath
  Dev = {1}
  NoDev = NoDev
  Cmd = {c1, c2}
  NoCmd = NoCmd
  MaxPaths = 2
  maxDevices = 2
  Answer = {"on", "dead"}
  MaxOp = 3
  MaxFault = 1
CHECK_DEADLOCK FALSE
SYMMETRY Perms
CONSTRAINT NothingStale
INVARIANTS
  ActivePathExists
  StaleUses
  ResourcesOutliveUsers
