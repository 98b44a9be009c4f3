SPECIFICATION Spec
CONSTANTS
  Cmd = {c1, c2, c3}
  SendWorker = {s1, s2}
  RecvWorker = {r1}
  NoWork = NoWork
  NoCmd = NoCmd
  CLOSED = CLOSED
  Reserve = 1
  nmsg = 1
  nmsg_max = 4
  ndata = 1
  ndata_max = 5
  WorkMax = 5
  SrvMax = 5
  Cap = 1
  MaxFault = 2
SYMMETRY Perms
CHECK_DEADLOCK FALSE
INVARIANTS
  BuffersAccounted
  SenderOwnsMessage
  PoolsSuffice
  NoStall
  CrashExplained
