SPECIFICATION FairSpec
CONSTANTS
  Requester = {c1, c2}
  NoTask = NoTask
  NoMsg = NoMsg
  Kind = {"read", "write"}
  MaxSeq = 3
  Cap = 1
  MsgMax <- MCMsgMax
  DataMax <- MCDataMax
  MaxLoss = 1
  MaxErr = 1
CHECK_DEADLOCK FALSE
INVARIANTS
  FramesIntact
  ResponseMatches
  HashIsOutstanding
  BuffersAccounted
  TeardownIsSafe
PROPERTIES
  AbortExplained
  Answered
  ServerTearsDown
