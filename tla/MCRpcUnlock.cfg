SPECIFICATION FairSpec
CONSTANTS
  Requester = {c1, c2}
  NoTask = NoTask
  NoMsg = NoMsg
  Kind = {"write"}
  MaxSeq = 2
  Cap = 1
  MsgMax <- MCMsgMax
  DataMax <- MCDataMax
  MaxLoss = 1
  MaxErr = 0
CHECK_DEADLOCK FALSE
INVARIANTS
  ServerSurvives
