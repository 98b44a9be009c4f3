SPECIFICATION Spec
CONSTANTS
  MaxTask = 8
  Workers = 4
  TASKS_CACHE_MAX = 1
  Chan = {"unbuffered", "buffered"}
  bufsize <- MCbufsize
  MaxSend = 3
  Talkers = 3
  MaxReq = 4
  Cap = 1
  Repeat <- MCRepeat
  CallBack = {"quick", "sleeps"}
CHECK_DEADLOCK FALSE
INVARIANTS TasksAccounted WaitersBlocked AbortsExplained
