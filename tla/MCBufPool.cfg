SPECIFICATION FairSpec
CONSTANTS
  Task = {t1, t2, t3}
  NoTask = NoTask
  Buf = {b1, b2, b3, b4, b5}
  nbufs = 4
  nmax = 5
INVARIANTS
  TypeOK
  Accounting
  NoHoldAndWait
  AssertsHold
PROPERTIES
  SleeperIsWoken
  DeinitEnds
