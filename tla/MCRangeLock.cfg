SPECIFICATION FairSpec
CONSTANTS
  Task = {t1, t2, t3}
  Node = {n1, n2, n3}
  NoNode = NoNode
  NoRange = NoRange
  Addr <- MCAddr
  Request <- MCRequest
INVARIANTS
  TypeOK
  MutualExclusion
  NodeLifetime
  SleepersHaveHolder
PROPERTIES
  AsleepIsWoken
  ImplementsRangeMutex
