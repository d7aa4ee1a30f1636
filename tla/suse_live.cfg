SPECIFICATION BoundedFairSpec
CONSTANTS
  Programs = {p1, p2}
  Tids = {0, 1}
  Semaphores = {A}
  SEM_INIT <- InitA
  SEM_MAX <- MaxA
  MAX_MULTIPROG = 3
  CloseOthers = FALSE
  NULL = NULL
INVARIANT NoDeadlock
PROPERTIES
  EveryRequestAnswered
  ReadyGetsScheduled
CHECK_DEADLOCK FALSE
