SPECIFICATION FairSpec
CONSTANTS
  Programs = {p1}
  Tids = {0, 1, 2}
  Semaphores = {A}
  SEM_INIT <- InitA
  SEM_MAX <- MaxA
  MAX_MULTIPROG = 2
  CloseOthers = TRUE
  NULL = NULL
PROPERTY CloseReachesExit
CHECK_DEADLOCK FALSE
