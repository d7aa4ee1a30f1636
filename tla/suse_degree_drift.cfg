SPECIFICATION Spec
CONSTANTS
  Programs = {p1, p2}
  Tids = {0, 1}
  Semaphores = {A}
  SEM_INIT <- InitA
  SEM_MAX <- MaxA
  MAX_MULTIPROG = 2
  CloseOthers = FALSE
  NULL = NULL
CONSTRAINT ReadyBound
INVARIANT ActualIsCurrent
CHECK_DEADLOCK FALSE
