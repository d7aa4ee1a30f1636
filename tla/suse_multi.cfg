SPECIFICATION Spec
CONSTANTS
  Programs = {p1, p2}
  Tids = {0, 1, 2}
  Semaphores = {A}
  SEM_INIT <- InitA
  SEM_MAX <- MaxA
  MAX_MULTIPROG = 3
  CloseOthers = TRUE
  NULL = NULL
CONSTRAINTS
  ReadyBound
  ThirdThread
INVARIANTS
  TypeOK
  MutualExclusion
  SemaphoreAccounting
  MultiprogBound
PROPERTY ImplementsSemaphores
CHECK_DEADLOCK FALSE
