SPECIFICATION Spec
CONSTANTS
  Programs = {p1}
  Tids = {0, 1, 2, 3}
  Semaphores = {A, B}
  SEM_INIT <- InitA
  SEM_MAX <- MaxA
  MAX_MULTIPROG = 3
  CloseOthers = FALSE
  NULL = NULL
INVARIANTS
  NextNeverEmpty
  ReadyTokens
  OneQueue
PROPERTY ExitIsFinal
CHECK_DEADLOCK FALSE
