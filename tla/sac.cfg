SPECIFICATION Spec
CONSTANTS
  Handlers = {h1, h2}
  NONE = NONE
  FilePaths <- TwoFiles
  DirPaths <- TwoDirs
  TruncateSizes = {0, 2, 5, 8}
  Writes <- SmallWrites
  Nodes <- Nodes2
  Blocks <- Blocks5
  BLOQUE_SIZE = 2
  PUNTEROS_A_BLOQUES_DATOS = 2
  BLKINDIRECT = 2
  MaxRequests = 4
INVARIANTS TypeOK WritersExclusive LocksAccounted NoDeadlock BlocksOwnedOnce BlocksMarked ReadsGoThroughBlocks UniqueNames TreeRooted WildOnlyAfter
PROPERTY EveryRequestAnswered
CHECK_DEADLOCK FALSE
