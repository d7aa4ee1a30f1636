SPECIFICATION Spec
CONSTANTS
  Handlers = {h1}
  NONE = NONE
  FilePaths <- TwoFiles
  DirPaths <- OneDir
  TruncateSizes = {0, 2, 5, 10}
  Writes <- SmallWrites
  Nodes <- Nodes2
  Blocks <- Blocks5
  BLOQUE_SIZE = 2
  PUNTEROS_A_BLOQUES_DATOS = 2
  BLKINDIRECT = 3
  MaxRequests = 4
PROPERTY ExistsMeansLive
CHECK_DEADLOCK FALSE
