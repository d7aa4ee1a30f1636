SPECIFICATION Spec
CONSTANTS
  Programs = {p1}
  NOBODY = NOBODY
  Sizes = {8, 20}
  PAGE_SIZE = 16
  FRAMES = 8
  MaxMallocs = 4
  MaxMaps = 0
INVARIANT BlocksNeverShared
CHECK_DEADLOCK FALSE
