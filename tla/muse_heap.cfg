SPECIFICATION Spec
CONSTANTS
  Programs = {p1, p2}
  NOBODY = NOBODY
  Sizes = {0, 8, 20}
  PAGE_SIZE = 16
  FRAMES = 5
  MaxMallocs = 4
  MaxMaps = 1
INVARIANTS TypeOK BlocksDisjoint HeadersMatchClient Coalesced LostOnlyAfterFault LeaksNotOverstated
PROPERTY EveryMallocAnswered
CHECK_DEADLOCK FALSE
