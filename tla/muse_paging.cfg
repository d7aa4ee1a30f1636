SPECIFICATION Spec
CONSTANTS
  Programs <- TwoPrograms
  Files = {f1}
  FilePages <- TwoPages
  Values = {a, b}
  Frames <- Frames2
  Slots <- Frames2
  PAGE_SIZE = 4
  MaxSegments = 2
  MaxPages = 3
  MaxRequests = 6
INVARIANTS TypeOK FramesOwnedOnce SlotsOwnedOnce HeapKeepsWrites MappedShowsWrites SyncedInFile ClockNeedsUnmap OverflowOnlyWhenFull
CHECK_DEADLOCK FALSE
