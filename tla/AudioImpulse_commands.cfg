SPECIFICATION FairSpec
CONSTANTS
  FrameSize = 2
  SliceSize = 3
  FrameLength = 3
  FrameStride = 2
  Slices = 2
  MaxStarts = 2
  Failures = {"first_malloc", "second_malloc", "audio", "task", "classifier"}
INVARIANTS
  TypeOK
  MemorySafe
  NoLeak
  ClassifiesFullWindow
  PrintsWholeWindow
PROPERTIES
  ReportsOrStops
CHECK_DEADLOCK FALSE
