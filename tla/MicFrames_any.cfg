SPECIFICATION Spec
CONSTANTS
  MaxFrames = 12
  Skip = 2
  Needed = 3
INVARIANTS
  TypeOK
  NeverOldFrame
  AnnouncedIsNew
  EveryFrameWhole
CHECK_DEADLOCK FALSE
