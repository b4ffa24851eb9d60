SPECIFICATION LFairSpec
CONSTANTS
  BufSize = 4
  MaxBytes = 3
  MaxIndex = 4
  TimerQueue = 2
  NUL = "NUL"
  FF = "FF"
  Chars <- MC_Chars
  Break = "b"
  Enter = "enter"
INVARIANTS
  TypeOK
  IndexOrder
  NoLostWakeup
  UnreadIntact
PROPERTIES
  ChannelSafe
  ChannelDelivers
  MainSleepsAgain
  BreakStops
  StopIsHeard
CHECK_DEADLOCK FALSE
