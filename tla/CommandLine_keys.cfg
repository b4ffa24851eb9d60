SPECIFICATION Spec
CONSTANTS
  Typed <- MC_Typed
  KeySequences <- MC_Keys
  history_max_size = 2
  MaxLine = 2
  MaxEnter = 4
INVARIANTS
  TypeOK
  PositionsInRange
  HistoryIsNewest
  ScreenShowsLine
CHECK_DEADLOCK FALSE
