SPECIFICATION Spec
CONSTANTS
  Typed <- MC_Typed
  KeySequences <- MC_Keys
  history_max_size = 2
  MaxLine = 3
  MaxEnter = 3
INVARIANTS
  BlankLineIsRefused
CHECK_DEADLOCK FALSE
