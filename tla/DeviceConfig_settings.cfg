SPECIFICATION Spec
CONSTANTS
  Labels <- MC_Labels
  Keys <- MC_Keys
  Hosts <- MC_Hosts
  ApiKeys <- MC_ApiKeys
  Urls <- MC_Urls
  Intervals <- MC_Intervals
  Lengths <- MC_Lengths
  Junk = Junk
  PerMs = 16
  Word = 1048576
  FrameSamples = 1600
  HeaderRoom = 960
  available = 393216
  frequency = 16
  MaxCommands = 3
INVARIANTS
  TypeOK
  StoredIsCurrent
  AnnouncedFits
PROPERTIES
  CommandsAreWhole
