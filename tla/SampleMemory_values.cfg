SPECIFICATION Spec
CONSTANTS
  block_size = 12
  memory_blocks = 6
  config_size = 15
  Word = 256
  HeaderSize <- MC_HeaderSize
  FrameSamples = 1
  buffer_size = 6
  Requested <- MC_Fitting
  Requests <- MC_Requests
  MaxFrames = 7
  NULL = "NULL"
  device_name = "dev"
  sensors <- MC_Sensors
  CborBuffer = 30
  Samples <- MC_Samples
INVARIANTS
  ValuesAreSamples
CHECK_DEADLOCK FALSE
