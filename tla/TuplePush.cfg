CONSTANTS
  IntMax = 127
  Capacity = 3
  ObjOverhead = 1
  GcThreshold = 3
  Null = Null
  Programs = {}
  MemLimit = 12
  FrameMax = 3
  Inputs = {0}
  Sources <- PushSources
  NativeIds <- NativeProcIds
SPECIFICATION DriverSpec
PROPERTY FrozenKeepsLength
CHECK_DEADLOCK FALSE
