CONSTANTS
  IntMax = 127
  Capacity = 3
  ObjOverhead = 1
  GcThreshold = 3
  Null = Null
  Programs = {}
  MemLimit = 120
  FrameMax = 8
  Inputs = {0, 1, 2, 3, 4, 5}
  Sources <- RunnableSources
  NativeIds <- NativeProcIds
SPECIFICATION DriverSpec
INVARIANTS RunsDefined CompiledIsSafe ProgramMeans ListsMean PushTargetsFlexible
PROPERTIES FrozenKeepsLength OnlyCollectionDestroys
CHECK_DEADLOCK FALSE
