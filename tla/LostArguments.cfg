CONSTANTS
  IntMax = 15
  Capacity = 2
  ObjOverhead = 1
  GcThreshold = 2
  Null = Null
  Programs <- HazardPrograms
  MemLimit = 12
  FrameMax = 3
  Inputs = {0}
SPECIFICATION Spec
INVARIANT ArgumentsDelivered
CHECK_DEADLOCK FALSE
