CONSTANTS
  IntMax = 127
  Capacity = 2
  ObjOverhead = 1
  GcThreshold = 2
  Null = Null
  Programs <- Recursion
  MemLimit = 40
  FrameMax = 8
  Inputs = {0, 1, 2, 3, 4, 5, 6}
SPECIFICATION Spec
INVARIANTS RunsDefined RecursionMeans
PROPERTIES ActivationSpec Terminates
CHECK_DEADLOCK FALSE
