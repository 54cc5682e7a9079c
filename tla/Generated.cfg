CONSTANTS
  IntMax = 7
  Capacity = 2
  ObjOverhead = 1
  GcThreshold = 1
  Null = Null
  Programs <- Generated
  MemLimit = 10
  FrameMax = 3
  Inputs = {0, 1}
SPECIFICATION Spec
INVARIANTS EngineTypeOK FrameDiscipline HeapSound StaysInCode StaysInMemory NumbersStayDefined
PROPERTIES CallerRegistersIntact
CHECK_DEADLOCK FALSE
