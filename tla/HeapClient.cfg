CONSTANTS
  Capacity = 3
  ObjOverhead = 2
  GcThreshold = 4
  Null = Null
  Object = {a, b}
  MaxCreated = 7
SPECIFICATION HeapSpec
INVARIANT HeapInv
PROPERTY PoolSpec
