CONSTANTS
  IntMax = 127
  Sources <- NestedElse
  NativeIds <- CompilerNatives
SPECIFICATION CompilerSpec
INVARIANT NothingLost
CHECK_DEADLOCK FALSE
