CONSTANTS
  IntMax = 127
  Sources <- WrongArguments
  NativeIds <- CompilerNatives
SPECIFICATION CompilerSpec
INVARIANT IllFormedRefused
CHECK_DEADLOCK FALSE
