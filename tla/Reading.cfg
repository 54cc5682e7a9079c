CONSTANTS
  IntMax = 127
  Sources = {}
  NativeIds <- CompilerNatives
  FileSystems <- ReadFiles
  MainPath = "main"
  Unit <- UnitOf
SPECIFICATION FrontendSpec
INVARIANTS OwnText MeansSource ReadsBack UnitsWhole LinkedOnce
PROPERTIES ClosureSpec LoadingProgresses LoadingEnds
CHECK_DEADLOCK FALSE
