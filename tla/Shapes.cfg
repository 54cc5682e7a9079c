CONSTANTS
  IntMax = 127
  Sources <- MixedSources
  NativeIds <- CompilerNatives
SPECIFICATION CompilerSpec
INVARIANTS EverythingEmitted GraphsWellMarked CodeKeepsConvention CodeTranslatesSteps NamesMeanChunks NothingCarriedOver AcceptedConverts AcceptedIsScoped CallsHaveArity
PROPERTIES EmissionSpec FinishedChunksStand
CHECK_DEADLOCK FALSE
