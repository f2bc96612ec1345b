SPECIFICATION GpuSpec
CONSTANTS
  NumImages = 2
  Memory <- MCMemory
  MemWords <- MCMemWords
  MaxValue <- MCMaxValue
  StackDepth = 3
  Rings <- MCRings
  NumRegs = 5
  ProgramCntl = 1
  OpWeight = 1
  DrawIndx <- MCDrawIndx
  SetConstant <- MCSetConstant
  IndirectBuffer <- MCIndirectBuffer
  EventWriteEop <- MCEventWriteEop
  SetShaderConstants <- MCSetShaderConstants
  LoadState <- MCLoadState
INVARIANTS
  WalkTypeOK
  PresentsWithEverything
  RecordingNotInFlight
  AcquireSemaphoreFree
  WalkStaysInside
PROPERTIES
  WalksEnd
  SurfaceCallReturns
CHECK_DEADLOCK FALSE
