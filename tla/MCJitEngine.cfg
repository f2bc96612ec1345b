SPECIFICATION Spec
CONSTANTS
  Game = Game
  Other = Other
  Kernel = Kernel
  Tail = Tail
  a1 = a1
  a2 = a2
  NoImage = NoImage
  Torn = Torn
  MaxThreads = 3
  Requests = {0, 2, 7}
  Images <- MCImages
  CodePcs <- MCCodePcs
  Entry <- MCEntry
  Oversized = {Tail}
  Trapping = {Other, NoImage}
  MapMayFail = TRUE
  OverlappedLoads = FALSE
INVARIANTS
  TypeOK
  NeverTerminated
  StoppedMeansJoined
  PauseBound
  FreshBlocks
PROPERTIES
  StopReturns
  ErrorEndsSession
  ResumedWorkerRuns
  LifecycleSpec
CHECK_DEADLOCK FALSE
