SPECIFICATION SessionSpec
CONSTANTS
  Game = Game
  Broken = Broken
  a1 = a1
  a2 = a2
  NoImage = NoImage
  Torn = Torn
  NoGame = NoGame
  MaxThreads = 2
  Requests = {4}
  Images <- MCImages
  CodePcs <- MCCodePcs
  Entry <- MCEntry
  Oversized = {}
  Trapping = {}
  MapMayFail = TRUE
  OverlappedLoads = TRUE
  Games <- MCMixedGames
  ImageOf <- MCMixedImageOf
  ImportsOverlap = FALSE
INVARIANTS
  ClosedMeansStopped
  StartNeverRefused
  PauseInSync
  RunsWantedGame
PROPERTIES
  EngineUsedAsIntended
  ScreenCloses
CHECK_DEADLOCK FALSE
