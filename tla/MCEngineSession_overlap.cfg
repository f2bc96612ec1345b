SPECIFICATION SessionSafety
CONSTANTS
  Game = Game
  Broken = Broken
  a1 = a1
  a2 = a2
  NoImage = NoImage
  Torn = Torn
  NoGame = NoGame
  MaxThreads = 1
  Requests = {4}
  Images <- MCImages
  CodePcs <- MCCodePcs
  Entry <- MCEntry
  Oversized = {}
  Trapping = {}
  MapMayFail = FALSE
  OverlappedLoads = TRUE
  Games <- MCXexGames
  ImageOf <- MCXexImageOf
  ImportsOverlap = TRUE
INVARIANT ClosedMeansStopped
