SPECIFICATION Safety
CONSTANTS
  Game = Game
  Other = Other
  Kernel = Kernel
  Tail = Tail
  a1 = a1
  a2 = a2
  NoImage = NoImage
  Torn = Torn
  MaxThreads = 1
  Requests = {1}
  Images <- MCTwoImages
  CodePcs <- MCCodePcs
  Entry <- MCSharedEntry
  Oversized = {}
  Trapping = {}
  MapMayFail = FALSE
  OverlappedLoads = FALSE
INVARIANT FreshBlocks
