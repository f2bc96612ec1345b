SPECIFICATION KernelSafety
CONSTANTS
  g1 = g1
  g2 = g2
  g3 = g3
  Guests = {g1}
  NoGuest = NoGuest
  MaxHandles = 2
  Lists <- MCPair
  Reentrant = FALSE
  Word = 4096
  HeapStart = 16
  HeapEnd = 31
  PageUp <- MCPageUp
  AlignUp <- MCAlignUp
  Sizes <- MCSizes
  Alignments = {1, 3}
  Bases <- MCBases
  MaxCalls = 3
  Services = {"objects"}
  HalfWord = 64
  RegionWords = {0, 1, 63}
  FileGuests = {g1, g2}
  GuestPaths <- MCGuestPaths
  HostDir <- MCHostDir
  MaxStreams = 2
  MaxFileSize = 1
  PadGuests = {g1, g2}
  UI = UI
  PolledPads = {0}
  Fields <- MCFields
  MaxSets = 3
  MaxPolls = 4
INVARIANT WaitStatusTrue
CHECK_DEADLOCK FALSE
