SPECIFICATION KernelSpec
CONSTANTS
  g1 = g1
  g2 = g2
  g3 = g3
  Guests <- MCGuests
  NoGuest = NoGuest
  MaxHandles = 1
  Lists <- MCTwice
  Reentrant = TRUE
  Word = 4096
  HeapStart = 16
  HeapEnd = 31
  PageUp <- MCPageUp
  AlignUp <- MCAlignUp
  Sizes <- MCSizes
  Alignments = {1, 3}
  Bases <- MCBases
  MaxCalls = 3
  Services = {"objects", "memory", "files", "pads"}
  HalfWord = 64
  RegionWords = {0, 1, 63}
  FileGuests = {g1, g2}
  GuestPaths <- MCGuestPaths
  HostDir <- MCHostDir
  MaxStreams = 2
  MaxFileSize = 1
  PadGuests = {g1, g2}
  UI = UI
  PolledPads = {0, 1}
  Fields <- MCFields
  MaxSets = 3
  MaxPolls = 3
INVARIANTS
  OwnedMeansLocked
  FreeMeansClear
  NoLostWakeup
  AutoResetWakesOne
  OverlapsExplained
  StreamsHeld
  KeptDataStays
  PadStatesWhole
PROPERTIES
  WaitsEnd
  SignalReaches
CHECK_DEADLOCK FALSE
