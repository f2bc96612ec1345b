SPECIFICATION GameSpec
CONSTANTS
  a = a
  b = b
  c = c
  d = d
  XexFiles <- MCXexFiles
  Addresses = {0, 7}
  NoXex = NoXex
  MemorySize = 8
  Packages <- MCPackages
  DirBlocks = 2
  BlockEntries = 3
  EndEntry = EndEntry
  DeletedEntry = DeletedEntry
  NoPackage = NoPackage
  Discs <- MCDiscs
  MaxSectors = 16
  MaxDirSize <- MCMaxDirSize
  MaxDepth = 3
  NoLink = NoLink
  NoName = NoName
  NoDisc = NoDisc
INVARIANTS
  FormatFromHeader
